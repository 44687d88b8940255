--------------------------- MODULE RpcServerProofs ---------------------------
(***************************************************************************)
(* The RPC server answers every message once and notifies a subscription   *)
(* only while the client may expect it: an inductive invariant of          *)
(* RpcServer, and the proof that every step keeps it.                      *)
(***************************************************************************)
EXTENDS RpcServer, SequenceTheorems, TLAPS

SubIds == Nat \X Nat
Answers == {"error", "unsubscribe", "subscribe", "call"}
Outs == [msg : Nat, resps : Seq(Answers), subs : Seq(SubIds), ends : SUBSET SubIds, note : BOOLEAN]
ServingRecords == [at : {"new", "loop", "wait", "return", "over"}, next : Nat \ {0}, closed : BOOLEAN, lost : BOOLEAN,
                   out : Seq(Outs)]
ExecRecords == [at : {"new", "exec", "activate", "done"}, resps : Seq(Answers), subs : Seq(SubIds),
                ends : SUBSET SubIds]
ExecMaps == UNION {[DOMAIN Script[c] -> ExecRecords] : c \in Codecs}
NotifierRecords == [active : SUBSET SubIds, inactive : SUBSET SubIds, ended : SUBSET SubIds, notified : Nat]
ServerRecords == [run : BOOLEAN, codecs : SUBSET Codecs, stopped : BOOLEAN]

RpcTypes ==
    /\ rpcServer \in ServerRecords
    /\ serving \in [Codecs -> ServingRecords]
    /\ execs \in [Codecs -> ExecMaps]
    /\ \A c \in Codecs : execs[c] \in [DOMAIN Script[c] -> ExecRecords]
    /\ notifier \in [Codecs -> NotifierRecords]

\* What an answer to message m has: one response per request.
Wanted(m) == IF Unreadable(m) THEN 1 ELSE Len(m.requests)

\* The answers written: of messages that were read and are not being executed
\* any more, one per message.  A message that is not new was read.
Answered(c, sv, ex) ==
    /\ \A i \in 1 .. Len(sv.out) : ~sv.out[i].note =>
          /\ sv.out[i].msg \in DOMAIN Script[c] /\ sv.out[i].msg < sv.next
          /\ ex[sv.out[i].msg].at # "exec"
          /\ Len(sv.out[i].resps) = Wanted(Script[c][sv.out[i].msg])
    /\ \A i, j \in 1 .. Len(sv.out) :
          (i # j /\ ~sv.out[i].note /\ ~sv.out[j].note) => sv.out[i].msg # sv.out[j].msg
    /\ \A k \in DOMAIN Script[c] : ex[k].at # "new" => k < sv.next /\ ~Unreadable(Script[c][k])

\* A subscription belongs to the message that made it; it is active, and then
\* ended, only after that message is done.
Subscribed(c, ex, nt) ==
    /\ \A k \in DOMAIN Script[c] : \A s \in Range(ex[k].subs) : s[1] = k
    /\ \A s \in nt.active \cup nt.ended :
          s[1] \in DOMAIN Script[c] /\ ex[s[1]].at = "done" /\ s \in Range(ex[s[1]].subs)
    /\ nt.active \cap nt.ended = {}

\* What a client was, or will be, told to be unsubscribed has ended.
Ended(c, sv, ex, nt) ==
    /\ \A i \in 1 .. Len(sv.out) : sv.out[i].ends \subseteq nt.ended
    /\ \A k \in DOMAIN Script[c] : ex[k].ends \subseteq nt.ended

\* While the connection can be written to, the ids of the messages that are
\* answered have been sent.
Sent(c, sv, ex) ==
    (~sv.closed /\ ~sv.lost) =>
        \A k \in DOMAIN Script[c] : ex[k].at \in {"activate", "done"} =>
            \E j \in 1 .. Len(sv.out) : ~sv.out[j].note /\ sv.out[j].subs = ex[k].subs

\* A notification comes after the id and not after the end of its subscription.
NoteOK(out, i) ==
    /\ \E j \in 1 .. i - 1 : ~out[j].note /\ out[i].subs[1] \in Range(out[j].subs)
    /\ ~ \E j \in 1 .. i - 1 : out[i].subs[1] \in out[j].ends

Notified(sv) == \A i \in 1 .. Len(sv.out) : sv.out[i].note => NoteOK(sv.out, i)

ConnSound(c, sv, ex, nt) ==
    Answered(c, sv, ex) /\ Subscribed(c, ex, nt) /\ Ended(c, sv, ex, nt) /\ Sent(c, sv, ex) /\ Notified(sv)

\* A connection is served while it is registered, and Stop closes what is registered.
StopSound ==
    /\ rpcServer.stopped => ~rpcServer.run
    /\ \A c \in Codecs : serving[c].at \in {"loop", "wait"} =>
          c \in rpcServer.codecs /\ (rpcServer.stopped => serving[c].closed)

RpcServerInv ==
    RpcTypes /\ StopSound /\ \A c \in Codecs : ConnSound(c, serving[c], execs[c], notifier[c])

-----------------------------------------------------------------------------
(* What a step of one connection does to it: sv, ex and nt are the values  *)
(* of serving, execs and notifier for the connection.                      *)

LEMMA ScriptByIndex ==
    ASSUME NEW c \in Codecs
    PROVE  /\ Len(Script[c]) \in Nat /\ DOMAIN Script[c] = 1 .. Len(Script[c])
           /\ \A k \in DOMAIN Script[c] : /\ Len(Script[c][k].requests) \in Nat
                                          /\ DOMAIN Script[c][k].requests = 1 .. Len(Script[c][k].requests)
BY ScriptAssumption, LenProperties

LEMMA OutFields ==
    ASSUME NEW r \in Outs
    PROVE  /\ r.msg \in Nat /\ r.resps \in Seq(Answers) /\ r.subs \in Seq(SubIds)
           /\ r.ends \in SUBSET SubIds /\ r.note \in BOOLEAN
BY DEF Outs

LEMMA ServingFields ==
    ASSUME NEW sv \in ServingRecords
    PROVE  sv.next \in Nat /\ sv.next # 0 /\ sv.closed \in BOOLEAN /\ sv.lost \in BOOLEAN /\ sv.out \in Seq(Outs)
BY DEF ServingRecords

LEMMA ExecFields ==
    ASSUME NEW r \in ExecRecords
    PROVE  /\ r.at \in {"new", "exec", "activate", "done"} /\ r.resps \in Seq(Answers)
           /\ r.subs \in Seq(SubIds) /\ r.ends \in SUBSET SubIds
BY DEF ExecRecords

LEMMA NotifierFields ==
    ASSUME NEW nt \in NotifierRecords
    PROVE  /\ nt.active \in SUBSET SubIds /\ nt.inactive \in SUBSET SubIds /\ nt.ended \in SUBSET SubIds
           /\ nt.notified \in Nat
BY DEF NotifierRecords

LEMMA Written ==
    ASSUME NEW out \in Seq(Outs), NEW r \in Outs, NEW t, t = Append(out, r)
    PROVE  /\ t \in Seq(Outs) /\ Len(out) \in Nat /\ Len(t) = Len(out) + 1
           /\ \A i \in 1 .. Len(out) : t[i] = out[i]
           /\ t[Len(out) + 1] = r
BY AppendProperties, LenProperties

\* What is written later leaves the notifications before it as they are.
LEMMA NotesStay ==
    ASSUME NEW sv, Notified(sv), Len(sv.out) \in Nat, NEW t, \A i \in 1 .. Len(sv.out) : t[i] = sv.out[i]
    PROVE  \A i \in 1 .. Len(sv.out) : t[i].note => NoteOK(t, i)
<1> SUFFICES ASSUME NEW i \in 1 .. Len(sv.out), t[i].note
             PROVE  NoteOK(t, i)
  OBVIOUS
<1>1. NoteOK(sv.out, i)
  BY DEF Notified
<1>2. /\ t[i] = sv.out[i]
      /\ \A j \in 1 .. i - 1 : t[j] = sv.out[j]
  OBVIOUS
<1>3. QED
  BY <1>1, <1>2, Zenon DEF NoteOK

LEMMA NoteFits ==
    ASSUME NEW t, NEW n \in Nat, NEW s, t[n + 1].subs[1] = s,
           \E j \in 1 .. n : ~t[j].note /\ s \in Range(t[j].subs), \A j \in 1 .. n : s \notin t[j].ends
    PROVE  NoteOK(t, n + 1)
<1>1. (n + 1) - 1 = n
  OBVIOUS
<1>2. QED
  BY <1>1, Zenon DEF NoteOK

\* Nor does it take back the ids that were sent.
LEMMA SentStays ==
    ASSUME NEW c, NEW sv, NEW ex, NEW sv2, Sent(c, sv, ex), Len(sv.out) \in Nat, Len(sv2.out) = Len(sv.out) + 1,
           \A i \in 1 .. Len(sv.out) : sv2.out[i] = sv.out[i], sv2.closed = sv.closed, sv2.lost = sv.lost
    PROVE  Sent(c, sv2, ex)
<1> SUFFICES ASSUME ~sv2.closed /\ ~sv2.lost, NEW k \in DOMAIN Script[c], ex[k].at \in {"activate", "done"}
             PROVE  \E j \in 1 .. Len(sv2.out) : ~sv2.out[j].note /\ sv2.out[j].subs = ex[k].subs
  BY DEF Sent
<1>1. PICK j \in 1 .. Len(sv.out) : ~sv.out[j].note /\ sv.out[j].subs = ex[k].subs
  BY DEF Sent
<1>2. j \in 1 .. Len(sv2.out) /\ ~sv2.out[j].note /\ sv2.out[j].subs = ex[k].subs
  BY <1>1
<1>3. QED
  BY <1>2

\* The invariant looks at what was written and read, and at active and ended.
LEMMA SameOut ==
    ASSUME NEW c, NEW sv, NEW ex, NEW nt, ConnSound(c, sv, ex, nt), NEW sv2, NEW nt2,
           sv2.next = sv.next, sv2.out = sv.out, sv.closed => sv2.closed, sv.lost => sv2.lost,
           nt2.active = nt.active, nt2.ended = nt.ended
    PROVE  ConnSound(c, sv2, ex, nt2)
<1>1. Answered(c, sv2, ex)
  BY DEF ConnSound, Answered
<1>2. Subscribed(c, ex, nt2)
  BY DEF ConnSound, Subscribed
<1>3. Ended(c, sv2, ex, nt2)
  BY DEF ConnSound, Ended
<1>4. Sent(c, sv2, ex)
  BY DEF ConnSound, Sent
<1>5. Notified(sv2)
  BY DEF ConnSound, Notified
<1>6. QED
  BY <1>1, <1>2, <1>3, <1>4, <1>5 DEF ConnSound

\* An answer to a message that is not executed.
LEMMA AnswersUnexecuted ==
    ASSUME NEW c \in Codecs, NEW sv \in ServingRecords, NEW ex, NEW nt, ConnSound(c, sv, ex, nt),
           NEW sv2 \in ServingRecords, NEW r \in Outs,
           sv2.out = Append(sv.out, r), sv2.next = sv.next + 1, sv2.closed = sv.closed, sv2.lost = sv.lost,
           sv.next \in DOMAIN Script[c], r.msg = sv.next, r.ends = {}, ~r.note,
           ex[r.msg].at = "new", Len(r.resps) = Wanted(Script[c][r.msg])
    PROVE  ConnSound(c, sv2, ex, nt)
<1> DEFINE t == sv2.out  out == sv.out  n == Len(out)
<1>1. /\ n \in Nat /\ Len(t) = n + 1 /\ t[n + 1] = r
      /\ \A i \in 1 .. n : t[i] = out[i]
  BY Written, ServingFields, SMTT(60)
<1>2. sv.next \in Nat
  BY ServingFields
<1> HIDE DEF t, out, n
<1>3. sv2.out = t /\ sv.out = out /\ Len(sv.out) = n /\ Len(out) = n
  BY DEF t, out, n
<1>4. Answered(c, sv2, ex)
  <2>1. \A i \in 1 .. n : ~t[i].note => t[i].msg # r.msg /\ t[i].msg < sv2.next
    BY <1>1, <1>2, <1>3, ScriptByIndex, SMTT(60) DEF ConnSound, Answered
  <2>2. \A i \in 1 .. n : ~t[i].note =>
            /\ t[i].msg \in DOMAIN Script[c] /\ ex[t[i].msg].at # "exec"
            /\ Len(t[i].resps) = Wanted(Script[c][t[i].msg])
    BY <1>1, <1>3, SMT DEF ConnSound, Answered
  <2>3. \A i, j \in 1 .. n : (i # j /\ ~t[i].note /\ ~t[j].note) => t[i].msg # t[j].msg
    BY <1>1, <1>3, SMT DEF ConnSound, Answered
  <2>4. \A k \in DOMAIN Script[c] : ex[k].at # "new" => k < sv2.next /\ ~Unreadable(Script[c][k])
    BY <1>2, ScriptByIndex, SMT DEF ConnSound, Answered
  <2>5. r.msg \in DOMAIN Script[c] /\ ex[r.msg].at # "exec" /\ r.msg < sv2.next
    BY <1>2
  <2>6. \A i \in 1 .. n + 1 : i = n + 1 \/ i \in 1 .. n
    BY <1>1
  <2>7. QED
    BY <1>1, <1>3, <2>1, <2>2, <2>3, <2>4, <2>5, <2>6 DEF Answered
<1>5. Subscribed(c, ex, nt)
  BY DEF ConnSound
<1>6. Ended(c, sv2, ex, nt)
  BY <1>1, <1>3, SMT DEF ConnSound, Ended
<1>7. Sent(c, sv2, ex)
  BY <1>1, <1>3, SentStays DEF ConnSound
<1>8. Notified(sv2)
  <2>1. Notified(sv) /\ Len(sv.out) \in Nat /\ \A i \in 1 .. Len(sv.out) : t[i] = sv.out[i]
    BY <1>1, <1>3 DEF ConnSound
  <2>2. \A i \in 1 .. Len(sv.out) : t[i].note => NoteOK(t, i)
    BY <2>1, NotesStay, Zenon
  <2>3. QED
    BY <1>1, <1>3, <2>2 DEF Notified
<1>9. QED
  BY <1>4, <1>5, <1>6, <1>7, <1>8 DEF ConnSound

\* A message that is read and is to be executed.
LEMMA StartsExec ==
    ASSUME NEW c \in Codecs, NEW sv \in ServingRecords, NEW ex \in [DOMAIN Script[c] -> ExecRecords], NEW nt,
           ConnSound(c, sv, ex, nt), NEW sv2 \in ServingRecords, NEW ex2, NEW k \in DOMAIN Script[c],
           k = sv.next, ~Unreadable(Script[c][k]),
           sv2.out = sv.out, sv2.next = sv.next + 1, sv2.closed = sv.closed, sv2.lost = sv.lost,
           ex2[k].at = "exec", ex2[k].subs = ex[k].subs, ex2[k].ends = ex[k].ends,
           \A m \in DOMAIN Script[c] : m # k => ex2[m] = ex[m]
    PROVE  ConnSound(c, sv2, ex2, nt)
<1>1. sv.next \in Nat /\ k \in Nat
  BY ServingFields
<1>2. ex[k].at = "new"
  BY <1>1, SMTT(60) DEF ConnSound, Answered
<1>3. Answered(c, sv2, ex2)
  <2>1. \A i \in 1 .. Len(sv.out) : ~sv.out[i].note =>
            /\ sv.out[i].msg \in DOMAIN Script[c] /\ sv.out[i].msg < sv.next
            /\ ex[sv.out[i].msg].at # "exec"
            /\ Len(sv.out[i].resps) = Wanted(Script[c][sv.out[i].msg])
    BY SMTT(60) DEF ConnSound, Answered
  <2>2. \A i \in 1 .. Len(sv.out) : ~sv.out[i].note =>
            sv.out[i].msg # k /\ sv.out[i].msg < sv2.next /\ ex2[sv.out[i].msg].at # "exec"
    BY <1>1, <2>1, ScriptByIndex, SMTT(60)
  <2>3. \A m \in DOMAIN Script[c] : ex2[m].at # "new" => m < sv2.next /\ ~Unreadable(Script[c][m])
    <3>1. \A m \in DOMAIN Script[c] : m \in Nat
      BY ScriptByIndex
    <3>2. \A m \in DOMAIN Script[c] : ex[m].at # "new" => m < sv.next /\ ~Unreadable(Script[c][m])
      BY DEF ConnSound, Answered
    <3>3. QED
      BY <1>1, <3>1, <3>2
  <2>4. QED
    BY <2>1, <2>2, <2>3, SMTT(60) DEF ConnSound, Answered
<1>4. Subscribed(c, ex2, nt)
  <2>1. \A m \in DOMAIN Script[c] : ex2[m].subs = ex[m].subs
    OBVIOUS
  <2>2. \A m \in DOMAIN Script[c] : ex[m].at = "done" => ex2[m].at = "done"
    BY <1>2
  <2>3. QED
    BY <2>1, <2>2 DEF ConnSound, Subscribed
<1>5. Ended(c, sv2, ex2, nt)
  <2>1. \A m \in DOMAIN Script[c] : ex2[m].ends = ex[m].ends
    OBVIOUS
  <2>2. QED
    BY <2>1 DEF ConnSound, Ended
<1>6. Sent(c, sv2, ex2)
  BY DEF ConnSound, Sent
<1>7. Notified(sv2)
  BY DEF ConnSound, Notified
<1>8. QED
  BY <1>3, <1>4, <1>5, <1>6, <1>7 DEF ConnSound

\* A request of a message is executed: it may make a subscription, which
\* belongs to the message, and it may end one that is active.
LEMMA HandlesRequest ==
    ASSUME NEW c \in Codecs, NEW sv \in ServingRecords, NEW ex, NEW nt, ConnSound(c, sv, ex, nt),
           NEW ex2, NEW nt2, NEW k \in DOMAIN Script[c],
           ex[k].at = "exec", ex2[k].at = "exec", \A m \in DOMAIN Script[c] : m # k => ex2[m] = ex[m],
           \A s \in Range(ex2[k].subs) : s \in Range(ex[k].subs) \/ s[1] = k,
           ex2[k].ends \subseteq nt2.ended, nt.ended \subseteq nt2.ended,
           nt2.active \cup nt2.ended = nt.active \cup nt.ended, nt2.active \cap nt2.ended = {}
    PROVE  ConnSound(c, sv, ex2, nt2)
<1>1. Answered(c, sv, ex2)
  BY DEF ConnSound, Answered
<1>2. Subscribed(c, ex2, nt2)
  <2>1. \A m \in DOMAIN Script[c] : \A s \in Range(ex2[m].subs) : s[1] = m
    BY DEF ConnSound, Subscribed
  <2>2. \A m \in DOMAIN Script[c] : ex[m].at = "done" => ex2[m] = ex[m]
    OBVIOUS
  <2>3. \A s \in nt2.active \cup nt2.ended :
            s[1] \in DOMAIN Script[c] /\ ex2[s[1]].at = "done" /\ s \in Range(ex2[s[1]].subs)
    BY <2>2 DEF ConnSound, Subscribed
  <2>4. QED
    BY <2>1, <2>3 DEF Subscribed
<1>3. Ended(c, sv, ex2, nt2)
  BY DEF ConnSound, Ended
<1>4. Sent(c, sv, ex2)
  BY DEF ConnSound, Sent
<1>5. QED
  BY <1>1, <1>2, <1>3, <1>4, SMTT(60) DEF ConnSound

\* The answer to a message, with the ids and the ends of its requests.
LEMMA AnswersExecuted ==
    ASSUME NEW c \in Codecs, NEW sv \in ServingRecords, NEW ex, NEW nt, ConnSound(c, sv, ex, nt),
           NEW sv2 \in ServingRecords, NEW r \in Outs, NEW ex2, NEW k \in DOMAIN Script[c],
           sv2.out = Append(sv.out, r), sv2.next = sv.next, sv2.closed = sv.closed, sv2.lost = sv.lost,
           ex[k].at = "exec", ex2[k].at = "activate", ex2[k].subs = ex[k].subs, ex2[k].ends = ex[k].ends,
           \A m \in DOMAIN Script[c] : m # k => ex2[m] = ex[m],
           r.msg = k, r.subs = ex[k].subs, r.ends = ex[k].ends, ~r.note, Len(r.resps) = Len(Script[c][k].requests)
    PROVE  ConnSound(c, sv2, ex2, nt)
<1> DEFINE t == sv2.out  out == sv.out  n == Len(out)
<1>1. /\ n \in Nat /\ Len(t) = n + 1 /\ t[n + 1] = r
      /\ \A i \in 1 .. n : t[i] = out[i]
  BY Written, ServingFields
<1> HIDE DEF t, out, n
<1>2. sv2.out = t /\ sv.out = out /\ Len(sv.out) = n /\ Len(out) = n
  BY DEF t, out, n
<1>3. \A i \in 1 .. n + 1 : i = n + 1 \/ i \in 1 .. n
  BY <1>1, SMTT(60)
<1>4. Answered(c, sv2, ex2)
  <2>1. \A i \in 1 .. n : ~t[i].note =>
            /\ t[i].msg \in DOMAIN Script[c] /\ ex[t[i].msg].at # "exec" /\ t[i].msg < sv2.next
            /\ Len(t[i].resps) = Wanted(Script[c][t[i].msg])
    BY <1>1, <1>2, SMT DEF ConnSound, Answered
  <2>2. \A i \in 1 .. n : ~t[i].note => t[i].msg # r.msg /\ ex2[t[i].msg].at # "exec"
    BY <2>1
  <2>3. \A i, j \in 1 .. n : (i # j /\ ~t[i].note /\ ~t[j].note) => t[i].msg # t[j].msg
    BY <1>1, <1>2, SMTT(60) DEF ConnSound, Answered
  <2>4. /\ \A m \in DOMAIN Script[c] : ex2[m].at # "new" => m < sv2.next /\ ~Unreadable(Script[c][m])
        /\ r.msg < sv2.next /\ Len(r.resps) = Wanted(Script[c][r.msg])
    BY DEF ConnSound, Answered, Wanted
  <2>5. QED
    BY <1>1, <1>2, <1>3, <2>1, <2>2, <2>3, <2>4, SMTT(60) DEF Answered
<1>5. Subscribed(c, ex2, nt)
  <2>1. \A m \in DOMAIN Script[c] : ex2[m].subs = ex[m].subs /\ (ex[m].at = "done" => ex2[m].at = "done")
    OBVIOUS
  <2>2. QED
    BY <2>1 DEF ConnSound, Subscribed
<1>6. Ended(c, sv2, ex2, nt)
  <2>1. \A m \in DOMAIN Script[c] : ex2[m].ends \subseteq nt.ended
    BY DEF ConnSound, Ended
  <2>2. \A i \in 1 .. n : t[i].ends \subseteq nt.ended
    BY <1>1, <1>2 DEF ConnSound, Ended
  <2>3. r.ends \subseteq nt.ended
    BY DEF ConnSound, Ended
  <2>4. QED
    BY <1>1, <1>2, <1>3, <2>1, <2>2, <2>3 DEF Ended
<1>7. Sent(c, sv2, ex2)
  <2>1. Sent(c, sv2, ex)
    BY <1>1, <1>2, SentStays DEF ConnSound
  <2>2. n + 1 \in 1 .. Len(sv2.out) /\ ~sv2.out[n + 1].note /\ sv2.out[n + 1].subs = ex2[k].subs
    BY <1>1, <1>2
  <2>3. QED
    BY <2>1, <2>2, SMTT(60) DEF Sent
<1>8. Notified(sv2)
  <2>1. Notified(sv) /\ Len(sv.out) \in Nat /\ \A i \in 1 .. Len(sv.out) : t[i] = sv.out[i]
    BY <1>1, <1>2 DEF ConnSound
  <2>2. \A i \in 1 .. Len(sv.out) : t[i].note => NoteOK(t, i)
    BY <2>1, NotesStay, Zenon
  <2>3. QED
    BY <1>1, <1>2, <2>2 DEF Notified
<1>9. QED
  BY <1>4, <1>5, <1>6, <1>7, <1>8 DEF ConnSound

\* The answer cannot be written: the connection is closed.
LEMMA AnswerLost ==
    ASSUME NEW c \in Codecs, NEW sv, NEW ex, NEW nt, ConnSound(c, sv, ex, nt), NEW sv2, NEW ex2,
           NEW k \in DOMAIN Script[c], sv2.out = sv.out, sv2.next = sv.next, sv2.closed,
           ex[k].at = "exec", ex2[k].at = "activate", ex2[k].subs = ex[k].subs, ex2[k].ends = ex[k].ends,
           \A m \in DOMAIN Script[c] : m # k => ex2[m] = ex[m]
    PROVE  ConnSound(c, sv2, ex2, nt)
<1>1. Answered(c, sv2, ex2)
  BY DEF ConnSound, Answered
<1>2. Subscribed(c, ex2, nt)
  <2>1. \A m \in DOMAIN Script[c] : ex2[m].subs = ex[m].subs /\ (ex[m].at = "done" => ex2[m].at = "done")
    OBVIOUS
  <2>2. QED
    BY <2>1 DEF ConnSound, Subscribed
<1>3. Ended(c, sv2, ex2, nt) /\ Sent(c, sv2, ex2) /\ Notified(sv2)
  BY DEF ConnSound, Ended, Sent, Notified
<1>4. QED
  BY <1>1, <1>2, <1>3, SMTT(60) DEF ConnSound

\* The subscriptions of an answered message become active.
LEMMA Activates ==
    ASSUME NEW c \in Codecs, NEW sv, NEW ex, NEW nt, ConnSound(c, sv, ex, nt), NEW ex2, NEW nt2,
           NEW k \in DOMAIN Script[c],
           ex[k].at = "activate", ex2[k].at = "done", ex2[k].subs = ex[k].subs, ex2[k].ends = ex[k].ends,
           \A m \in DOMAIN Script[c] : m # k => ex2[m] = ex[m],
           nt2.active = nt.active \cup Range(ex[k].subs), nt2.ended = nt.ended
    PROVE  ConnSound(c, sv, ex2, nt2)
<1>1. Answered(c, sv, ex2)
  BY DEF ConnSound, Answered
<1>2. Subscribed(c, ex2, nt2)
  <2>1. \A m \in DOMAIN Script[c] : ex2[m].subs = ex[m].subs /\ (ex[m].at = "done" => ex2[m].at = "done")
    OBVIOUS
  <2>2. \A s \in Range(ex[k].subs) : s[1] = k /\ s \notin nt.ended
    BY DEF ConnSound, Subscribed
  <2>3. QED
    BY <2>1, <2>2 DEF ConnSound, Subscribed
<1>3. Ended(c, sv, ex2, nt2)
  BY DEF ConnSound, Ended
<1>4. Sent(c, sv, ex2)
  BY DEF ConnSound, Sent
<1>5. QED
  BY <1>1, <1>2, <1>3, <1>4, SMTT(60) DEF ConnSound

\* A notification of an active subscription, written to an open connection:
\* its id was sent, and no answer said that it ended.
LEMMA WritesNote ==
    ASSUME NEW c \in Codecs, NEW sv \in ServingRecords, NEW ex, NEW nt, ConnSound(c, sv, ex, nt),
           NEW sv2 \in ServingRecords, NEW nt2, NEW r \in Outs, NEW s \in nt.active,
           ~sv.closed, ~sv.lost, sv2.out = Append(sv.out, r), sv2.next = sv.next,
           sv2.closed = sv.closed, sv2.lost = sv.lost,
           r.note, r.subs = <<s>>, r.ends = {}, nt2.active = nt.active, nt2.ended = nt.ended
    PROVE  ConnSound(c, sv2, ex, nt2)
<1> DEFINE t == sv2.out  out == sv.out  n == Len(out)
<1>1. /\ n \in Nat /\ Len(t) = n + 1 /\ t[n + 1] = r
      /\ \A i \in 1 .. n : t[i] = out[i]
  BY Written, ServingFields
<1> HIDE DEF t, out, n
<1>2. sv2.out = t /\ sv.out = out /\ Len(sv.out) = n /\ Len(out) = n
  BY DEF t, out, n
<1>3. \A i \in 1 .. n + 1 : i = n + 1 \/ i \in 1 .. n
  BY <1>1
<1>4. Answered(c, sv2, ex)
  BY <1>1, <1>2, <1>3, SMTT(60) DEF ConnSound, Answered
<1>5. Subscribed(c, ex, nt2)
  BY DEF ConnSound, Subscribed
<1>6. Ended(c, sv2, ex, nt2)
  BY <1>1, <1>2, <1>3 DEF ConnSound, Ended
<1>7. Sent(c, sv2, ex)
  BY <1>1, <1>2, SentStays, SMTT(60) DEF ConnSound
<1>8. NoteOK(t, n + 1)
  <2>1. t[n + 1].subs[1] = s
    BY <1>1
  <2>2. s[1] \in DOMAIN Script[c] /\ ex[s[1]].at = "done" /\ s \in Range(ex[s[1]].subs) /\ s \notin nt.ended
    BY DEF ConnSound, Subscribed
  <2>3. PICK j \in 1 .. n : ~out[j].note /\ out[j].subs = ex[s[1]].subs
    BY <1>2, <2>2 DEF ConnSound, Sent
  <2>4. ~t[j].note /\ s \in Range(t[j].subs)
    BY <1>1, <2>2, <2>3, SMTT(60)
  <2>5. \A i \in 1 .. n : s \notin t[i].ends
    BY <1>1, <1>2, <2>2 DEF ConnSound, Ended
  <2>6. QED
    BY <1>1, <2>1, <2>4, <2>5, NoteFits, Zenon
<1>9. Notified(sv2)
  <2>1. Notified(sv) /\ Len(sv.out) \in Nat /\ \A i \in 1 .. Len(sv.out) : t[i] = sv.out[i]
    BY <1>1, <1>2 DEF ConnSound
  <2>2. \A i \in 1 .. Len(sv.out) : t[i].note => NoteOK(t, i)
    BY <2>1, NotesStay, Zenon
  <2>3. QED
    BY <1>1, <1>2, <1>3, <1>8, <2>2 DEF Notified
<1>10. QED
  BY <1>4, <1>5, <1>6, <1>7, <1>9 DEF ConnSound

-----------------------------------------------------------------------------
(* The steps.                                                              *)

LEMMA ConnValues ==
    ASSUME RpcServerInv, NEW c \in Codecs
    PROVE  /\ serving[c] \in ServingRecords /\ execs[c] \in [DOMAIN Script[c] -> ExecRecords]
           /\ notifier[c] \in NotifierRecords /\ rpcServer \in ServerRecords
           /\ ConnSound(c, serving[c], execs[c], notifier[c])
BY DEF RpcServerInv, RpcTypes

\* A step of connection c leaves the others as they are.
LEMMA ConnStep ==
    ASSUME RpcServerInv, NEW c \in Codecs, NEW sv \in ServingRecords,
           NEW ex \in [DOMAIN Script[c] -> ExecRecords], NEW nt \in NotifierRecords,
           serving' = [serving EXCEPT ![c] = sv], execs' = [execs EXCEPT ![c] = ex],
           notifier' = [notifier EXCEPT ![c] = nt], ConnSound(c, sv, ex, nt),
           rpcServer' \in ServerRecords, rpcServer'.run = rpcServer.run, rpcServer'.stopped = rpcServer.stopped,
           \A d \in Codecs : d # c /\ d \in rpcServer.codecs => d \in rpcServer'.codecs,
           sv.at \in {"loop", "wait"} => c \in rpcServer'.codecs /\ (rpcServer.stopped => sv.closed)
    PROVE  RpcServerInv'
<1>1. /\ serving \in [Codecs -> ServingRecords] /\ execs \in [Codecs -> ExecMaps]
      /\ notifier \in [Codecs -> NotifierRecords]
      /\ \A d \in Codecs : execs[d] \in [DOMAIN Script[d] -> ExecRecords]
  BY DEF RpcServerInv, RpcTypes
<1>2. ex \in ExecMaps
  BY Zenon DEF ExecMaps
<1>3. /\ serving'[c] = sv /\ execs'[c] = ex /\ notifier'[c] = nt
      /\ \A d \in Codecs : d # c => /\ serving'[d] = serving[d] /\ execs'[d] = execs[d]
                                    /\ notifier'[d] = notifier[d]
  BY <1>1
<1>4. RpcTypes'
  <2>1. serving' \in [Codecs -> ServingRecords] /\ notifier' \in [Codecs -> NotifierRecords]
    BY <1>1
  <2>2. execs' \in [Codecs -> ExecMaps]
    BY <1>1, <1>2
  <2>3. \A d \in Codecs : execs'[d] \in [DOMAIN Script[d] -> ExecRecords]
    BY <1>1, <1>3
  <2>4. QED
    BY <2>1, <2>2, <2>3 DEF RpcTypes
<1>5. StopSound'
  <2>1. StopSound
    BY DEF RpcServerInv
  <2>2. rpcServer'.stopped => ~rpcServer'.run
    BY <2>1 DEF StopSound
  <2>3. ASSUME NEW d \in Codecs, serving'[d].at \in {"loop", "wait"}
        PROVE  d \in rpcServer'.codecs /\ (rpcServer'.stopped => serving'[d].closed)
    <3>1. CASE d = c
      BY <1>3, <2>3, <3>1
    <3>2. CASE d # c
      BY <1>3, <2>1, <2>3, <3>2 DEF StopSound
    <3>3. QED
      BY <3>1, <3>2
  <2>4. QED
    BY <2>2, <2>3 DEF StopSound
<1>6. ASSUME NEW d \in Codecs PROVE ConnSound(d, serving'[d], execs'[d], notifier'[d])
  <2>1. CASE d = c
    BY <1>3, <2>1
  <2>2. CASE d # c
    BY <1>3, <2>2 DEF RpcServerInv
  <2>3. QED
    BY <2>1, <2>2
<1>7. QED
  BY <1>4, <1>5, <1>6 DEF RpcServerInv

LEMMA InitSound == RpcServerInit => RpcServerInv
<1> SUFFICES ASSUME RpcServerInit PROVE RpcServerInv
  OBVIOUS
<1> DEFINE sv0 == [at |-> "new", next |-> 1, closed |-> FALSE, lost |-> FALSE, out |-> <<>>]
           nt0 == [active |-> {}, inactive |-> {}, ended |-> {}, notified |-> 0]
<1>1. sv0 \in ServingRecords /\ sv0.next = 1 /\ sv0.at = "new" /\ Len(sv0.out) = 0
  <2>1. <<>> \in Seq(Outs) /\ Len(<<>>) = 0
    OBVIOUS
  <2>2. QED
    BY <2>1 DEF ServingRecords
<1>2. Fresh \in ExecRecords /\ Fresh.at = "new" /\ Fresh.ends = {} /\ Range(Fresh.subs) = {}
  <2>1. <<>> \in Seq(Answers) /\ <<>> \in Seq(SubIds)
    OBVIOUS
  <2>2. Range(<<>>) = {}
    BY DEF Range
  <2>3. QED
    BY <2>1, <2>2 DEF ExecRecords, Fresh
<1>3. nt0 \in NotifierRecords /\ nt0.active = {} /\ nt0.ended = {}
  BY DEF NotifierRecords
<1>4. rpcServer \in ServerRecords /\ ~rpcServer.stopped
  BY DEF RpcServerInit, ServerRecords
<1> HIDE DEF sv0, nt0
<1>5. /\ serving = [c \in Codecs |-> sv0] /\ notifier = [c \in Codecs |-> nt0]
      /\ execs = [c \in Codecs |-> [k \in DOMAIN Script[c] |-> Fresh]]
  BY DEF RpcServerInit, sv0, nt0
<1>6. RpcTypes
  <2>1. serving \in [Codecs -> ServingRecords] /\ notifier \in [Codecs -> NotifierRecords]
    BY <1>1, <1>3, <1>5
  <2>2. \A c \in Codecs : execs[c] \in [DOMAIN Script[c] -> ExecRecords]
    BY <1>2, <1>5
  <2>3. execs \in [Codecs -> ExecMaps]
    <3>1. \A c \in Codecs : execs[c] \in ExecMaps
      BY <2>2, Zenon DEF ExecMaps
    <3>2. QED
      BY <1>5, <3>1
  <2>4. QED
    BY <1>4, <2>1, <2>2, <2>3 DEF RpcTypes
<1>7. StopSound
  BY <1>1, <1>4, <1>5 DEF StopSound
<1>8. ASSUME NEW c \in Codecs PROVE ConnSound(c, serving[c], execs[c], notifier[c])
  <2> DEFINE ex0 == execs[c]
  <2>1. \A k \in DOMAIN Script[c] : ex0[k] = Fresh
    BY <1>5
  <2> HIDE DEF ex0
  <2>2. Answered(c, sv0, ex0)
    BY <1>1, <1>2, <2>1 DEF Answered
  <2>3. Subscribed(c, ex0, nt0)
    BY <1>2, <1>3, <2>1 DEF Subscribed
  <2>4. Ended(c, sv0, ex0, nt0)
    BY <1>1, <1>2, <2>1 DEF Ended
  <2>5. Sent(c, sv0, ex0) /\ Notified(sv0)
    BY <1>1, <1>2, <2>1, SMTT(60) DEF Sent, Notified
  <2>6. QED
    BY <1>5, <2>2, <2>3, <2>4, <2>5 DEF ConnSound, ex0
<1>9. QED
  BY <1>6, <1>7, <1>8 DEF RpcServerInv

\* A step that changes only the stage of serveRequest or closes the connection.
LEMMA StageStep ==
    ASSUME RpcServerInv, NEW c \in Codecs, NEW sv \in ServingRecords,
           serving' = [serving EXCEPT ![c] = sv], execs' = execs, notifier' = notifier,
           sv.next = serving[c].next, sv.out = serving[c].out,
           serving[c].closed => sv.closed, serving[c].lost => sv.lost,
           rpcServer' \in ServerRecords, rpcServer'.run = rpcServer.run, rpcServer'.stopped = rpcServer.stopped,
           \A d \in Codecs : d # c /\ d \in rpcServer.codecs => d \in rpcServer'.codecs,
           sv.at \in {"loop", "wait"} => c \in rpcServer'.codecs /\ (rpcServer.stopped => sv.closed)
    PROVE  RpcServerInv'
<1> DEFINE ex == execs[c]  nt == notifier[c]
<1>1. ex \in [DOMAIN Script[c] -> ExecRecords] /\ nt \in NotifierRecords /\ ConnSound(c, serving[c], ex, nt)
  BY ConnValues
<1>2. execs' = [execs EXCEPT ![c] = ex] /\ notifier' = [notifier EXCEPT ![c] = nt]
  BY DEF RpcServerInv, RpcTypes
<1> HIDE DEF ex, nt
<1>3. ConnSound(c, sv, ex, nt)
  BY <1>1, SameOut
<1>4. QED
  BY <1>1, <1>2, <1>3, ConnStep, Zenon

\* The registered connections, changed.
LEMMA CodecsSet ==
    ASSUME NEW s \in ServerRecords, NEW cs \in SUBSET Codecs, NEW t, t = [s EXCEPT !.codecs = cs]
    PROVE  t \in ServerRecords /\ t.run = s.run /\ t.stopped = s.stopped /\ t.codecs = cs
BY DEF ServerRecords

LEMMA ServeSound == ASSUME RpcServerInv, NEW c \in Codecs, Serve(c) PROVE RpcServerInv'
<1> DEFINE sv == serving[c]
<1>1. sv \in ServingRecords /\ rpcServer \in ServerRecords
  BY ConnValues
<1> HIDE DEF sv
<1>2. CASE rpcServer.run
  <2> DEFINE sv2 == [sv EXCEPT !.at = "loop"]  cs == rpcServer.codecs \cup {c}
  <2>1. /\ sv2 \in ServingRecords /\ sv2.next = sv.next /\ sv2.out = sv.out
        /\ (sv.closed => sv2.closed) /\ (sv.lost => sv2.lost)
    BY <1>1 DEF ServingRecords
  <2>2. cs \in SUBSET Codecs /\ c \in cs /\ rpcServer.codecs \subseteq cs
    BY <1>1 DEF ServerRecords
  <2>3. rpcServer' = [rpcServer EXCEPT !.codecs = cs]
    BY <1>2 DEF Serve, Admitted
  <2>4. serving' = [serving EXCEPT ![c] = sv2] /\ execs' = execs /\ notifier' = notifier
    BY <1>2 DEF Serve, Admitted, sv
  <2>5. ~rpcServer.stopped
    BY <1>2 DEF RpcServerInv, StopSound
  <2> HIDE DEF sv2, cs
  <2>6. /\ rpcServer' \in ServerRecords /\ rpcServer'.run = rpcServer.run
        /\ rpcServer'.stopped = rpcServer.stopped /\ rpcServer'.codecs = cs
    BY <1>1, <2>2, <2>3, CodecsSet
  <2>7. QED
    BY <2>1, <2>2, <2>4, <2>5, <2>6, StageStep, Zenon DEF sv
<1>3. CASE ~rpcServer.run
  <2> DEFINE sv2 == [sv EXCEPT !.at = "return"]
  <2>1. /\ sv2 \in ServingRecords /\ sv2.next = sv.next /\ sv2.out = sv.out /\ sv2.at = "return"
        /\ (sv.closed => sv2.closed) /\ (sv.lost => sv2.lost)
    BY <1>1 DEF ServingRecords
  <2>2. /\ serving' = [serving EXCEPT ![c] = sv2] /\ execs' = execs /\ notifier' = notifier
        /\ rpcServer' = rpcServer
    BY <1>3 DEF Serve, Admitted, sv
  <2> HIDE DEF sv2
  <2>3. QED
    BY <1>1, <2>1, <2>2, StageStep, Zenon DEF sv
<1>4. QED
  BY <1>2, <1>3

LEMMA LoopEndsSound == ASSUME RpcServerInv, NEW c \in Codecs, LoopEnds(c) \/ PendWait(c) PROVE RpcServerInv'
<1> DEFINE sv == serving[c]  sv2 == [sv EXCEPT !.at = "return"]
<1>1. sv \in ServingRecords /\ rpcServer \in ServerRecords
  BY ConnValues
<1>2. /\ serving' = [serving EXCEPT ![c] = sv2] /\ execs' = execs /\ notifier' = notifier
      /\ rpcServer' = rpcServer
  BY DEF LoopEnds, PendWait
<1> HIDE DEF sv
<1>3. /\ sv2 \in ServingRecords /\ sv2.next = sv.next /\ sv2.out = sv.out /\ sv2.at = "return"
      /\ (sv.closed => sv2.closed) /\ (sv.lost => sv2.lost)
  BY <1>1 DEF ServingRecords
<1> HIDE DEF sv2
<1>4. QED
  BY <1>1, <1>2, <1>3, StageStep, Zenon DEF sv

LEMMA ReadEndsSound == ASSUME RpcServerInv, NEW c \in Codecs, ReadEnds(c) PROVE RpcServerInv'
<1> DEFINE sv == serving[c]  sv2 == [sv EXCEPT !.at = "wait", !.lost = TRUE]
<1>1. sv \in ServingRecords /\ rpcServer \in ServerRecords
  BY ConnValues
<1>2. /\ serving' = [serving EXCEPT ![c] = sv2] /\ execs' = execs /\ notifier' = notifier
      /\ rpcServer' = rpcServer
  BY Zenon DEF ReadEnds
<1>3. c \in rpcServer.codecs /\ (rpcServer.stopped => sv.closed)
  BY DEF ReadEnds, RpcServerInv, StopSound
<1> HIDE DEF sv
<1>4. /\ sv2 \in ServingRecords /\ sv2.next = sv.next /\ sv2.out = sv.out
      /\ (sv.closed => sv2.closed) /\ (sv.lost => sv2.lost)
  BY <1>1, Zenon DEF ServingRecords
<1> HIDE DEF sv2
<1>5. QED
  BY <1>1, <1>2, <1>3, <1>4, StageStep, Zenon DEF sv

LEMMA ServeReturnsSound == ASSUME RpcServerInv, NEW c \in Codecs, ServeReturns(c) PROVE RpcServerInv'
<1> DEFINE sv == serving[c]  sv2 == [sv EXCEPT !.at = "over", !.closed = TRUE]  cs == rpcServer.codecs \ {c}
<1>1. sv \in ServingRecords /\ rpcServer \in ServerRecords
  BY ConnValues
<1>2. /\ serving' = [serving EXCEPT ![c] = sv2] /\ execs' = execs /\ notifier' = notifier
      /\ rpcServer' = [rpcServer EXCEPT !.codecs = cs]
  BY Zenon DEF ServeReturns
<1> HIDE DEF sv
<1>3. /\ sv2 \in ServingRecords /\ sv2.next = sv.next /\ sv2.out = sv.out /\ sv2.at = "over"
      /\ (sv.closed => sv2.closed) /\ (sv.lost => sv2.lost)
  BY <1>1, Zenon DEF ServingRecords
<1>4. cs \in SUBSET Codecs
  BY <1>1 DEF ServerRecords
<1>5. \A d \in Codecs : d # c /\ d \in rpcServer.codecs => d \in cs
  OBVIOUS
<1> HIDE DEF sv2, cs
<1>6. /\ rpcServer' \in ServerRecords /\ rpcServer'.run = rpcServer.run
      /\ rpcServer'.stopped = rpcServer.stopped /\ rpcServer'.codecs = cs
  <2>1. rpcServer' = [rpcServer EXCEPT !.codecs = cs]
    BY <1>2
  <2>2. QED
    BY <1>1, <1>4, <2>1, CodecsSet
<1>7. QED
  BY <1>2, <1>3, <1>5, <1>6, StageStep, Zenon DEF sv

LEMMA StopBeginsSound == ASSUME RpcServerInv, StopBegins PROVE RpcServerInv'
<1>1. rpcServer' \in ServerRecords /\ ~rpcServer'.run /\ rpcServer'.stopped = rpcServer.stopped
                                 /\ rpcServer'.codecs = rpcServer.codecs
  BY Zenon DEF RpcServerInv, RpcTypes, StopBegins, ServerRecords
<1>2. serving' = serving /\ execs' = execs /\ notifier' = notifier
  BY DEF StopBegins
<1>3. RpcTypes'
  BY <1>1, <1>2 DEF RpcServerInv, RpcTypes
<1>4. StopSound'
  BY <1>1, <1>2 DEF RpcServerInv, StopSound
<1>5. QED
  BY <1>2, <1>3, <1>4 DEF RpcServerInv

LEMMA StopClosesSound == ASSUME RpcServerInv, StopCloses PROVE RpcServerInv'
<1>1. /\ rpcServer' \in ServerRecords /\ ~rpcServer'.run /\ rpcServer'.codecs = rpcServer.codecs
  BY Zenon DEF RpcServerInv, RpcTypes, StopCloses, ServerRecords
<1>2. execs' = execs /\ notifier' = notifier
  BY DEF StopCloses
<1>3. ASSUME NEW c \in Codecs
      PROVE  /\ serving'[c] \in ServingRecords /\ serving'[c].at = serving[c].at
             /\ serving'[c].next = serving[c].next /\ serving'[c].out = serving[c].out
             /\ (serving[c].closed => serving'[c].closed) /\ serving'[c].lost = serving[c].lost
             /\ (c \in rpcServer.codecs => serving'[c].closed)
  <2> DEFINE sv == serving[c]
  <2>1. PICK f \in BOOLEAN : f = (sv.closed \/ c \in rpcServer.codecs)
    BY Zenon
  <2> DEFINE sv2 == [sv EXCEPT !.closed = f]
  <2>2. serving'[c] = sv2
    BY <2>1, Zenon DEF StopCloses
  <2>3. sv \in ServingRecords
    BY ConnValues
  <2> HIDE DEF sv
  <2>4. /\ sv2 \in ServingRecords /\ sv2.at = sv.at /\ sv2.next = sv.next /\ sv2.out = sv.out
        /\ sv2.closed = f /\ sv2.lost = sv.lost
    BY <2>3 DEF ServingRecords
  <2> HIDE DEF sv2
  <2>5. QED
    BY <2>1, <2>2, <2>4, Zenon DEF sv
<1>4. RpcTypes'
  <2>1. serving' \in [Codecs -> ServingRecords]
    <3> DEFINE G(c) == [serving[c] EXCEPT !.closed = @ \/ c \in rpcServer.codecs]
    <3>1. serving' = [c \in Codecs |-> G(c)]
      BY DEF StopCloses
    <3> HIDE DEF G
    <3>2. QED
      BY <1>3, <3>1
  <2>2. QED
    BY <1>1, <1>2, <2>1 DEF RpcServerInv, RpcTypes
<1>5. StopSound'
  BY <1>1, <1>3 DEF RpcServerInv, StopSound
<1>6. ASSUME NEW c \in Codecs PROVE ConnSound(c, serving'[c], execs'[c], notifier'[c])
  <2>1. ConnSound(c, serving[c], execs[c], notifier[c])
    BY ConnValues
  <2>2. QED
    BY <1>2, <1>3, <2>1, SameOut
<1>7. QED
  BY <1>4, <1>5, <1>6 DEF RpcServerInv

\* A message that is read, refused or handed to a goroutine.
LEMMA ReadRequestSound == ASSUME RpcServerInv, NEW c \in Codecs, ReadRequest(c) PROVE RpcServerInv'
<1> DEFINE sv == serving[c]  ex == execs[c]  nt == notifier[c]  k == sv.next  m == Script[c][k]
<1>1. /\ sv \in ServingRecords /\ ex \in [DOMAIN Script[c] -> ExecRecords] /\ nt \in NotifierRecords
      /\ rpcServer \in ServerRecords /\ ConnSound(c, sv, ex, nt)
  BY ConnValues
<1>2. k \in Nat /\ k \in DOMAIN Script[c]
  <2>1. k <= Len(Script[c])
    BY Zenon DEF ReadRequest, Sendable
  <2>2. k \in Nat /\ k # 0
    BY <1>1, ServingFields
  <2>3. QED
    BY <2>1, <2>2, ScriptByIndex, SMTT(60)
<1>3. rpcServer' = rpcServer /\ notifier' = [notifier EXCEPT ![c] = nt]
  BY SMTT(60) DEF ReadRequest, RpcServerInv, RpcTypes
<1>4. c \in rpcServer.codecs /\ (rpcServer.stopped => sv.closed) /\ sv.at = "loop"
  BY SMTT(60) DEF ReadRequest, RpcServerInv, StopSound
<1>5. ex[k].at = "new"
  <2>1. ex[k].at # "new" => k < sv.next
    BY <1>1, <1>2, Zenon DEF ConnSound, Answered
  <2>2. ~(k < k)
    BY <1>2, SMTT(60)
  <2>3. QED
    BY <2>1, <2>2, Zenon
<1>6. execs' = execs => execs' = [execs EXCEPT ![c] = ex]
  BY DEF RpcServerInv, RpcTypes
<1>7. /\ serving \in [Codecs -> ServingRecords] /\ execs \in [Codecs -> ExecMaps]
  BY DEF RpcServerInv, RpcTypes
<1>8. \/ /\ Unreadable(m) /\ execs' = execs
         /\ serving' = [serving EXCEPT ![c] =
                [sv EXCEPT !.next = k + 1, !.at = "wait", !.out = Append(sv.out, Refusal(k))]]
      \/ /\ ~Unreadable(m)
         /\ serving' = [serving EXCEPT ![c] = [sv EXCEPT !.next = k + 1]]
         /\ execs' = [execs EXCEPT ![c] = [ex EXCEPT ![k] = [ex[k] EXCEPT !.at = "exec"]]]
      \/ /\ ~Unreadable(m) /\ execs' = execs
         /\ serving' = [serving EXCEPT ![c] =
                [sv EXCEPT !.next = k + 1, !.at = "return",
                           !.out = Append(sv.out, [msg |-> k, subs |-> <<>>, ends |-> {}, note |-> FALSE,
                                                   resps |-> [i \in DOMAIN m.requests |-> "error"]])]]
  BY <1>7, Zenon DEF ReadRequest
<1> HIDE DEF sv, ex, nt, k, m
<1>9. k = sv.next /\ m = Script[c][k]
  BY DEF k, m
<1>10. ASSUME NEW r \in Outs, r.msg = k, r.ends = {}, ~r.note, Len(r.resps) = Wanted(m),
              NEW a \in {"wait", "return"}, execs' = execs,
              serving' = [serving EXCEPT ![c] = [sv EXCEPT !.next = k + 1, !.at = a, !.out = Append(sv.out, r)]]
       PROVE  RpcServerInv'
  <2> DEFINE out2 == Append(sv.out, r)  sv2 == [sv EXCEPT !.next = k + 1, !.at = a, !.out = out2]
  <2>1. out2 \in Seq(Outs) /\ k + 1 \in Nat \ {0}
    BY <1>1, <1>2, ServingFields, Written
  <2>2. serving' = [serving EXCEPT ![c] = sv2] /\ out2 = Append(sv.out, r)
    BY <1>10
  <2> HIDE DEF out2
  <2>3. /\ sv2 \in ServingRecords /\ sv2.next = k + 1 /\ sv2.out = out2
        /\ sv2.closed = sv.closed /\ sv2.lost = sv.lost
    BY <1>1, <2>1, Zenon DEF ServingRecords
  <2> HIDE DEF sv2
  <2>4. ConnSound(c, sv2, ex, nt)
    BY <1>1, <1>2, <1>5, <1>9, <1>10, <2>2, <2>3, AnswersUnexecuted
  <2>5. QED
    BY <1>1, <1>3, <1>4, <1>6, <1>10, <2>2, <2>3, <2>4, ConnStep, ZenonT(60)
<1>11. CASE /\ Unreadable(m) /\ execs' = execs
            /\ serving' = [serving EXCEPT ![c] =
                   [sv EXCEPT !.next = k + 1, !.at = "wait", !.out = Append(sv.out, Refusal(k))]]
  <2> DEFINE r == Refusal(k)
  <2>1. <<"error">> \in Seq(Answers) /\ <<>> \in Seq(SubIds) /\ Len(<<"error">>) = 1
    BY DEF Answers
  <2>2. r \in Outs /\ r.msg = k /\ r.ends = {} /\ ~r.note /\ Len(r.resps) = 1
    BY <1>2, <2>1 DEF Refusal, Outs
  <2>3. Len(r.resps) = Wanted(m)
    BY <1>11, <2>2 DEF Wanted
  <2> HIDE DEF r
  <2>4. serving' = [serving EXCEPT ![c] = [sv EXCEPT !.next = k + 1, !.at = "wait", !.out = Append(sv.out, r)]]
    BY <1>11, SMTT(60) DEF r
  <2>5. QED
    BY <1>10, <1>11, <2>2, <2>3, <2>4, Zenon
<1>12. CASE /\ ~Unreadable(m) /\ execs' = execs
            /\ serving' = [serving EXCEPT ![c] =
                   [sv EXCEPT !.next = k + 1, !.at = "return",
                              !.out = Append(sv.out, [msg |-> k, subs |-> <<>>, ends |-> {}, note |-> FALSE,
                                                      resps |-> [i \in DOMAIN m.requests |-> "error"]])]]
  <2> DEFINE q == [i \in DOMAIN m.requests |-> "error"]
             r == [msg |-> k, subs |-> <<>>, ends |-> {}, note |-> FALSE, resps |-> q]
  <2>1. Len(m.requests) \in Nat /\ DOMAIN m.requests = 1 .. Len(m.requests)
    BY <1>2, <1>9, ScriptByIndex
  <2>2. q \in Seq(Answers) /\ Len(q) = Len(m.requests)
    BY <2>1 DEF Answers
  <2>3. <<>> \in Seq(SubIds)
    OBVIOUS
  <2>4. serving' = [serving EXCEPT ![c] = [sv EXCEPT !.next = k + 1, !.at = "return", !.out = Append(sv.out, r)]]
    BY <1>12
  <2> HIDE DEF q
  <2>5. r \in Outs /\ r.msg = k /\ r.ends = {} /\ ~r.note /\ Len(r.resps) = Len(m.requests)
    BY <1>2, <2>2, <2>3 DEF Outs
  <2> HIDE DEF r
  <2>6. Len(r.resps) = Wanted(m)
    BY <1>12, <2>5, SMTT(60) DEF Wanted
  <2>7. QED
    BY <1>10, <1>12, <2>4, <2>5, <2>6, ZenonT(60)
<1>13. CASE /\ ~Unreadable(m)
            /\ serving' = [serving EXCEPT ![c] = [sv EXCEPT !.next = k + 1]]
            /\ execs' = [execs EXCEPT ![c] = [ex EXCEPT ![k] = [ex[k] EXCEPT !.at = "exec"]]]
  <2> DEFINE sv2 == [sv EXCEPT !.next = k + 1]  o == ex[k]  e == [o EXCEPT !.at = "exec"]  ex2 == [ex EXCEPT ![k] = e]
  <2>1. o \in ExecRecords
    BY <1>1, <1>2
  <2>2. serving' = [serving EXCEPT ![c] = sv2] /\ execs' = [execs EXCEPT ![c] = ex2]
    BY <1>13
  <2>3. /\ sv2 \in ServingRecords /\ sv2.next = k + 1 /\ sv2.out = sv.out /\ sv2.at = sv.at
        /\ sv2.closed = sv.closed /\ sv2.lost = sv.lost
    BY <1>1, <1>2 DEF ServingRecords
  <2> HIDE DEF o, sv2
  <2>4. e \in ExecRecords /\ e.at = "exec" /\ e.subs = o.subs /\ e.ends = o.ends
    BY <2>1, Zenon DEF ExecRecords
  <2> HIDE DEF e
  <2>5. /\ ex2 \in [DOMAIN Script[c] -> ExecRecords] /\ ex2[k] = e
        /\ \A l \in DOMAIN Script[c] : l # k => ex2[l] = ex[l]
    BY <1>1, <1>2, <2>4
  <2>6. ex[k] = o
    BY DEF o
  <2> HIDE DEF ex2
  <2>7. ConnSound(c, sv2, ex2, nt)
    BY <1>1, <1>2, <1>9, <1>13, <2>3, <2>4, <2>5, <2>6, StartsExec
  <2>8. QED
    BY <1>1, <1>3, <1>4, <2>2, <2>3, <2>5, <2>7, ConnStep, Zenon
<1>14. QED
  BY <1>8, <1>11, <1>12, <1>13

LEMMA VerifiedDoes == \A r : Verified(r).do \in Answers
BY DEF Verified, Error, Answers

\* Adding to a sequence adds to its range.
LEMMA RangeOfAppend ==
    ASSUME NEW s \in Seq(SubIds), NEW x \in SubIds
    PROVE  Append(s, x) \in Seq(SubIds) /\ \A y \in Range(Append(s, x)) : y \in Range(s) \/ y = x
<1>1. /\ Append(s, x) \in Seq(SubIds) /\ Len(Append(s, x)) = Len(s) + 1 /\ Len(s) \in Nat
      /\ DOMAIN s = 1 .. Len(s) /\ DOMAIN Append(s, x) = 1 .. Len(Append(s, x))
      /\ \A i \in 1 .. Len(s) : Append(s, x)[i] = s[i]
      /\ Append(s, x)[Len(s) + 1] = x
  BY AppendProperties, LenProperties
<1>2. \A i \in 1 .. Len(s) + 1 : i \in 1 .. Len(s) \/ i = Len(s) + 1
  BY <1>1, SMTT(60)
<1>3. QED
  BY <1>1, <1>2 DEF Range

\* handle: an unsubscribe that finds its subscription active ends it; a
\* subscribe makes one of this message, inactive.
LEMMA HandleSound ==
    ASSUME RpcServerInv, NEW c \in Codecs, NEW k \in DOMAIN Script[c], Handle(c, k)
    PROVE  RpcServerInv'
<1> DEFINE sv == serving[c]  ex == execs[c]  nt == notifier[c]  o == ex[k]
           i == Len(o.resps) + 1
           do == Verified(Script[c][k].requests[i]).do
           first == sv.out[CHOOSE j \in DOMAIN sv.out : sv.out[j].subs # <<>>].subs[1]
           found == do = "unsubscribe" /\ first \in nt.active
           a == IF do = "unsubscribe" /\ ~found THEN "error" ELSE do
           R == Append(o.resps, a)
           S == IF do = "subscribe" THEN Append(o.subs, <<k, i>>) ELSE o.subs
           E == IF found THEN o.ends \cup {first} ELSE o.ends
           I == IF do = "subscribe" THEN nt.inactive \cup {<<k, i>>} ELSE nt.inactive
           A == IF found THEN nt.active \ {first} ELSE nt.active
           N == IF found THEN nt.ended \cup {first} ELSE nt.ended
           e == [o EXCEPT !.resps = R, !.subs = S, !.ends = E]
           ex2 == [ex EXCEPT ![k] = e]
           nt2 == [nt EXCEPT !.inactive = I, !.active = A, !.ended = N]
<1>1. /\ sv \in ServingRecords /\ ex \in [DOMAIN Script[c] -> ExecRecords] /\ nt \in NotifierRecords
      /\ rpcServer \in ServerRecords /\ ConnSound(c, sv, ex, nt)
  BY ConnValues
<1>2. /\ serving \in [Codecs -> ServingRecords] /\ execs \in [Codecs -> ExecMaps]
      /\ notifier \in [Codecs -> NotifierRecords]
  BY DEF RpcServerInv, RpcTypes
<1>3. /\ o \in ExecRecords /\ o.at = "exec"
      /\ rpcServer' = rpcServer /\ serving' = [serving EXCEPT ![c] = sv]
  BY <1>1, <1>2, Zenon DEF Handle
<1>4. /\ execs' = [execs EXCEPT ![c][k] = [o EXCEPT
                       !.resps = Append(@, a),
                       !.subs = IF do = "subscribe" THEN Append(@, <<k, i>>) ELSE @,
                       !.ends = IF found THEN @ \cup {first} ELSE @]]
      /\ notifier' = [notifier EXCEPT ![c].inactive = IF do = "subscribe" THEN @ \cup {<<k, i>>} ELSE @,
                                    ![c].active = IF found THEN @ \ {first} ELSE @,
                                    ![c].ended = IF found THEN @ \cup {first} ELSE @]
  BY Zenon DEF Handle
<1>5. execs' = [execs EXCEPT ![c] = ex2] /\ notifier' = [notifier EXCEPT ![c] = nt2]
  <2> HIDE DEF a, do, found, first, i
  <2>1. execs' = [execs EXCEPT ![c] = ex2]
    <3> DEFINE e1 == [o EXCEPT !.resps = Append(@, a),
                               !.subs = IF do = "subscribe" THEN Append(@, <<k, i>>) ELSE @,
                               !.ends = IF found THEN @ \cup {first} ELSE @]
    <3>1. execs' = [execs EXCEPT ![c][k] = e1]
      BY <1>4, Zenon
    <3>2. e1 = e
      <4> HIDE DEF o
      <4>1. QED
        BY <1>3 DEF ExecRecords
    <3> HIDE DEF e1, e
    <3>3. execs' = [execs EXCEPT ![c] = [ex EXCEPT ![k] = e1]]
      BY <1>2, <3>1
    <3>4. QED
      BY <3>2, <3>3
  <2>2. notifier' = [notifier EXCEPT ![c] = nt2]
    BY <1>1, <1>2, <1>4, ZenonT(60) DEF NotifierRecords
  <2>3. QED
    BY <2>1, <2>2
<1>6. sv.at \in {"loop", "wait"} => c \in rpcServer.codecs /\ (rpcServer.stopped => sv.closed)
  BY DEF RpcServerInv, StopSound
<1>7. do \in Answers
  BY VerifiedDoes
<1>8. /\ o.resps \in Seq(Answers) /\ o.subs \in Seq(SubIds) /\ o.ends \in SUBSET SubIds
      /\ nt.active \in SUBSET SubIds /\ nt.inactive \in SUBSET SubIds /\ nt.ended \in SUBSET SubIds
  BY <1>1, <1>3, ExecFields, NotifierFields, SMTT(60)
<1> HIDE DEF sv, ex, nt, o, do, first
<1>9. <<k, i>> \in SubIds /\ <<k, i>>[1] = k
  <2>1. k \in Nat /\ i \in Nat
    BY <1>8, ScriptByIndex, LenProperties, SMTT(60)
  <2>2. QED
    BY <2>1 DEF SubIds
<1>10. R \in Seq(Answers)
  <2>1. a \in Answers
    BY <1>7 DEF Answers
  <2>2. QED
    BY <1>8, <2>1, AppendProperties
<1>11. S \in Seq(SubIds) /\ \A s \in Range(S) : s \in Range(o.subs) \/ s[1] = k
  <2>1. CASE do = "subscribe"
    <3>1. S = Append(o.subs, <<k, i>>)
      BY <2>1
    <3> HIDE DEF S, i
    <3>2. QED
      BY <1>8, <1>9, <3>1, RangeOfAppend, Zenon
  <2>2. CASE do # "subscribe"
    BY <1>8, <2>2
  <2>3. QED
    BY <2>1, <2>2, SMTT(60)
<1>12. I \in SUBSET SubIds
  BY <1>8, <1>9, Zenon
<1> HIDE DEF i
<1>13. /\ A \in SUBSET SubIds /\ N \in SUBSET SubIds /\ E \in SUBSET SubIds
       /\ nt.ended \subseteq N /\ A \cup N = nt.active \cup nt.ended
       /\ (nt.active \cap nt.ended = {} => A \cap N = {})
       /\ (o.ends \subseteq nt.ended => E \subseteq N)
  BY <1>8
<1> HIDE DEF R, S, E, I, A, N
<1>14. /\ e \in ExecRecords /\ e.at = "exec" /\ e.subs = S /\ e.ends = E
  BY <1>3, <1>10, <1>11, <1>13, Zenon DEF ExecRecords
<1>15. nt2 \in NotifierRecords /\ nt2.active = A /\ nt2.ended = N
  BY <1>1, <1>12, <1>13, ZenonT(60) DEF NotifierRecords
<1> HIDE DEF e, nt2
<1>16. /\ ex2 \in [DOMAIN Script[c] -> ExecRecords] /\ ex2[k] = e
       /\ \A l \in DOMAIN Script[c] : l # k => ex2[l] = ex[l]
  BY <1>1, <1>14
<1>17. ex[k] = o
  BY DEF o
<1> HIDE DEF ex2
<1>18. nt.active \cap nt.ended = {} /\ o.ends \subseteq nt.ended
  BY <1>1, <1>17, Zenon DEF ConnSound, Subscribed, Ended
<1>19. ConnSound(c, sv, ex2, nt2)
  <2>1. ex[k].at = "exec" /\ ex2[k].at = "exec" /\ ex2[k].ends \subseteq nt2.ended
    BY <1>3, <1>13, <1>14, <1>15, <1>16, <1>17, <1>18, Zenon
  <2>2. \A s \in Range(ex2[k].subs) : s \in Range(ex[k].subs) \/ s[1] = k
    BY <1>11, <1>14, <1>16, <1>17, Zenon
  <2>3. /\ nt.ended \subseteq nt2.ended /\ nt2.active \cup nt2.ended = nt.active \cup nt.ended
        /\ nt2.active \cap nt2.ended = {}
    BY <1>13, <1>15, <1>18, Zenon
  <2>4. QED
    BY <1>1, <1>16, <2>1, <2>2, <2>3, HandlesRequest, ZenonT(60)
<1>20. QED
  BY <1>1, <1>3, <1>5, <1>6, <1>15, <1>16, <1>19, ConnStep, Zenon

\* What every step of the goroutine of message k does to execs.
LEMMA StageOfExec ==
    ASSUME NEW c \in Codecs, NEW k \in DOMAIN Script[c], NEW ex \in [DOMAIN Script[c] -> ExecRecords],
           NEW a \in {"activate", "done"}, NEW ex2, ex2 = [ex EXCEPT ![k] = [ex[k] EXCEPT !.at = a]]
    PROVE  /\ ex2 \in [DOMAIN Script[c] -> ExecRecords]
           /\ ex2[k].at = a /\ ex2[k].subs = ex[k].subs /\ ex2[k].ends = ex[k].ends
           /\ \A l \in DOMAIN Script[c] : l # k => ex2[l] = ex[l]
<1> DEFINE o == ex[k]  e == [o EXCEPT !.at = a]
<1>1. o \in ExecRecords
  OBVIOUS
<1> HIDE DEF o
<1>2. e \in ExecRecords /\ e.at = a /\ e.subs = o.subs /\ e.ends = o.ends
  BY <1>1, ZenonT(60) DEF ExecRecords
<1>3. ex2 = [ex EXCEPT ![k] = e]
  BY DEF o
<1> HIDE DEF e
<1>4. ex2 \in [DOMAIN Script[c] -> ExecRecords] /\ ex2[k] = e /\ \A l \in DOMAIN Script[c] : l # k => ex2[l] = ex[l]
  BY <1>2, <1>3
<1>5. QED
  BY <1>2, <1>4 DEF o

\* The answer is written, or the connection closed.
LEMMA RespondSound ==
    ASSUME RpcServerInv, NEW c \in Codecs, NEW k \in DOMAIN Script[c], Respond(c, k)
    PROVE  RpcServerInv'
<1> DEFINE sv == serving[c]  ex == execs[c]  nt == notifier[c]  o == ex[k]
           ex2 == [ex EXCEPT ![k] = [ex[k] EXCEPT !.at = "activate"]]
           r == [msg |-> k, resps |-> o.resps, subs |-> o.subs, ends |-> o.ends, note |-> FALSE]
<1>1. /\ sv \in ServingRecords /\ ex \in [DOMAIN Script[c] -> ExecRecords] /\ nt \in NotifierRecords
      /\ rpcServer \in ServerRecords /\ ConnSound(c, sv, ex, nt)
  BY ConnValues
<1>2. /\ serving \in [Codecs -> ServingRecords] /\ execs \in [Codecs -> ExecMaps]
      /\ notifier \in [Codecs -> NotifierRecords]
  BY DEF RpcServerInv, RpcTypes
<1>3. /\ o \in ExecRecords /\ o.at = "exec" /\ Len(o.resps) = Len(Script[c][k].requests)
      /\ rpcServer' = rpcServer /\ notifier' = [notifier EXCEPT ![c] = nt]
  BY <1>1, <1>2 DEF Respond
<1>4. execs' = [execs EXCEPT ![c] = ex2]
  BY <1>2 DEF Respond
<1>5. sv.at \in {"loop", "wait"} => c \in rpcServer.codecs /\ (rpcServer.stopped => sv.closed)
  BY DEF RpcServerInv, StopSound
<1>6. \/ /\ ~sv.closed /\ ~sv.lost
         /\ serving' = [serving EXCEPT ![c] = [sv EXCEPT !.out = Append(sv.out, r)]]
      \/ serving' = [serving EXCEPT ![c] = [sv EXCEPT !.closed = TRUE]]
  BY <1>2 DEF Respond, CanWrite
<1>7. ex[k] = o
  OBVIOUS
<1> HIDE DEF o
<1>8. r \in Outs /\ r.msg = k /\ r.resps = o.resps /\ r.subs = o.subs /\ r.ends = o.ends /\ ~r.note
  <2>1. k \in Nat
    BY ScriptByIndex
  <2>2. QED
    BY <1>3, <2>1, ExecFields DEF Outs
<1> HIDE DEF sv, ex, nt, r
<1>9. /\ ex2 \in [DOMAIN Script[c] -> ExecRecords]
      /\ ex2[k].at = "activate" /\ ex2[k].subs = ex[k].subs /\ ex2[k].ends = ex[k].ends
      /\ \A l \in DOMAIN Script[c] : l # k => ex2[l] = ex[l]
  <2>1. ex2 = [ex EXCEPT ![k] = [ex[k] EXCEPT !.at = "activate"]]
    BY SMTT(60)
  <2> HIDE DEF ex2
  <2>2. QED
    BY <1>1, <2>1, StageOfExec
<1> HIDE DEF ex2
<1>10. CASE serving' = [serving EXCEPT ![c] = [sv EXCEPT !.out = Append(sv.out, r)]]
  <2> DEFINE out2 == Append(sv.out, r)  sv2 == [sv EXCEPT !.out = out2]
  <2>1. out2 \in Seq(Outs)
    BY <1>1, <1>8, ServingFields, Written
  <2>2. serving' = [serving EXCEPT ![c] = sv2] /\ out2 = Append(sv.out, r)
    BY <1>10
  <2> HIDE DEF out2
  <2>3. /\ sv2 \in ServingRecords /\ sv2.next = sv.next /\ sv2.out = out2 /\ sv2.at = sv.at
        /\ sv2.closed = sv.closed /\ sv2.lost = sv.lost
    BY <1>1, <2>1 DEF ServingRecords
  <2> HIDE DEF sv2
  <2>4. ConnSound(c, sv2, ex2, nt)
    <3>1. /\ sv2.out = Append(sv.out, r)
          /\ ex[k].at = "exec" /\ r.subs = ex[k].subs /\ r.ends = ex[k].ends
          /\ Len(r.resps) = Len(Script[c][k].requests)
      BY <1>3, <1>7, <1>8, <2>2, <2>3, Zenon
    <3>2. QED
      BY <1>1, <1>8, <1>9, <2>3, <3>1, AnswersExecuted, SMTT(60)
  <2>5. QED
    BY <1>1, <1>3, <1>4, <1>5, <1>9, <2>2, <2>3, <2>4, ConnStep, ZenonT(60)
<1>11. CASE serving' = [serving EXCEPT ![c] = [sv EXCEPT !.closed = TRUE]]
  <2> DEFINE sv2 == [sv EXCEPT !.closed = TRUE]
  <2>1. serving' = [serving EXCEPT ![c] = sv2]
    BY <1>11
  <2>2. /\ sv2 \in ServingRecords /\ sv2.next = sv.next /\ sv2.out = sv.out /\ sv2.at = sv.at /\ sv2.closed
    BY <1>1, Zenon DEF ServingRecords
  <2> HIDE DEF sv2
  <2>3. ConnSound(c, sv2, ex2, nt)
    BY <1>1, <1>3, <1>7, <1>9, <2>2, AnswerLost
  <2>4. QED
    BY <1>1, <1>3, <1>4, <1>5, <1>9, <2>1, <2>2, <2>3, ConnStep, Zenon
<1>12. QED
  BY <1>6, <1>10, <1>11

LEMMA ActivateSound ==
    ASSUME RpcServerInv, NEW c \in Codecs, NEW k \in DOMAIN Script[c], activate(c, k)
    PROVE  RpcServerInv'
<1> DEFINE sv == serving[c]  ex == execs[c]  nt == notifier[c]
           ex2 == [ex EXCEPT ![k] = [ex[k] EXCEPT !.at = "done"]]
           I == nt.inactive \ Range(ex[k].subs)
           A == nt.active \cup Range(ex[k].subs)
           nt2 == [nt EXCEPT !.inactive = I, !.active = A]
<1>1. /\ sv \in ServingRecords /\ ex \in [DOMAIN Script[c] -> ExecRecords] /\ nt \in NotifierRecords
      /\ rpcServer \in ServerRecords /\ ConnSound(c, sv, ex, nt)
  BY ConnValues
<1>2. /\ serving \in [Codecs -> ServingRecords] /\ execs \in [Codecs -> ExecMaps]
      /\ notifier \in [Codecs -> NotifierRecords]
  BY DEF RpcServerInv, RpcTypes
<1>3. /\ ex[k].at = "activate" /\ rpcServer' = rpcServer /\ serving' = [serving EXCEPT ![c] = sv]
  BY <1>2 DEF activate
<1>4. execs' = [execs EXCEPT ![c] = ex2]
  BY <1>2 DEF activate
<1>5. notifier' = [notifier EXCEPT ![c] = nt2]
  BY <1>1, <1>2, Zenon DEF activate, NotifierRecords
<1>6. sv.at \in {"loop", "wait"} => c \in rpcServer.codecs /\ (rpcServer.stopped => sv.closed)
  BY DEF RpcServerInv, StopSound
<1>7. I \in SUBSET SubIds /\ A \in SUBSET SubIds /\ A = nt.active \cup Range(ex[k].subs)
  <2>1. nt.active \in SUBSET SubIds /\ nt.inactive \in SUBSET SubIds
    BY <1>1, NotifierFields
  <2>2. ex[k].subs \in Seq(SubIds)
    BY <1>1, ExecFields
  <2> HIDE DEF ex
  <2>3. \A s \in Range(ex[k].subs) : s \in SubIds
    BY <2>2, LenProperties DEF Range
  <2>4. QED
    BY <2>1, <2>3
<1> HIDE DEF sv, ex, nt, I, A
<1>8. nt2 \in NotifierRecords /\ nt2.active = A /\ nt2.ended = nt.ended
  BY <1>1, <1>7, Zenon DEF NotifierRecords
<1> HIDE DEF nt2
<1>9. /\ ex2 \in [DOMAIN Script[c] -> ExecRecords]
      /\ ex2[k].at = "done" /\ ex2[k].subs = ex[k].subs /\ ex2[k].ends = ex[k].ends
      /\ \A l \in DOMAIN Script[c] : l # k => ex2[l] = ex[l]
  <2>1. ex2 = [ex EXCEPT ![k] = [ex[k] EXCEPT !.at = "done"]]
    OBVIOUS
  <2> HIDE DEF ex2
  <2>2. QED
    BY <1>1, <2>1, StageOfExec
<1> HIDE DEF ex2
<1>10. ConnSound(c, sv, ex2, nt2)
  BY <1>1, <1>3, <1>7, <1>8, <1>9, Activates
<1>11. QED
  BY <1>1, <1>3, <1>4, <1>5, <1>6, <1>8, <1>9, <1>10, ConnStep, Zenon

\* A notification is written only of an active subscription.
LEMMA NotifySound == ASSUME RpcServerInv, NEW c \in Codecs, Notify(c) PROVE RpcServerInv'
<1> DEFINE sv == serving[c]  ex == execs[c]  nt == notifier[c]  nt2 == [nt EXCEPT !.notified = nt.notified + 1]
           note(s) == [msg |-> 0, resps |-> <<>>, subs |-> <<s>>, ends |-> {}, note |-> TRUE]
<1>1. /\ sv \in ServingRecords /\ ex \in [DOMAIN Script[c] -> ExecRecords] /\ nt \in NotifierRecords
      /\ rpcServer \in ServerRecords /\ ConnSound(c, sv, ex, nt)
  BY ConnValues
<1>2. /\ serving \in [Codecs -> ServingRecords] /\ execs \in [Codecs -> ExecMaps]
      /\ notifier \in [Codecs -> NotifierRecords]
  BY DEF RpcServerInv, RpcTypes
<1>3. rpcServer' = rpcServer /\ execs' = [execs EXCEPT ![c] = ex]
  BY <1>2 DEF Notify
<1>4. notifier' = [notifier EXCEPT ![c] = nt2]
  BY <1>2 DEF Notify
<1>5. sv.at \in {"loop", "wait"} => c \in rpcServer.codecs /\ (rpcServer.stopped => sv.closed)
  BY DEF RpcServerInv, StopSound
<1>6. PICK s \in nt.active \cup nt.inactive \cup nt.ended :
           \/ serving' = serving
           \/ /\ s \in nt.active /\ ~sv.closed /\ ~sv.lost
              /\ serving' = [serving EXCEPT ![c] = [sv EXCEPT !.out = Append(sv.out, note(s))]]
           \/ serving' = [serving EXCEPT ![c] = [sv EXCEPT !.closed = TRUE]]
  BY <1>2, Zenon DEF Notify, CanWrite
<1>7. serving' = serving => serving' = [serving EXCEPT ![c] = sv]
  BY <1>2
<1> DEFINE r == note(s)
<1> HIDE DEF sv, ex, nt
<1>8. nt2 \in NotifierRecords /\ nt2.active = nt.active /\ nt2.ended = nt.ended
  BY <1>1 DEF NotifierRecords
<1> HIDE DEF nt2
<1>9. CASE serving' = serving
  <2>1. ConnSound(c, sv, ex, nt2)
    BY <1>1, <1>8, SameOut
  <2>2. QED
    BY <1>1, <1>3, <1>4, <1>5, <1>7, <1>8, <1>9, <2>1, ConnStep, ZenonT(60)
<1>10. CASE /\ s \in nt.active /\ ~sv.closed /\ ~sv.lost
            /\ serving' = [serving EXCEPT ![c] = [sv EXCEPT !.out = Append(sv.out, r)]]
  <2>1. s \in SubIds
    BY <1>1, <1>10, NotifierFields
  <2>2. r \in Outs /\ r.note /\ r.subs = <<s>> /\ r.ends = {}
    BY <2>1 DEF Outs
  <2> HIDE DEF r
  <2> DEFINE out2 == Append(sv.out, r)  sv2 == [sv EXCEPT !.out = out2]
  <2>3. out2 \in Seq(Outs)
    BY <1>1, <2>2, ServingFields, Written
  <2>4. serving' = [serving EXCEPT ![c] = sv2] /\ out2 = Append(sv.out, r)
    BY <1>10
  <2> HIDE DEF out2
  <2>5. /\ sv2 \in ServingRecords /\ sv2.next = sv.next /\ sv2.out = out2 /\ sv2.at = sv.at
        /\ sv2.closed = sv.closed /\ sv2.lost = sv.lost
    BY <1>1, <2>3, SMTT(60) DEF ServingRecords
  <2> HIDE DEF sv2
  <2>6. ConnSound(c, sv2, ex, nt2)
    BY <1>1, <1>8, <1>10, <2>2, <2>4, <2>5, WritesNote
  <2>7. QED
    BY <1>1, <1>3, <1>4, <1>5, <1>8, <2>4, <2>5, <2>6, ConnStep, Zenon
<1>11. CASE serving' = [serving EXCEPT ![c] = [sv EXCEPT !.closed = TRUE]]
  <2> DEFINE sv2 == [sv EXCEPT !.closed = TRUE]
  <2>1. serving' = [serving EXCEPT ![c] = sv2]
    BY <1>11
  <2>2. /\ sv2 \in ServingRecords /\ sv2.next = sv.next /\ sv2.out = sv.out /\ sv2.at = sv.at /\ sv2.closed
        /\ sv2.lost = sv.lost
    BY <1>1, Zenon DEF ServingRecords
  <2> HIDE DEF sv2
  <2>3. ConnSound(c, sv2, ex, nt2)
    BY <1>1, <1>8, <2>2, SameOut
  <2>4. QED
    BY <1>1, <1>3, <1>4, <1>5, <1>8, <2>1, <2>2, <2>3, ConnStep, Zenon
<1>12. QED
  BY <1>6, <1>9, <1>10, <1>11

-----------------------------------------------------------------------------
LEMMA InvImpliesSound == RpcServerInv => ServerSound
<1> SUFFICES ASSUME RpcServerInv PROVE ServerSound
  OBVIOUS
<1>1. RpcServerTypeOK
  BY DEF RpcServerInv, RpcTypes, ServerRecords, ServingRecords, RpcServerTypeOK
<1>2. rpcServer.stopped => \A c \in Codecs : serving[c].at \in {"loop", "wait"} => serving[c].closed
  BY DEF RpcServerInv, StopSound
<1>3. ASSUME NEW c \in Codecs
      PROVE  LET out == serving[c].out
             IN  /\ \A i, j \in DOMAIN out : (i # j /\ ~out[i].note /\ ~out[j].note) => out[i].msg # out[j].msg
                 /\ \A i \in DOMAIN out : ~out[i].note =>
                        Len(out[i].resps) = IF Unreadable(Script[c][out[i].msg]) THEN 1
                                            ELSE Len(Script[c][out[i].msg].requests)
                 /\ \A i \in DOMAIN out : out[i].note =>
                        /\ \E j \in 1 .. i - 1 : ~out[j].note /\ out[i].subs[1] \in Range(out[j].subs)
                        /\ ~ \E j \in 1 .. i - 1 : out[i].subs[1] \in out[j].ends
  <2> DEFINE sv == serving[c]  out == sv.out
  <2>1. sv \in ServingRecords /\ ConnSound(c, sv, execs[c], notifier[c])
    BY ConnValues
  <2> HIDE DEF sv
  <2>2. DOMAIN out = 1 .. Len(out)
    BY <2>1, ServingFields, LenProperties, SMTT(60)
  <2>3. \A i, j \in DOMAIN out : (i # j /\ ~out[i].note /\ ~out[j].note) => out[i].msg # out[j].msg
    BY <2>1, <2>2, SMTT(60) DEF ConnSound, Answered
  <2>4. \A i \in DOMAIN out : ~out[i].note => Len(out[i].resps) = Wanted(Script[c][out[i].msg])
    BY <2>1, <2>2, ZenonT(60) DEF ConnSound, Answered
  <2>5. \A i \in DOMAIN out : out[i].note => NoteOK(out, i)
    BY <2>1, <2>2 DEF ConnSound, Notified
  <2>6. QED
    BY <2>3, <2>4, <2>5, ZenonT(60) DEF Wanted, NoteOK, sv
<1>4. QED
  BY <1>1, <1>2, <1>3, Zenon DEF ServerSound

\* For every number of connections, every script of messages and every set of
\* callbacks: however the goroutines of serveRequest, exec and execBatch, the
\* services' notifications and Stop interleave, a message is answered at most
\* once and with one response per request; a subscription is notified only
\* after its id was sent and never after its end was confirmed; and when Stop
\* has returned, what is still being served is closed.
THEOREM RpcServerStaysSound == RpcServerSpec => []ServerSound
<1>1. RpcServerInit => RpcServerInv
  BY InitSound
<1>2. RpcServerInv /\ [RpcServerNext]_rpcServerVars => RpcServerInv'
  <2> SUFFICES ASSUME RpcServerInv, [RpcServerNext]_rpcServerVars PROVE RpcServerInv'
    OBVIOUS
  <2>1. CASE StopBegins
    BY <2>1, StopBeginsSound
  <2>2. CASE StopCloses
    BY <2>2, StopClosesSound
  <2>3. ASSUME NEW c \in Codecs, Serve(c) PROVE RpcServerInv'
    BY <2>3, ServeSound
  <2>4. ASSUME NEW c \in Codecs, LoopEnds(c) \/ PendWait(c) PROVE RpcServerInv'
    BY <2>4, LoopEndsSound, SMTT(60)
  <2>5. ASSUME NEW c \in Codecs, ReadRequest(c) PROVE RpcServerInv'
    BY <2>5, ReadRequestSound
  <2>6. ASSUME NEW c \in Codecs, ReadEnds(c) PROVE RpcServerInv'
    BY <2>6, ReadEndsSound
  <2>7. ASSUME NEW c \in Codecs, ServeReturns(c) PROVE RpcServerInv'
    BY <2>7, ServeReturnsSound
  <2>8. ASSUME NEW c \in Codecs, Notify(c) PROVE RpcServerInv'
    BY <2>8, NotifySound
  <2>9. ASSUME NEW c \in Codecs, NEW k \in DOMAIN Script[c], Handle(c, k) PROVE RpcServerInv'
    BY <2>9, HandleSound
  <2>10. ASSUME NEW c \in Codecs, NEW k \in DOMAIN Script[c], Respond(c, k) PROVE RpcServerInv'
    BY <2>10, RespondSound, SMTT(60)
  <2>11. ASSUME NEW c \in Codecs, NEW k \in DOMAIN Script[c], activate(c, k) PROVE RpcServerInv'
    BY <2>11, ActivateSound
  <2>12. CASE UNCHANGED rpcServerVars
    BY <2>12 DEF rpcServerVars, RpcServerInv, RpcTypes, StopSound
  <2>13. QED
    BY <2>1, <2>2, <2>3, <2>4, <2>5, <2>6, <2>7, <2>8, <2>9, <2>10, <2>11, <2>12, ZenonT(60) DEF RpcServerNext
<1>3. RpcServerInv => ServerSound
  BY InvImpliesSound
<1>4. QED
  BY <1>1, <1>2, <1>3, PTL DEF RpcServerSpec

=============================================================================
