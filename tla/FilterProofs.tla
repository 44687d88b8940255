----------------------------- MODULE FilterProofs -----------------------------
(***************************************************************************)
(* Proof that the filters of the API lose nothing, double nothing and      *)
(* invent nothing (FilterExact of FilterSystem).                           *)
(***************************************************************************)
EXTENDS FilterSystem, SequenceTheorems, TLAPS

-----------------------------------------------------------------------------
(* FilterSystem: what is true of one filter, its row g, the loop l and the *)
(* api a.                                                                  *)

FilterStates == [sub : {"none", "installed", "uninstalling", "gone"},
                 run : {"none", "new", "recv", "append", "unsubscribe", "done"},
                 hand : Seq(Nat), list : Seq(Nat), polled : Seq(Nat), due : Seq(Nat), expired : BOOLEAN]
LoopStates == [at : {"select", "send"}, index : SUBSET LogFilters, todo : SUBSET LogFilters, ev : Nat]
ApiStates == [filters : SUBSET LogFilters, mu : {"free", "timeout"}, scan : SUBSET LogFilters]

\* The parts of due, in the order the filter gets them.
Join(s, t) == s \o t
Passed(polled, list, hand, coming) == Join(Join(Join(polled, list), hand), coming)
Coming(f, l) == IF f \in l.todo THEN <<l.ev>> ELSE <<>>
StartOf(s, t) == Len(s) <= Len(t) /\ s = SubSeq(t, 1, Len(s))

\* The control of a filter: where its subscription, its goroutine and its entry
\* in api.filters can be at the same time.
FilterControl(f, g, l, a) ==
    /\ g.sub = "none" => g.run = "none" /\ g.list = <<>> /\ g.polled = <<>> /\ g.due = <<>>
    /\ f \in l.index <=> g.sub \in {"installed", "uninstalling"}
    /\ f \in l.index => Indices(FilterCrit[f]) # {}
    /\ f \in l.todo => f \in l.index
    /\ f \in a.filters => f \notin Pushed /\ g.sub # "none" /\ g.run \in {"recv", "append"}
    /\ f \in a.filters /\ g.sub # "installed" => f \in a.scan /\ g.expired
    /\ f \in a.scan => f \in a.filters
    /\ g.run # "append" => g.hand = <<>>
    /\ g.run = "new" => g.sub = "installed" /\ f \notin Pushed
    /\ f \notin Pushed /\ g.run \in {"recv", "append"} /\ g.sub = "installed" => f \in a.filters
    /\ f \in Pushed => g.list = <<>> /\ g.run # "append" /\ (g.run = "recv" => g.sub = "installed")

FilterData(f, g, l) ==
    /\ g.sub = "installed" => Passed(g.polled, g.list, g.hand, Coming(f, l)) = g.due
    /\ StartOf(g.polled, g.due)

FilterGood(f, g, l, a) == FilterControl(f, g, l, a) /\ FilterData(f, g, l)

FilterInv ==
    /\ evLoop \in LoopStates /\ filterApi \in ApiStates /\ filterOf \in [LogFilters -> FilterStates]
    /\ posted \in Nat
    /\ evLoop.at = "select" => evLoop.todo = {}
    /\ Free => filterApi.scan = {}
    /\ \A f \in LogFilters : FilterGood(f, filterOf[f], evLoop, filterApi)

-----------------------------------------------------------------------------
(* What moves from one part to the next.                                   *)

LEMMA NatConcatOnce ==
    ASSUME NEW s \in Seq(Nat), NEW t \in Seq(Nat)
    PROVE  /\ s \o t \in Seq(Nat) /\ Len(s) \in Nat /\ Len(t) \in Nat /\ Len(s \o t) = Len(s) + Len(t)
           /\ \A i \in 1 .. Len(s) + Len(t) : (s \o t)[i] = IF i <= Len(s) THEN s[i] ELSE t[i - Len(s)]
  BY ConcatProperties, LenProperties

LEMMA NatConcatTwice ==
    ASSUME NEW s \in Seq(Nat), NEW t \in Seq(Nat), NEW u \in Seq(Nat),
           NEW a \in Seq(Nat), NEW b \in Seq(Nat), a = s \o t, b = t \o u
    PROVE  a \o u = s \o b
<1>2. Len(a) = Len(s) + Len(t) /\ Len(s) \in Nat /\ Len(t) \in Nat
      /\ \A i \in 1 .. Len(s) + Len(t) : a[i] = IF i <= Len(s) THEN s[i] ELSE t[i - Len(s)]
  BY NatConcatOnce
<1>3. Len(b) = Len(t) + Len(u) /\ Len(u) \in Nat
      /\ \A i \in 1 .. Len(t) + Len(u) : b[i] = IF i <= Len(t) THEN t[i] ELSE u[i - Len(t)]
  BY NatConcatOnce
<1>4. a \o u \in Seq(Nat) /\ Len(a \o u) = Len(a) + Len(u)
      /\ \A i \in 1 .. Len(a) + Len(u) : (a \o u)[i] = IF i <= Len(a) THEN a[i] ELSE u[i - Len(a)]
  BY NatConcatOnce, Zenon
<1>5. s \o b \in Seq(Nat) /\ Len(s \o b) = Len(s) + Len(b)
      /\ \A i \in 1 .. Len(s) + Len(b) : (s \o b)[i] = IF i <= Len(s) THEN s[i] ELSE b[i - Len(s)]
  BY NatConcatOnce, Zenon
<1> DEFINE x == a \o u
           y == s \o b
<1> HIDE DEF x, y
<1>6. x \in Seq(Nat) /\ y \in Seq(Nat) /\ Len(x) = Len(y)
  BY <1>2, <1>3, <1>4, <1>5 DEF x, y
<1>7. ASSUME NEW i \in 1 .. Len(x) PROVE x[i] = y[i]
  <2>1. x[i] = (IF i <= Len(a) THEN a[i] ELSE u[i - Len(a)]) /\ Len(x) = Len(a) + Len(u)
    BY <1>4 DEF x
  <2>2. y[i] = (IF i <= Len(s) THEN s[i] ELSE b[i - Len(s)])
    BY <1>2, <1>3, <1>5, <2>1 DEF y
  <2> QED
    BY <1>2, <1>3, <2>1, <2>2
<1>8. x = y
  BY <1>6, <1>7, SeqEqual, SMTT(60)
<1> QED
  BY <1>8 DEF x, y

LEMMA NatConcat ==
    ASSUME NEW s \in Seq(Nat), NEW t \in Seq(Nat)
    PROVE  Join(s, t) \in Seq(Nat) /\ \A u \in Seq(Nat) : Join(Join(s, t), u) = Join(s, Join(t, u))
<1>1. Join(s, t) \in Seq(Nat)
  BY NatConcatOnce DEF Join
<1>2. ASSUME NEW u \in Seq(Nat) PROVE Join(Join(s, t), u) = Join(s, Join(t, u))
  <2>1. Join(t, u) \in Seq(Nat)
    BY NatConcatOnce DEF Join
  <2>2. PICK a \in Seq(Nat) : a = Join(s, t)
    BY <1>1, Zenon
  <2>3. PICK b \in Seq(Nat) : b = Join(t, u)
    BY <2>1, Zenon
  <2>4. a = s \o t /\ b = t \o u
    BY <2>2, <2>3, Zenon DEF Join
  <2>5. a \o u = s \o b
    BY <2>4, NatConcatTwice, SMTT(60)
  <2>6. Join(a, u) = Join(s, b)
    BY <2>5, Zenon DEF Join
  <2> QED
    BY <2>2, <2>3, <2>6, Zenon
<1> QED
  BY <1>1, <1>2

LEMMA JoinEmpty == \A s \in Seq(Nat) : Join(s, <<>>) = s /\ Join(<<>>, s) = s
  BY ConcatEmptySeq DEF Join

LEMMA PassedAppend ==
    ASSUME NEW p \in Seq(Nat), NEW l \in Seq(Nat), NEW h \in Seq(Nat), NEW c \in Seq(Nat)
    PROVE  Passed(p, l, h, c) = Join(Passed(p, l, h, <<>>), c)
<1>1. Join(Join(p, l), h) \in Seq(Nat)
  BY NatConcat, Zenon
<1> QED
  BY <1>1, JoinEmpty, Zenon DEF Passed

LEMMA PassedSend ==
    ASSUME NEW p \in Seq(Nat), NEW l \in Seq(Nat), NEW n \in Nat
    PROVE  Passed(p, l, <<n>>, <<>>) = Passed(p, l, <<>>, <<n>>)
<1>1. <<n>> \in Seq(Nat)
  OBVIOUS
<1>2. Join(p, l) \in Seq(Nat) /\ Join(Join(p, l), <<n>>) \in Seq(Nat)
  BY <1>1, NatConcat, Zenon
<1> QED
  BY <1>2, JoinEmpty, Zenon DEF Passed

LEMMA PassedPush ==
    ASSUME NEW p \in Seq(Nat), NEW n \in Nat
    PROVE  Passed(Append(p, n), <<>>, <<>>, <<>>) = Passed(p, <<>>, <<>>, <<n>>)
<1>1. Append(p, n) \in Seq(Nat) /\ Append(p, n) = Join(p, <<n>>)
  BY AppendIsConcat DEF Join
<1> QED
  BY <1>1, JoinEmpty, Zenon DEF Passed

LEMMA PassedCollect ==
    ASSUME NEW p \in Seq(Nat), NEW l \in Seq(Nat), NEW h \in Seq(Nat), NEW c \in Seq(Nat)
    PROVE  Passed(p, Join(l, h), <<>>, c) = Passed(p, l, h, c)
<1>1. Join(l, h) \in Seq(Nat) /\ Join(p, Join(l, h)) = Join(Join(p, l), h)
  BY NatConcat, SMT
<1>2. Join(p, Join(l, h)) \in Seq(Nat)
  BY <1>1, NatConcat, Zenon
<1> QED
  BY <1>1, <1>2, JoinEmpty, Zenon DEF Passed

LEMMA PassedPoll ==
    ASSUME NEW p \in Seq(Nat), NEW l \in Seq(Nat), NEW h \in Seq(Nat), NEW c \in Seq(Nat)
    PROVE  Passed(Join(p, l), <<>>, h, c) = Passed(p, l, h, c)
<1>1. Join(p, l) \in Seq(Nat)
  BY NatConcat, Zenon
<1> QED
  BY <1>1, JoinEmpty, Zenon DEF Passed

\* What is first of the parts is a start of them.
LEMMA StartOfConcat ==
    ASSUME NEW s \in Seq(Nat), NEW t \in Seq(Nat)
    PROVE  StartOf(s, Join(s, t))
<1>1. s \o t \in Seq(Nat) /\ Len(s \o t) = Len(s) + Len(t) /\ Len(s) \in Nat /\ Len(t) \in Nat
      /\ \A i \in 1 .. Len(s) + Len(t) : (s \o t)[i] = IF i <= Len(s) THEN s[i] ELSE t[i - Len(s)]
  BY NatConcatOnce
<1>2. \A i \in 1 .. Len(s) : (s \o t)[i] \in Nat /\ (s \o t)[i] = s[i]
  BY <1>1, LenProperties
<1>3. /\ SubSeq(s \o t, 1, Len(s)) \in Seq(Nat)
      /\ Len(SubSeq(s \o t, 1, Len(s))) = Len(s)
      /\ \A i \in 1 .. Len(s) : SubSeq(s \o t, 1, Len(s))[i] = (s \o t)[i]
  BY <1>1, <1>2, SubSeqProperties
<1>4. s = SubSeq(s \o t, 1, Len(s))
  BY <1>2, <1>3, SeqEqual
<1> QED
  BY <1>1, <1>4 DEF StartOf, Join

LEMMA StartOfPassed ==
    ASSUME NEW p \in Seq(Nat), NEW l \in Seq(Nat), NEW h \in Seq(Nat), NEW c \in Seq(Nat)
    PROVE  StartOf(p, Passed(p, l, h, c)) /\ StartOf(Join(p, l), Passed(p, l, h, c))
<1>1. Join(p, l) \in Seq(Nat) /\ Join(h, c) \in Seq(Nat)
  BY NatConcat, Zenon
<1>2. Join(l, Join(h, c)) \in Seq(Nat)
  BY <1>1, NatConcat, Zenon
<1>3. Passed(p, l, h, c) = Join(Join(p, l), Join(h, c))
  BY <1>1, NatConcat, SMT DEF Passed
<1>4. Passed(p, l, h, c) = Join(p, Join(l, Join(h, c)))
  BY <1>1, <1>3, NatConcat, SMT
<1> QED
  BY <1>1, <1>2, <1>3, <1>4, StartOfConcat, Zenon

LEMMA StartOfAppend ==
    ASSUME NEW s \in Seq(Nat), NEW t \in Seq(Nat), NEW n \in Nat, StartOf(s, t)
    PROVE  StartOf(s, Append(t, n))
<1>1. Append(t, n) \in Seq(Nat) /\ Len(Append(t, n)) = Len(t) + 1 /\ Len(s) \in Nat /\ Len(t) \in Nat /\ Len(s) <= Len(t)
      /\ \A i \in 1 .. Len(s) : Append(t, n)[i] = t[i] /\ t[i] \in Nat
  BY AppendProperties, LenProperties DEF StartOf
<1>2. /\ Len(SubSeq(Append(t, n), 1, Len(s))) = Len(s) /\ SubSeq(Append(t, n), 1, Len(s)) \in Seq(Nat)
      /\ \A i \in 1 .. Len(s) : SubSeq(Append(t, n), 1, Len(s))[i] = t[i]
  BY <1>1, SubSeqProperties
<1>3. \A i \in 1 .. Len(s) : SubSeq(t, 1, Len(s))[i] = t[i]
  BY <1>1, SubSeqProperties
<1>4. s = SubSeq(Append(t, n), 1, Len(s))
  BY <1>1, <1>2, <1>3, SeqEqual DEF StartOf
<1> QED
  BY <1>1, <1>4 DEF StartOf

-----------------------------------------------------------------------------
(* The steps.                                                              *)

\* A step about one filter leaves what is true of the others.
LEMMA GoodFrame ==
    ASSUME NEW h, NEW g, NEW l, NEW m, NEW a, NEW b, FilterGood(h, g, l, a), m.ev = l.ev,
           h \in m.index <=> h \in l.index, h \in m.todo <=> h \in l.todo,
           h \in b.filters <=> h \in a.filters, h \in b.scan <=> h \in a.scan
    PROVE  FilterGood(h, g, m, b)
  BY SMTT(60) DEF FilterGood, FilterControl, FilterData, Coming

StepTo(f, r, m, b) ==
    /\ m.at = "select" => m.todo = {}
    /\ b.mu = "free" => b.scan = {}
    /\ m.ev = evLoop.ev
    /\ \A h \in LogFilters \ {f} : /\ h \in m.index <=> h \in evLoop.index
                                   /\ h \in m.todo <=> h \in evLoop.todo
                                   /\ h \in b.filters <=> h \in filterApi.filters
                                   /\ h \in b.scan <=> h \in filterApi.scan
    /\ FilterGood(f, r, m, b)
    /\ filterOf' = [filterOf EXCEPT ![f] = r] /\ evLoop' = m /\ filterApi' = b /\ UNCHANGED posted

LEMMA OneFilter ==
    ASSUME FilterInv, NEW f \in LogFilters, NEW r \in FilterStates, NEW m \in LoopStates, NEW b \in ApiStates,
           StepTo(f, r, m, b)
    PROVE  FilterInv'
<1>1. filterOf' \in [LogFilters -> FilterStates]
  BY DEF FilterInv, StepTo
<1>2. ASSUME NEW h \in LogFilters PROVE FilterGood(h, filterOf'[h], m, b)
  <2>1. CASE h = f
    <3>1. filterOf'[h] = r
      BY <2>1 DEF FilterInv, StepTo
    <3> QED
      BY <2>1, <3>1, Zenon DEF StepTo
  <2>2. CASE h # f
    <3>1. filterOf'[h] = filterOf[h]
      BY <2>2 DEF FilterInv, StepTo
    <3>2. FilterGood(h, filterOf[h], evLoop, filterApi)
      BY DEF FilterInv
    <3>3. /\ h \in m.index <=> h \in evLoop.index
          /\ h \in m.todo <=> h \in evLoop.todo
          /\ h \in b.filters <=> h \in filterApi.filters
          /\ h \in b.scan <=> h \in filterApi.scan
      <4>1. h \in LogFilters \ {f}
        BY <2>2
      <4> QED
        BY <4>1, Zenon DEF StepTo
    <3>4. FilterGood(h, filterOf[h], m, b)
      BY <3>2, <3>3, GoodFrame, Zenon DEF StepTo
    <3> QED
      BY <3>1, <3>4, Zenon
  <2> QED
    BY <2>1, <2>2
<1> QED
  BY <1>1, <1>2 DEF FilterInv, Free, StepTo

\* What an event is sent to is what its clients want.
LEMMA WantsReceives ==
    ASSUME NEW f \in LogFilters, NEW kind, Indices(FilterCrit[f]) # {}
    PROVE  Wants(f, kind) <=> Receivers(kind) \in Indices(FilterCrit[f])
<1>1. CASE FilterCrit[f].on \in {"blocks", "txs"}
  BY <1>1 DEF Wants, Receivers, Indices
<1>2. CASE FilterCrit[f].on = "logs" /\ FilterCrit[f].from \in Int /\ FilterCrit[f].to \in Int
  BY <1>2 DEF Wants, Receivers, Indices, Latest, PendingNumber
<1> QED
  BY <1>1, <1>2, FilterAssumption

LEMMA FilterInitially == FilterInit => FilterInv
<1> SUFFICES ASSUME FilterInit PROVE FilterInv
  OBVIOUS
<1>1. <<>> \in Seq(Nat)
  OBVIOUS
<1> DEFINE g == [sub |-> "none", run |-> "none", hand |-> <<>>, list |-> <<>>, polled |-> <<>>,
                 due |-> <<>>, expired |-> FALSE]
<1>2. g \in FilterStates /\ g.sub = "none" /\ g.run = "none" /\ g.hand = <<>> /\ g.list = <<>> /\ g.polled = <<>>
      /\ g.due = <<>>
  BY <1>1 DEF FilterStates
<1>3. /\ evLoop \in LoopStates /\ filterApi \in ApiStates /\ posted \in Nat
      /\ evLoop.at = "select" /\ evLoop.todo = {} /\ evLoop.index = {} /\ filterApi.scan = {} /\ filterApi.filters = {}
  BY DEF FilterInit, LoopStates, ApiStates
<1>4. filterOf = [f \in LogFilters |-> g]
  BY Zenon DEF FilterInit
<1> HIDE DEF g
<1>5. filterOf \in [LogFilters -> FilterStates] /\ \A f \in LogFilters : filterOf[f] = g
  BY <1>2, <1>4
<1>6. StartOf(<<>>, <<>>)
  BY SubSeqEmpty, EmptySeq DEF StartOf
<1>7. ASSUME NEW f \in LogFilters PROVE FilterGood(f, g, evLoop, filterApi)
  <2>1. FilterControl(f, g, evLoop, filterApi)
    BY <1>2, <1>3 DEF FilterControl
  <2>2. FilterData(f, g, evLoop)
    BY <1>2, <1>6 DEF FilterData
  <2> QED
    BY <2>1, <2>2 DEF FilterGood
<1> QED
  BY <1>3, <1>5, <1>7 DEF FilterInv

\* subscribe: a filter begins with nothing posted for it.
LEMMA InvSubscribe == ASSUME FilterInv, NEW f \in LogFilters, Subscribe(f) PROVE FilterInv'
<1> DEFINE g == filterOf[f]
           r == [g EXCEPT !.sub = "installed", !.run = (IF f \in Pushed THEN "recv" ELSE "new")]
           m == [evLoop EXCEPT !.index = evLoop.index \cup {f}]
           b == filterApi
<1>1. /\ g \in FilterStates /\ evLoop \in LoopStates /\ filterApi \in ApiStates
      /\ FilterControl(f, g, evLoop, filterApi) /\ FilterData(f, g, evLoop)
      /\ evLoop.at = "select" => evLoop.todo = {}
      /\ filterApi.mu = "free" => filterApi.scan = {}
  BY DEF FilterInv, FilterGood, Free
<1>2. filterOf' = [filterOf EXCEPT ![f] = r] /\ evLoop' = m /\ filterApi' = b /\ UNCHANGED posted
  BY SMTT(30) DEF Subscribe, FilterInv
<1>3. /\ r \in FilterStates
      /\ r.sub = "installed"
      /\ r.run = (IF f \in Pushed THEN "recv" ELSE "new")
      /\ r.hand = g.hand
      /\ r.list = g.list
      /\ r.polled = g.polled
      /\ r.due = g.due
      /\ r.expired = g.expired
  BY <1>1, Zenon DEF FilterStates
<1>4. /\ m \in LoopStates
      /\ m.at = evLoop.at
      /\ m.index = evLoop.index \cup {f}
      /\ m.todo = evLoop.todo
      /\ m.ev = evLoop.ev
  BY <1>1 DEF LoopStates
<1>5. /\ b \in ApiStates
      /\ b.filters = filterApi.filters
      /\ b.mu = filterApi.mu
      /\ b.scan = filterApi.scan
  BY <1>1 DEF ApiStates
<1> HIDE DEF g, r, m, b
<1>6. FilterControl(f, r, m, b)
  BY <1>1, <1>3, <1>4, <1>5, SMTT(30) DEF FilterControl, Subscribe, Free, g
<1>7. FilterData(f, r, m)
  <2>1. g.hand = <<>> /\ g.list = <<>> /\ g.polled = <<>> /\ g.due = <<>> /\ f \notin m.todo
    BY <1>1, <1>4 DEF FilterControl, Subscribe, g
  <2>2. Join(<<>>, <<>>) = <<>>
    BY JoinEmpty, EmptySeq, Zenon
  <2>3. Passed(<<>>, <<>>, <<>>, <<>>) = <<>>
    BY <2>2, Zenon DEF Passed
  <2> QED
    BY <1>1, <1>3, <2>1, <2>3 DEF FilterData, Coming
<1>8. /\ m.at = "select" => m.todo = {}
      /\ b.mu = "free" => b.scan = {}
      /\ m.ev = evLoop.ev
  BY <1>1, <1>4, <1>5 DEF Subscribe, Free
<1>9. \A h \in LogFilters \ {f} : /\ h \in m.index <=> h \in evLoop.index
                                  /\ h \in m.todo <=> h \in evLoop.todo
                                  /\ h \in b.filters <=> h \in filterApi.filters
                                  /\ h \in b.scan <=> h \in filterApi.scan
  BY <1>4, <1>5
<1>10. FilterGood(f, r, m, b)
  BY <1>6, <1>7 DEF FilterGood
<1>11. StepTo(f, r, m, b)
  BY <1>2, <1>8, <1>9, <1>10, Zenon DEF StepTo
<1> QED
  BY <1>3, <1>4, <1>5, <1>11, OneFilter, Zenon

\* uninstall: no event is being sent, and none will be sent to the filter.
LEMMA InvUninstall == ASSUME FilterInv, NEW f \in LogFilters, Uninstall(f) PROVE FilterInv'
<1> DEFINE g == filterOf[f]
           r == [g EXCEPT !.sub = "gone", !.run = (IF f \in Pushed THEN "done" ELSE g.run)]
           m == [evLoop EXCEPT !.index = evLoop.index \ {f}]
           b == filterApi
<1>1. /\ g \in FilterStates /\ evLoop \in LoopStates /\ filterApi \in ApiStates
      /\ FilterControl(f, g, evLoop, filterApi) /\ FilterData(f, g, evLoop)
      /\ evLoop.at = "select" => evLoop.todo = {}
      /\ filterApi.mu = "free" => filterApi.scan = {}
  BY DEF FilterInv, FilterGood, Free
<1>2. filterOf' = [filterOf EXCEPT ![f] = r] /\ evLoop' = m /\ filterApi' = b /\ UNCHANGED posted
  BY SMTT(30) DEF Uninstall, FilterInv
<1>3. /\ r \in FilterStates
      /\ r.sub = "gone"
      /\ r.run = (IF f \in Pushed THEN "done" ELSE g.run)
      /\ r.hand = g.hand
      /\ r.list = g.list
      /\ r.polled = g.polled
      /\ r.due = g.due
      /\ r.expired = g.expired
  BY <1>1, Zenon DEF FilterStates
<1>4. /\ m \in LoopStates
      /\ m.at = evLoop.at
      /\ m.index = evLoop.index \ {f}
      /\ m.todo = evLoop.todo
      /\ m.ev = evLoop.ev
  BY <1>1 DEF LoopStates
<1>5. /\ b \in ApiStates
      /\ b.filters = filterApi.filters
      /\ b.mu = filterApi.mu
      /\ b.scan = filterApi.scan
  BY <1>1 DEF ApiStates
<1> HIDE DEF g, r, m, b
<1>6. FilterControl(f, r, m, b)
  BY <1>1, <1>3, <1>4, <1>5, SMTT(30) DEF FilterControl, Uninstall, Free, g
<1>7. FilterData(f, r, m)
  BY <1>1, <1>3, <1>4, SMTT(30) DEF FilterData, Coming
<1>8. /\ m.at = "select" => m.todo = {}
      /\ b.mu = "free" => b.scan = {}
      /\ m.ev = evLoop.ev
  BY <1>1, <1>4, <1>5 DEF Uninstall, Free
<1>9. \A h \in LogFilters \ {f} : /\ h \in m.index <=> h \in evLoop.index
                                  /\ h \in m.todo <=> h \in evLoop.todo
                                  /\ h \in b.filters <=> h \in filterApi.filters
                                  /\ h \in b.scan <=> h \in filterApi.scan
  BY <1>4, <1>5
<1>10. FilterGood(f, r, m, b)
  BY <1>6, <1>7 DEF FilterGood
<1>11. StepTo(f, r, m, b)
  BY <1>2, <1>8, <1>9, <1>10, Zenon DEF StepTo
<1> QED
  BY <1>3, <1>4, <1>5, <1>11, OneFilter, Zenon

\* NewFilter: the filter is entered, and its goroutine receives.
LEMMA InvNewFilter == ASSUME FilterInv, NEW f \in LogFilters, NewFilter(f) PROVE FilterInv'
<1> DEFINE g == filterOf[f]
           r == [g EXCEPT !.run = "recv"]
           m == evLoop
           b == [filterApi EXCEPT !.filters = filterApi.filters \cup {f}]
<1>1. /\ g \in FilterStates /\ evLoop \in LoopStates /\ filterApi \in ApiStates
      /\ FilterControl(f, g, evLoop, filterApi) /\ FilterData(f, g, evLoop)
      /\ evLoop.at = "select" => evLoop.todo = {}
      /\ filterApi.mu = "free" => filterApi.scan = {}
  BY DEF FilterInv, FilterGood, Free
<1>2. filterOf' = [filterOf EXCEPT ![f] = r] /\ evLoop' = m /\ filterApi' = b /\ UNCHANGED posted
  BY SMTT(30) DEF NewFilter, FilterInv
<1>3. /\ r \in FilterStates
      /\ r.sub = g.sub
      /\ r.run = "recv"
      /\ r.hand = g.hand
      /\ r.list = g.list
      /\ r.polled = g.polled
      /\ r.due = g.due
      /\ r.expired = g.expired
  BY <1>1, Zenon DEF FilterStates
<1>4. /\ m \in LoopStates
      /\ m.at = evLoop.at
      /\ m.index = evLoop.index
      /\ m.todo = evLoop.todo
      /\ m.ev = evLoop.ev
  BY <1>1 DEF LoopStates
<1>5. /\ b \in ApiStates
      /\ b.filters = filterApi.filters \cup {f}
      /\ b.mu = filterApi.mu
      /\ b.scan = filterApi.scan
  BY <1>1 DEF ApiStates
<1> HIDE DEF g, r, m, b
<1>6. FilterControl(f, r, m, b)
  BY <1>1, <1>3, <1>4, <1>5, SMTT(30) DEF FilterControl, NewFilter, Free, g
<1>7. FilterData(f, r, m)
  BY <1>1, <1>3, <1>4, SMTT(30) DEF FilterData, Coming
<1>8. /\ m.at = "select" => m.todo = {}
      /\ b.mu = "free" => b.scan = {}
      /\ m.ev = evLoop.ev
  BY <1>1, <1>4, <1>5 DEF NewFilter, Free
<1>9. \A h \in LogFilters \ {f} : /\ h \in m.index <=> h \in evLoop.index
                                  /\ h \in m.todo <=> h \in evLoop.todo
                                  /\ h \in b.filters <=> h \in filterApi.filters
                                  /\ h \in b.scan <=> h \in filterApi.scan
  BY <1>4, <1>5
<1>10. FilterGood(f, r, m, b)
  BY <1>6, <1>7 DEF FilterGood
<1>11. StepTo(f, r, m, b)
  BY <1>2, <1>8, <1>9, <1>10, Zenon DEF StepTo
<1> QED
  BY <1>3, <1>4, <1>5, <1>11, OneFilter, Zenon

\* The goroutine of a filter puts away what it holds.
LEMMA InvCollect == ASSUME FilterInv, NEW f \in LogFilters, Collect(f) PROVE FilterInv'
<1> DEFINE g == filterOf[f]
           j == Join(g.list, g.hand)
           r == [g EXCEPT !.run = "recv", !.hand = <<>>, !.list = (IF f \in filterApi.filters THEN j ELSE g.list)]
           m == evLoop
           b == filterApi
<1>1. /\ g \in FilterStates /\ evLoop \in LoopStates /\ filterApi \in ApiStates
      /\ FilterControl(f, g, evLoop, filterApi) /\ FilterData(f, g, evLoop)
      /\ evLoop.at = "select" => evLoop.todo = {}
      /\ filterApi.mu = "free" => filterApi.scan = {}
  BY DEF FilterInv, FilterGood, Free
<1>2. filterOf' = [filterOf EXCEPT ![f] = r] /\ evLoop' = m /\ filterApi' = b /\ UNCHANGED posted
  BY SMTT(30) DEF Collect, FilterInv, Join
<1>p. j \in Seq(Nat) /\ <<>> \in Seq(Nat)
  BY <1>1, NatConcat, EmptySeq DEF FilterStates
<1> HIDE DEF j
<1>3. /\ r \in FilterStates
      /\ r.sub = g.sub
      /\ r.run = "recv"
      /\ r.hand = <<>>
      /\ r.list = (IF f \in filterApi.filters THEN j ELSE g.list)
      /\ r.polled = g.polled
      /\ r.due = g.due
      /\ r.expired = g.expired
  BY <1>1, <1>p, Zenon DEF FilterStates
<1>4. /\ m \in LoopStates
      /\ m.at = evLoop.at
      /\ m.index = evLoop.index
      /\ m.todo = evLoop.todo
      /\ m.ev = evLoop.ev
  BY <1>1 DEF LoopStates
<1>5. /\ b \in ApiStates
      /\ b.filters = filterApi.filters
      /\ b.mu = filterApi.mu
      /\ b.scan = filterApi.scan
  BY <1>1 DEF ApiStates
<1> HIDE DEF g, r, m, b
<1>6. FilterControl(f, r, m, b)
  BY <1>1, <1>3, <1>4, <1>5, <1>p, SMTT(30) DEF FilterControl, Collect, Free, g
<1>7. FilterData(f, r, m)
  <2>1. ASSUME g.sub = "installed" PROVE r.list = Join(g.list, g.hand)
    BY <1>1, <1>3, <2>1 DEF FilterControl, Collect, g, j
  <2>2. \A c \in Seq(Nat) : Passed(g.polled, Join(g.list, g.hand), <<>>, c) = Passed(g.polled, g.list, g.hand, c)
    BY <1>1, PassedCollect DEF FilterStates
  <2>3. Coming(f, m) \in Seq(Nat) /\ Coming(f, m) = Coming(f, evLoop)
    BY <1>1, <1>4 DEF Coming, LoopStates
  <2> QED
    BY <1>1, <1>3, <2>1, <2>2, <2>3 DEF FilterData
<1>8. /\ m.at = "select" => m.todo = {}
      /\ b.mu = "free" => b.scan = {}
      /\ m.ev = evLoop.ev
  BY <1>1, <1>4, <1>5 DEF Collect, Free
<1>9. \A h \in LogFilters \ {f} : /\ h \in m.index <=> h \in evLoop.index
                                  /\ h \in m.todo <=> h \in evLoop.todo
                                  /\ h \in b.filters <=> h \in filterApi.filters
                                  /\ h \in b.scan <=> h \in filterApi.scan
  BY <1>4, <1>5
<1>10. FilterGood(f, r, m, b)
  BY <1>6, <1>7 DEF FilterGood
<1>11. StepTo(f, r, m, b)
  BY <1>2, <1>8, <1>9, <1>10, Zenon DEF StepTo
<1> QED
  BY <1>3, <1>4, <1>5, <1>11, OneFilter, Zenon

\* The goroutine of a filter that was uninstalled ends.
LEMMA InvFilterEnds == ASSUME FilterInv, NEW f \in LogFilters, FilterEnds(f) PROVE FilterInv'
<1> DEFINE g == filterOf[f]
           r == [g EXCEPT !.run = "done"]
           m == evLoop
           b == [filterApi EXCEPT !.filters = filterApi.filters \ {f}]
<1>1. /\ g \in FilterStates /\ evLoop \in LoopStates /\ filterApi \in ApiStates
      /\ FilterControl(f, g, evLoop, filterApi) /\ FilterData(f, g, evLoop)
      /\ evLoop.at = "select" => evLoop.todo = {}
      /\ filterApi.mu = "free" => filterApi.scan = {}
  BY DEF FilterInv, FilterGood, Free
<1>2. filterOf' = [filterOf EXCEPT ![f] = r] /\ evLoop' = m /\ filterApi' = b /\ UNCHANGED posted
  BY SMTT(30) DEF FilterEnds, FilterInv
<1>3. /\ r \in FilterStates
      /\ r.sub = g.sub
      /\ r.run = "done"
      /\ r.hand = g.hand
      /\ r.list = g.list
      /\ r.polled = g.polled
      /\ r.due = g.due
      /\ r.expired = g.expired
  BY <1>1, Zenon DEF FilterStates
<1>4. /\ m \in LoopStates
      /\ m.at = evLoop.at
      /\ m.index = evLoop.index
      /\ m.todo = evLoop.todo
      /\ m.ev = evLoop.ev
  BY <1>1 DEF LoopStates
<1>5. /\ b \in ApiStates
      /\ b.filters = filterApi.filters \ {f}
      /\ b.mu = filterApi.mu
      /\ b.scan = filterApi.scan
  BY <1>1 DEF ApiStates
<1> HIDE DEF g, r, m, b
<1>6. FilterControl(f, r, m, b)
  BY <1>1, <1>3, <1>4, <1>5, SMTT(30) DEF FilterControl, FilterEnds, Free, g
<1>7. FilterData(f, r, m)
  BY <1>1, <1>3, <1>4, SMTT(30) DEF FilterData, Coming
<1>8. /\ m.at = "select" => m.todo = {}
      /\ b.mu = "free" => b.scan = {}
      /\ m.ev = evLoop.ev
  BY <1>1, <1>4, <1>5 DEF FilterEnds, Free
<1>9. \A h \in LogFilters \ {f} : /\ h \in m.index <=> h \in evLoop.index
                                  /\ h \in m.todo <=> h \in evLoop.todo
                                  /\ h \in b.filters <=> h \in filterApi.filters
                                  /\ h \in b.scan <=> h \in filterApi.scan
  BY <1>4, <1>5
<1>10. FilterGood(f, r, m, b)
  BY <1>6, <1>7 DEF FilterGood
<1>11. StepTo(f, r, m, b)
  BY <1>2, <1>8, <1>9, <1>10, Zenon DEF StepTo
<1> QED
  BY <1>3, <1>4, <1>5, <1>11, OneFilter, Zenon

\* GetFilterChanges: what was collected is handed over.
LEMMA InvGetFilterChanges == ASSUME FilterInv, NEW f \in LogFilters, GetFilterChanges(f) PROVE FilterInv'
<1> DEFINE g == filterOf[f]
           j == Join(g.polled, g.list)
           r == [g EXCEPT !.polled = j, !.list = <<>>, !.expired = FALSE]
           m == evLoop
           b == filterApi
<1>1. /\ g \in FilterStates /\ evLoop \in LoopStates /\ filterApi \in ApiStates
      /\ FilterControl(f, g, evLoop, filterApi) /\ FilterData(f, g, evLoop)
      /\ evLoop.at = "select" => evLoop.todo = {}
      /\ filterApi.mu = "free" => filterApi.scan = {}
  BY DEF FilterInv, FilterGood, Free
<1>2. filterOf' = [filterOf EXCEPT ![f] = r] /\ evLoop' = m /\ filterApi' = b /\ UNCHANGED posted
  BY SMTT(30) DEF GetFilterChanges, FilterInv, Join
<1>p. j \in Seq(Nat) /\ <<>> \in Seq(Nat)
  BY <1>1, NatConcat, EmptySeq DEF FilterStates
<1> HIDE DEF j
<1>3. /\ r \in FilterStates
      /\ r.sub = g.sub
      /\ r.run = g.run
      /\ r.hand = g.hand
      /\ r.list = <<>>
      /\ r.polled = j
      /\ r.due = g.due
      /\ r.expired = FALSE
  BY <1>1, <1>p, Zenon DEF FilterStates
<1>4. /\ m \in LoopStates
      /\ m.at = evLoop.at
      /\ m.index = evLoop.index
      /\ m.todo = evLoop.todo
      /\ m.ev = evLoop.ev
  BY <1>1 DEF LoopStates
<1>5. /\ b \in ApiStates
      /\ b.filters = filterApi.filters
      /\ b.mu = filterApi.mu
      /\ b.scan = filterApi.scan
  BY <1>1 DEF ApiStates
<1> HIDE DEF g, r, m, b
<1>6. FilterControl(f, r, m, b)
  BY <1>1, <1>3, <1>4, <1>5, <1>p, SMTT(30) DEF FilterControl, GetFilterChanges, Free, g
<1>7. FilterData(f, r, m)
  <2>1. g.sub = "installed"
    BY <1>1 DEF FilterControl, GetFilterChanges, Free, g
  <2>2. Coming(f, m) \in Seq(Nat) /\ Coming(f, m) = Coming(f, evLoop)
    BY <1>1, <1>4 DEF Coming, LoopStates
  <2>3. g.polled \in Seq(Nat) /\ g.list \in Seq(Nat) /\ g.hand \in Seq(Nat)
    BY <1>1 DEF FilterStates
  <2>4. Passed(Join(g.polled, g.list), <<>>, g.hand, Coming(f, m)) = g.due
    BY <1>1, <2>1, <2>2, <2>3, PassedPoll DEF FilterData
  <2>5. StartOf(Join(g.polled, g.list), g.due)
    BY <1>1, <2>1, <2>2, <2>3, StartOfPassed DEF FilterData
  <2> QED
    BY <1>3, <2>4, <2>5 DEF FilterData, j
<1>8. /\ m.at = "select" => m.todo = {}
      /\ b.mu = "free" => b.scan = {}
      /\ m.ev = evLoop.ev
  BY <1>1, <1>4, <1>5 DEF GetFilterChanges, Free
<1>9. \A h \in LogFilters \ {f} : /\ h \in m.index <=> h \in evLoop.index
                                  /\ h \in m.todo <=> h \in evLoop.todo
                                  /\ h \in b.filters <=> h \in filterApi.filters
                                  /\ h \in b.scan <=> h \in filterApi.scan
  BY <1>4, <1>5
<1>10. FilterGood(f, r, m, b)
  BY <1>6, <1>7 DEF FilterGood
<1>11. StepTo(f, r, m, b)
  BY <1>2, <1>8, <1>9, <1>10, Zenon DEF StepTo
<1> QED
  BY <1>3, <1>4, <1>5, <1>11, OneFilter, Zenon

\* UninstallFilter: the filter is taken out and unsubscribed.
LEMMA InvUninstallFilter == ASSUME FilterInv, NEW f \in LogFilters, UninstallFilter(f) PROVE FilterInv'
<1> DEFINE g == filterOf[f]
           r == [g EXCEPT !.sub = "uninstalling"]
           m == evLoop
           b == [filterApi EXCEPT !.filters = filterApi.filters \ {f}]
<1>1. /\ g \in FilterStates /\ evLoop \in LoopStates /\ filterApi \in ApiStates
      /\ FilterControl(f, g, evLoop, filterApi) /\ FilterData(f, g, evLoop)
      /\ evLoop.at = "select" => evLoop.todo = {}
      /\ filterApi.mu = "free" => filterApi.scan = {}
  BY DEF FilterInv, FilterGood, Free
<1>2. filterOf' = [filterOf EXCEPT ![f] = r] /\ evLoop' = m /\ filterApi' = b /\ UNCHANGED posted
  BY SMTT(30) DEF UninstallFilter, FilterInv
<1>3. /\ r \in FilterStates
      /\ r.sub = "uninstalling"
      /\ r.run = g.run
      /\ r.hand = g.hand
      /\ r.list = g.list
      /\ r.polled = g.polled
      /\ r.due = g.due
      /\ r.expired = g.expired
  BY <1>1, Zenon DEF FilterStates
<1>4. /\ m \in LoopStates
      /\ m.at = evLoop.at
      /\ m.index = evLoop.index
      /\ m.todo = evLoop.todo
      /\ m.ev = evLoop.ev
  BY <1>1 DEF LoopStates
<1>5. /\ b \in ApiStates
      /\ b.filters = filterApi.filters \ {f}
      /\ b.mu = filterApi.mu
      /\ b.scan = filterApi.scan
  BY <1>1 DEF ApiStates
<1> HIDE DEF g, r, m, b
<1>6. FilterControl(f, r, m, b)
  BY <1>1, <1>3, <1>4, <1>5, SMTT(30) DEF FilterControl, UninstallFilter, Free, g
<1>7. FilterData(f, r, m)
  BY <1>1, <1>3, <1>4, SMTT(30) DEF FilterData, Coming
<1>8. /\ m.at = "select" => m.todo = {}
      /\ b.mu = "free" => b.scan = {}
      /\ m.ev = evLoop.ev
  BY <1>1, <1>4, <1>5 DEF UninstallFilter, Free
<1>9. \A h \in LogFilters \ {f} : /\ h \in m.index <=> h \in evLoop.index
                                  /\ h \in m.todo <=> h \in evLoop.todo
                                  /\ h \in b.filters <=> h \in filterApi.filters
                                  /\ h \in b.scan <=> h \in filterApi.scan
  BY <1>4, <1>5
<1>10. FilterGood(f, r, m, b)
  BY <1>6, <1>7 DEF FilterGood
<1>11. StepTo(f, r, m, b)
  BY <1>2, <1>8, <1>9, <1>10, Zenon DEF StepTo
<1> QED
  BY <1>3, <1>4, <1>5, <1>11, OneFilter, Zenon

\* The end of an RPC subscription.
LEMMA InvStopPushing == ASSUME FilterInv, NEW f \in LogFilters, StopPushing(f) PROVE FilterInv'
<1> DEFINE g == filterOf[f]
           r == [g EXCEPT !.run = "unsubscribe", !.sub = "uninstalling"]
           m == evLoop
           b == filterApi
<1>1. /\ g \in FilterStates /\ evLoop \in LoopStates /\ filterApi \in ApiStates
      /\ FilterControl(f, g, evLoop, filterApi) /\ FilterData(f, g, evLoop)
      /\ evLoop.at = "select" => evLoop.todo = {}
      /\ filterApi.mu = "free" => filterApi.scan = {}
  BY DEF FilterInv, FilterGood, Free
<1>2. filterOf' = [filterOf EXCEPT ![f] = r] /\ evLoop' = m /\ filterApi' = b /\ UNCHANGED posted
  BY SMTT(30) DEF StopPushing, FilterInv
<1>3. /\ r \in FilterStates
      /\ r.sub = "uninstalling"
      /\ r.run = "unsubscribe"
      /\ r.hand = g.hand
      /\ r.list = g.list
      /\ r.polled = g.polled
      /\ r.due = g.due
      /\ r.expired = g.expired
  BY <1>1, Zenon DEF FilterStates
<1>4. /\ m \in LoopStates
      /\ m.at = evLoop.at
      /\ m.index = evLoop.index
      /\ m.todo = evLoop.todo
      /\ m.ev = evLoop.ev
  BY <1>1 DEF LoopStates
<1>5. /\ b \in ApiStates
      /\ b.filters = filterApi.filters
      /\ b.mu = filterApi.mu
      /\ b.scan = filterApi.scan
  BY <1>1 DEF ApiStates
<1> HIDE DEF g, r, m, b
<1>6. FilterControl(f, r, m, b)
  BY <1>1, <1>3, <1>4, <1>5, SMTT(30) DEF FilterControl, StopPushing, Free, g
<1>7. FilterData(f, r, m)
  BY <1>1, <1>3, <1>4, SMTT(30) DEF FilterData, Coming
<1>8. /\ m.at = "select" => m.todo = {}
      /\ b.mu = "free" => b.scan = {}
      /\ m.ev = evLoop.ev
  BY <1>1, <1>4, <1>5 DEF StopPushing, Free
<1>9. \A h \in LogFilters \ {f} : /\ h \in m.index <=> h \in evLoop.index
                                  /\ h \in m.todo <=> h \in evLoop.todo
                                  /\ h \in b.filters <=> h \in filterApi.filters
                                  /\ h \in b.scan <=> h \in filterApi.scan
  BY <1>4, <1>5
<1>10. FilterGood(f, r, m, b)
  BY <1>6, <1>7 DEF FilterGood
<1>11. StepTo(f, r, m, b)
  BY <1>2, <1>8, <1>9, <1>10, Zenon DEF StepTo
<1> QED
  BY <1>3, <1>4, <1>5, <1>11, OneFilter, Zenon

\* The deadline of a filter.
LEMMA InvExpire == ASSUME FilterInv, NEW f \in LogFilters, Expire(f) PROVE FilterInv'
<1> DEFINE g == filterOf[f]
           r == [g EXCEPT !.expired = TRUE]
           m == evLoop
           b == filterApi
<1>1. /\ g \in FilterStates /\ evLoop \in LoopStates /\ filterApi \in ApiStates
      /\ FilterControl(f, g, evLoop, filterApi) /\ FilterData(f, g, evLoop)
      /\ evLoop.at = "select" => evLoop.todo = {}
      /\ filterApi.mu = "free" => filterApi.scan = {}
  BY DEF FilterInv, FilterGood, Free
<1>2. filterOf' = [filterOf EXCEPT ![f] = r] /\ evLoop' = m /\ filterApi' = b /\ UNCHANGED posted
  BY SMTT(30) DEF Expire, FilterInv
<1>3. /\ r \in FilterStates
      /\ r.sub = g.sub
      /\ r.run = g.run
      /\ r.hand = g.hand
      /\ r.list = g.list
      /\ r.polled = g.polled
      /\ r.due = g.due
      /\ r.expired = TRUE
  BY <1>1, Zenon DEF FilterStates
<1>4. /\ m \in LoopStates
      /\ m.at = evLoop.at
      /\ m.index = evLoop.index
      /\ m.todo = evLoop.todo
      /\ m.ev = evLoop.ev
  BY <1>1 DEF LoopStates
<1>5. /\ b \in ApiStates
      /\ b.filters = filterApi.filters
      /\ b.mu = filterApi.mu
      /\ b.scan = filterApi.scan
  BY <1>1 DEF ApiStates
<1> HIDE DEF g, r, m, b
<1>6. FilterControl(f, r, m, b)
  BY <1>1, <1>3, <1>4, <1>5, SMTT(30) DEF FilterControl, Expire, Free, g
<1>7. FilterData(f, r, m)
  BY <1>1, <1>3, <1>4, SMTT(30) DEF FilterData, Coming
<1>8. /\ m.at = "select" => m.todo = {}
      /\ b.mu = "free" => b.scan = {}
      /\ m.ev = evLoop.ev
  BY <1>1, <1>4, <1>5 DEF Expire, Free
<1>9. \A h \in LogFilters \ {f} : /\ h \in m.index <=> h \in evLoop.index
                                  /\ h \in m.todo <=> h \in evLoop.todo
                                  /\ h \in b.filters <=> h \in filterApi.filters
                                  /\ h \in b.scan <=> h \in filterApi.scan
  BY <1>4, <1>5
<1>10. FilterGood(f, r, m, b)
  BY <1>6, <1>7 DEF FilterGood
<1>11. StepTo(f, r, m, b)
  BY <1>2, <1>8, <1>9, <1>10, Zenon DEF StepTo
<1> QED
  BY <1>3, <1>4, <1>5, <1>11, OneFilter, Zenon

\* The goroutine of a filter takes an event.
LEMMA InvTaken == ASSUME FilterInv, NEW f \in LogFilters, SendLogs(f), f \notin Pushed, filterOf[f].run = "recv",
            ~(filterOf' = filterOf /\ filterOf[f].sub = "uninstalling") PROVE FilterInv'
<1> DEFINE g == filterOf[f]
           r == [g EXCEPT !.run = "append", !.hand = <<evLoop.ev>>]
           m == [evLoop EXCEPT !.todo = evLoop.todo \ {f}, !.at = (IF evLoop.todo = {f} THEN "select" ELSE evLoop.at)]
           b == filterApi
<1>1. /\ g \in FilterStates /\ evLoop \in LoopStates /\ filterApi \in ApiStates
      /\ FilterControl(f, g, evLoop, filterApi) /\ FilterData(f, g, evLoop)
      /\ evLoop.at = "select" => evLoop.todo = {}
      /\ filterApi.mu = "free" => filterApi.scan = {}
  BY DEF FilterInv, FilterGood, Free
<1>2. filterOf' = [filterOf EXCEPT ![f] = r] /\ evLoop' = m /\ filterApi' = b /\ UNCHANGED posted
  BY SMTT(30) DEF SendLogs, FilterInv, SentTo
<1>p. <<evLoop.ev>> \in Seq(Nat)
  BY <1>1 DEF LoopStates
<1>3. /\ r \in FilterStates
      /\ r.sub = g.sub
      /\ r.run = "append"
      /\ r.hand = <<evLoop.ev>>
      /\ r.list = g.list
      /\ r.polled = g.polled
      /\ r.due = g.due
      /\ r.expired = g.expired
  BY <1>1, <1>p, Zenon DEF FilterStates
<1>4. /\ m \in LoopStates
      /\ m.at = (IF evLoop.todo = {f} THEN "select" ELSE evLoop.at)
      /\ m.index = evLoop.index
      /\ m.todo = evLoop.todo \ {f}
      /\ m.ev = evLoop.ev
  BY <1>1, Zenon DEF LoopStates
<1>5. /\ b \in ApiStates
      /\ b.filters = filterApi.filters
      /\ b.mu = filterApi.mu
      /\ b.scan = filterApi.scan
  BY <1>1 DEF ApiStates
<1> HIDE DEF g, r, m, b
<1>6. FilterControl(f, r, m, b)
  BY <1>1, <1>3, <1>4, <1>5, <1>p, SMTT(30) DEF FilterControl, SendLogs, Free, g
<1>7. FilterData(f, r, m)
  <2>1. g.hand = <<>> /\ Coming(f, evLoop) = <<evLoop.ev>> /\ Coming(f, m) = <<>>
    BY <1>1, <1>4 DEF FilterControl, SendLogs, Coming, g
  <2>2. Passed(g.polled, g.list, <<evLoop.ev>>, <<>>) = Passed(g.polled, g.list, <<>>, <<evLoop.ev>>)
    BY <1>1, PassedSend DEF FilterStates, LoopStates
  <2> QED
    BY <1>1, <1>3, <2>1, <2>2 DEF FilterData
<1>8. /\ m.at = "select" => m.todo = {}
      /\ b.mu = "free" => b.scan = {}
      /\ m.ev = evLoop.ev
  BY <1>1, <1>4, <1>5 DEF SendLogs, Free
<1>9. \A h \in LogFilters \ {f} : /\ h \in m.index <=> h \in evLoop.index
                                  /\ h \in m.todo <=> h \in evLoop.todo
                                  /\ h \in b.filters <=> h \in filterApi.filters
                                  /\ h \in b.scan <=> h \in filterApi.scan
  BY <1>4, <1>5
<1>10. FilterGood(f, r, m, b)
  BY <1>6, <1>7 DEF FilterGood
<1>11. StepTo(f, r, m, b)
  BY <1>2, <1>8, <1>9, <1>10, Zenon DEF StepTo
<1> QED
  BY <1>3, <1>4, <1>5, <1>11, OneFilter, Zenon

\* An RPC subscription passes an event on.
LEMMA InvPushed == ASSUME FilterInv, NEW f \in LogFilters, SendLogs(f), f \in Pushed, filterOf[f].run = "recv",
            ~(filterOf' = filterOf /\ filterOf[f].sub = "uninstalling") PROVE FilterInv'
<1> DEFINE g == filterOf[f]
           j == Append(g.polled, evLoop.ev)
           r == [g EXCEPT !.polled = j]
           m == [evLoop EXCEPT !.todo = evLoop.todo \ {f}, !.at = (IF evLoop.todo = {f} THEN "select" ELSE evLoop.at)]
           b == filterApi
<1>1. /\ g \in FilterStates /\ evLoop \in LoopStates /\ filterApi \in ApiStates
      /\ FilterControl(f, g, evLoop, filterApi) /\ FilterData(f, g, evLoop)
      /\ evLoop.at = "select" => evLoop.todo = {}
      /\ filterApi.mu = "free" => filterApi.scan = {}
  BY DEF FilterInv, FilterGood, Free
<1>2. filterOf' = [filterOf EXCEPT ![f] = r] /\ evLoop' = m /\ filterApi' = b /\ UNCHANGED posted
  BY SMTT(30) DEF SendLogs, FilterInv, SentTo, Join
<1>p. j \in Seq(Nat)
  BY <1>1 DEF LoopStates, FilterStates
<1> HIDE DEF j
<1>3. /\ r \in FilterStates
      /\ r.sub = g.sub
      /\ r.run = g.run
      /\ r.hand = g.hand
      /\ r.list = g.list
      /\ r.polled = j
      /\ r.due = g.due
      /\ r.expired = g.expired
  BY <1>1, <1>p, Zenon DEF FilterStates
<1>4. /\ m \in LoopStates
      /\ m.at = (IF evLoop.todo = {f} THEN "select" ELSE evLoop.at)
      /\ m.index = evLoop.index
      /\ m.todo = evLoop.todo \ {f}
      /\ m.ev = evLoop.ev
  BY <1>1, Zenon DEF LoopStates
<1>5. /\ b \in ApiStates
      /\ b.filters = filterApi.filters
      /\ b.mu = filterApi.mu
      /\ b.scan = filterApi.scan
  BY <1>1 DEF ApiStates
<1> HIDE DEF g, r, m, b
<1>6. FilterControl(f, r, m, b)
  BY <1>1, <1>3, <1>4, <1>5, <1>p, SMTT(30) DEF FilterControl, SendLogs, Free, g
<1>7. FilterData(f, r, m)
  <2>1. /\ g.hand = <<>> /\ g.list = <<>> /\ g.sub = "installed"
        /\ Coming(f, evLoop) = <<evLoop.ev>> /\ Coming(f, m) = <<>>
    BY <1>1, <1>4 DEF FilterControl, SendLogs, Coming, g
  <2>2. Passed(j, <<>>, <<>>, <<>>) = Passed(g.polled, <<>>, <<>>, <<evLoop.ev>>)
    BY <1>1, PassedPush DEF FilterStates, LoopStates, j
  <2>3. Passed(j, <<>>, <<>>, <<>>) = g.due
    BY <1>1, <2>1, <2>2 DEF FilterData
  <2>4. StartOf(j, g.due)
    BY <1>p, <2>3, StartOfPassed, EmptySeq, Zenon
  <2> QED
    BY <1>3, <2>1, <2>3, <2>4 DEF FilterData
<1>8. /\ m.at = "select" => m.todo = {}
      /\ b.mu = "free" => b.scan = {}
      /\ m.ev = evLoop.ev
  BY <1>1, <1>4, <1>5 DEF SendLogs, Free
<1>9. \A h \in LogFilters \ {f} : /\ h \in m.index <=> h \in evLoop.index
                                  /\ h \in m.todo <=> h \in evLoop.todo
                                  /\ h \in b.filters <=> h \in filterApi.filters
                                  /\ h \in b.scan <=> h \in filterApi.scan
  BY <1>4, <1>5
<1>10. FilterGood(f, r, m, b)
  BY <1>6, <1>7 DEF FilterGood
<1>11. StepTo(f, r, m, b)
  BY <1>2, <1>8, <1>9, <1>10, Zenon DEF StepTo
<1> QED
  BY <1>3, <1>4, <1>5, <1>11, OneFilter, Zenon

\* Unsubscribe swallows an event.
LEMMA InvSwallowed == ASSUME FilterInv, NEW f \in LogFilters, SendLogs(f), filterOf' = filterOf, filterOf[f].sub = "uninstalling" PROVE FilterInv'
<1> DEFINE g == filterOf[f]
           r == g
           m == [evLoop EXCEPT !.todo = evLoop.todo \ {f}, !.at = (IF evLoop.todo = {f} THEN "select" ELSE evLoop.at)]
           b == filterApi
<1>1. /\ g \in FilterStates /\ evLoop \in LoopStates /\ filterApi \in ApiStates
      /\ FilterControl(f, g, evLoop, filterApi) /\ FilterData(f, g, evLoop)
      /\ evLoop.at = "select" => evLoop.todo = {}
      /\ filterApi.mu = "free" => filterApi.scan = {}
  BY DEF FilterInv, FilterGood, Free
<1>2. filterOf' = [filterOf EXCEPT ![f] = r] /\ evLoop' = m /\ filterApi' = b /\ UNCHANGED posted
  BY SMTT(30) DEF SendLogs, FilterInv, SentTo
<1>3. /\ r \in FilterStates
      /\ r.sub = g.sub
      /\ r.run = g.run
      /\ r.hand = g.hand
      /\ r.list = g.list
      /\ r.polled = g.polled
      /\ r.due = g.due
      /\ r.expired = g.expired
  BY <1>1, SMTT(60) DEF FilterStates
<1>4. /\ m \in LoopStates
      /\ m.at = (IF evLoop.todo = {f} THEN "select" ELSE evLoop.at)
      /\ m.index = evLoop.index
      /\ m.todo = evLoop.todo \ {f}
      /\ m.ev = evLoop.ev
  BY <1>1, Zenon DEF LoopStates
<1>5. /\ b \in ApiStates
      /\ b.filters = filterApi.filters
      /\ b.mu = filterApi.mu
      /\ b.scan = filterApi.scan
  BY <1>1 DEF ApiStates
<1> HIDE DEF g, r, m, b
<1>6. FilterControl(f, r, m, b)
  BY <1>1, <1>3, <1>4, <1>5, SMTT(30) DEF FilterControl, SendLogs, Free, g
<1>7. FilterData(f, r, m)
  BY <1>1, <1>3 DEF FilterData, g
<1>8. /\ m.at = "select" => m.todo = {}
      /\ b.mu = "free" => b.scan = {}
      /\ m.ev = evLoop.ev
  BY <1>1, <1>4, <1>5 DEF SendLogs, Free
<1>9. \A h \in LogFilters \ {f} : /\ h \in m.index <=> h \in evLoop.index
                                  /\ h \in m.todo <=> h \in evLoop.todo
                                  /\ h \in b.filters <=> h \in filterApi.filters
                                  /\ h \in b.scan <=> h \in filterApi.scan
  BY <1>4, <1>5
<1>10. FilterGood(f, r, m, b)
  BY <1>6, <1>7 DEF FilterGood
<1>11. StepTo(f, r, m, b)
  BY <1>2, <1>8, <1>9, <1>10, Zenon DEF StepTo
<1> QED
  BY <1>3, <1>4, <1>5, <1>11, OneFilter, Zenon

\* A filter that has not expired stays.
LEMMA InvScanned == ASSUME FilterInv, NEW f \in LogFilters, Scan(f), ~filterOf[f].expired PROVE FilterInv'
<1> DEFINE g == filterOf[f]
           r == g
           m == evLoop
           b == [filterApi EXCEPT !.scan = filterApi.scan \ {f}]
<1>1. /\ g \in FilterStates /\ evLoop \in LoopStates /\ filterApi \in ApiStates
      /\ FilterControl(f, g, evLoop, filterApi) /\ FilterData(f, g, evLoop)
      /\ evLoop.at = "select" => evLoop.todo = {}
      /\ filterApi.mu = "free" => filterApi.scan = {}
  BY DEF FilterInv, FilterGood, Free
<1>2. filterOf' = [filterOf EXCEPT ![f] = r] /\ evLoop' = m /\ filterApi' = b /\ UNCHANGED posted
  BY SMTT(30) DEF Scan, FilterInv
<1>3. /\ r \in FilterStates
      /\ r.sub = g.sub
      /\ r.run = g.run
      /\ r.hand = g.hand
      /\ r.list = g.list
      /\ r.polled = g.polled
      /\ r.due = g.due
      /\ r.expired = g.expired
  BY <1>1 DEF FilterStates
<1>4. /\ m \in LoopStates
      /\ m.at = evLoop.at
      /\ m.index = evLoop.index
      /\ m.todo = evLoop.todo
      /\ m.ev = evLoop.ev
  BY <1>1 DEF LoopStates
<1>5. /\ b \in ApiStates
      /\ b.filters = filterApi.filters
      /\ b.mu = filterApi.mu
      /\ b.scan = filterApi.scan \ {f}
  BY <1>1 DEF ApiStates
<1> HIDE DEF g, r, m, b
<1>6. FilterControl(f, r, m, b)
  BY <1>1, <1>3, <1>4, <1>5, SMTT(30) DEF FilterControl, Scan, Free, g
<1>7. FilterData(f, r, m)
  BY <1>1, <1>3, <1>4, SMTT(30) DEF FilterData, Coming
<1>8. /\ m.at = "select" => m.todo = {}
      /\ b.mu = "free" => b.scan = {}
      /\ m.ev = evLoop.ev
  BY <1>1, <1>4, <1>5 DEF Scan, Free
<1>9. \A h \in LogFilters \ {f} : /\ h \in m.index <=> h \in evLoop.index
                                  /\ h \in m.todo <=> h \in evLoop.todo
                                  /\ h \in b.filters <=> h \in filterApi.filters
                                  /\ h \in b.scan <=> h \in filterApi.scan
  BY <1>4, <1>5
<1>10. FilterGood(f, r, m, b)
  BY <1>6, <1>7 DEF FilterGood
<1>11. StepTo(f, r, m, b)
  BY <1>2, <1>8, <1>9, <1>10, Zenon DEF StepTo
<1> QED
  BY <1>3, <1>4, <1>5, <1>11, OneFilter, Zenon

\* A filter that expired and is gone is removed.
LEMMA InvScanGone == ASSUME FilterInv, NEW f \in LogFilters, Scan(f), filterOf[f].expired, filterOf[f].sub = "gone" PROVE FilterInv'
<1> DEFINE g == filterOf[f]
           r == g
           m == evLoop
           b == [filterApi EXCEPT !.scan = filterApi.scan \ {f}, !.filters = filterApi.filters \ {f}]
<1>1. /\ g \in FilterStates /\ evLoop \in LoopStates /\ filterApi \in ApiStates
      /\ FilterControl(f, g, evLoop, filterApi) /\ FilterData(f, g, evLoop)
      /\ evLoop.at = "select" => evLoop.todo = {}
      /\ filterApi.mu = "free" => filterApi.scan = {}
  BY DEF FilterInv, FilterGood, Free
<1>2. filterOf' = [filterOf EXCEPT ![f] = r] /\ evLoop' = m /\ filterApi' = b /\ UNCHANGED posted
  BY SMTT(30) DEF Scan, FilterInv
<1>3. /\ r \in FilterStates
      /\ r.sub = g.sub
      /\ r.run = g.run
      /\ r.hand = g.hand
      /\ r.list = g.list
      /\ r.polled = g.polled
      /\ r.due = g.due
      /\ r.expired = g.expired
  BY <1>1 DEF FilterStates
<1>4. /\ m \in LoopStates
      /\ m.at = evLoop.at
      /\ m.index = evLoop.index
      /\ m.todo = evLoop.todo
      /\ m.ev = evLoop.ev
  BY <1>1 DEF LoopStates
<1>5. /\ b \in ApiStates
      /\ b.filters = filterApi.filters \ {f}
      /\ b.mu = filterApi.mu
      /\ b.scan = filterApi.scan \ {f}
  BY <1>1, Zenon DEF ApiStates
<1> HIDE DEF g, r, m, b
<1>6. FilterControl(f, r, m, b)
  BY <1>1, <1>3, <1>4, <1>5, SMTT(30) DEF FilterControl, Scan, Free, g
<1>7. FilterData(f, r, m)
  BY <1>1, <1>3, <1>4, SMTT(30) DEF FilterData, Coming
<1>8. /\ m.at = "select" => m.todo = {}
      /\ b.mu = "free" => b.scan = {}
      /\ m.ev = evLoop.ev
  BY <1>1, <1>4, <1>5 DEF Scan, Free
<1>9. \A h \in LogFilters \ {f} : /\ h \in m.index <=> h \in evLoop.index
                                  /\ h \in m.todo <=> h \in evLoop.todo
                                  /\ h \in b.filters <=> h \in filterApi.filters
                                  /\ h \in b.scan <=> h \in filterApi.scan
  BY <1>4, <1>5
<1>10. FilterGood(f, r, m, b)
  BY <1>6, <1>7 DEF FilterGood
<1>11. StepTo(f, r, m, b)
  BY <1>2, <1>8, <1>9, <1>10, Zenon DEF StepTo
<1> QED
  BY <1>3, <1>4, <1>5, <1>11, OneFilter, Zenon

\* A filter that expired is unsubscribed.
LEMMA InvScanExpired == ASSUME FilterInv, NEW f \in LogFilters, Scan(f), filterOf[f].expired, filterOf[f].sub # "gone" PROVE FilterInv'
<1> DEFINE g == filterOf[f]
           r == [g EXCEPT !.sub = "uninstalling"]
           m == evLoop
           b == filterApi
<1>1. /\ g \in FilterStates /\ evLoop \in LoopStates /\ filterApi \in ApiStates
      /\ FilterControl(f, g, evLoop, filterApi) /\ FilterData(f, g, evLoop)
      /\ evLoop.at = "select" => evLoop.todo = {}
      /\ filterApi.mu = "free" => filterApi.scan = {}
  BY DEF FilterInv, FilterGood, Free
<1>2. filterOf' = [filterOf EXCEPT ![f] = r] /\ evLoop' = m /\ filterApi' = b /\ UNCHANGED posted
  BY SMTT(30) DEF Scan, FilterInv
<1>p. g.sub \in {"none", "installed", "uninstalling", "gone"}
  BY <1>1 DEF FilterStates
<1>3. /\ r \in FilterStates
      /\ r.sub = "uninstalling"
      /\ r.run = g.run
      /\ r.hand = g.hand
      /\ r.list = g.list
      /\ r.polled = g.polled
      /\ r.due = g.due
      /\ r.expired = g.expired
  BY <1>1, <1>p, Zenon DEF FilterStates
<1>4. /\ m \in LoopStates
      /\ m.at = evLoop.at
      /\ m.index = evLoop.index
      /\ m.todo = evLoop.todo
      /\ m.ev = evLoop.ev
  BY <1>1 DEF LoopStates
<1>5. /\ b \in ApiStates
      /\ b.filters = filterApi.filters
      /\ b.mu = filterApi.mu
      /\ b.scan = filterApi.scan
  BY <1>1 DEF ApiStates
<1> HIDE DEF g, r, m, b
<1>6. FilterControl(f, r, m, b)
  BY <1>1, <1>3, <1>4, <1>5, <1>p, SMTT(30) DEF FilterControl, Scan, Free, g
<1>7. FilterData(f, r, m)
  BY <1>1, <1>3, <1>4, SMTT(30) DEF FilterData, Coming
<1>8. /\ m.at = "select" => m.todo = {}
      /\ b.mu = "free" => b.scan = {}
      /\ m.ev = evLoop.ev
  BY <1>1, <1>4, <1>5 DEF Scan, Free
<1>9. \A h \in LogFilters \ {f} : /\ h \in m.index <=> h \in evLoop.index
                                  /\ h \in m.todo <=> h \in evLoop.todo
                                  /\ h \in b.filters <=> h \in filterApi.filters
                                  /\ h \in b.scan <=> h \in filterApi.scan
  BY <1>4, <1>5
<1>10. FilterGood(f, r, m, b)
  BY <1>6, <1>7 DEF FilterGood
<1>11. StepTo(f, r, m, b)
  BY <1>2, <1>8, <1>9, <1>10, Zenon DEF StepTo
<1> QED
  BY <1>3, <1>4, <1>5, <1>11, OneFilter, Zenon

\* The goroutine takes the event, or Unsubscribe swallows it.
LEMMA InvSendLogs == ASSUME FilterInv, NEW f \in LogFilters, SendLogs(f) PROVE FilterInv'
<1>1. CASE filterOf' = filterOf /\ filterOf[f].sub = "uninstalling"
  BY <1>1, InvSwallowed, Zenon
<1>2. CASE ~(filterOf' = filterOf /\ filterOf[f].sub = "uninstalling")
  <2> filterOf[f].run = "recv"
    BY <1>2, Zenon DEF SendLogs
  <2>1. CASE f \in Pushed
    BY <1>2, <2>1, InvPushed, Zenon
  <2>2. CASE f \notin Pushed
    BY <1>2, <2>2, InvTaken, Zenon
  <2> QED
    BY <2>1, <2>2
<1> QED
  BY <1>1, <1>2, Zenon DEF SendLogs

LEMMA InvScan == ASSUME FilterInv, NEW f \in LogFilters, Scan(f) PROVE FilterInv'
  BY InvScanned, InvScanGone, InvScanExpired, Zenon

\* broadcast: the event is posted for the filters it is going to be sent to.
LEMMA InvBroadcast == ASSUME FilterInv, NEW kind \in EventKinds, NEW late, Broadcast(kind, late) PROVE FilterInv'
<1> DEFINE I == evLoop.index \ late
           R == {f \in I : Receivers(kind) \in Indices(FilterCrit[f])}
           n == posted + 1
           m == [evLoop EXCEPT !.at = IF R = {} THEN @ ELSE "send", !.todo = R, !.ev = n]
<1>1. /\ evLoop \in LoopStates /\ filterApi \in ApiStates /\ n \in Nat
      /\ evLoop.at = "select" /\ evLoop.todo = {}
      /\ filterApi.mu = "free" => filterApi.scan = {}
  BY DEF FilterInv, Broadcast, Free
<1>2. R \subseteq LogFilters /\ R \subseteq I /\ I \subseteq evLoop.index
  BY <1>1 DEF LoopStates
<1>3. /\ evLoop' = m /\ posted' = n /\ filterApi' = filterApi
      /\ filterOf' = [f \in LogFilters |-> IF f \in I /\ Wants(f, kind)
                                          THEN [filterOf[f] EXCEPT !.due = Append(@, n)] ELSE filterOf[f]]
  BY DEF Broadcast
<1>r. \A f \in LogFilters : f \in R <=> f \in I /\ Receivers(kind) \in Indices(FilterCrit[f])
  OBVIOUS
<1> HIDE DEF I, R, n
<1>4. /\ m \in LoopStates /\ m.index = evLoop.index /\ m.todo = R /\ m.ev = n
      /\ m.at = (IF R = {} THEN "select" ELSE "send")
  BY <1>1, <1>2, Zenon DEF LoopStates
<1> HIDE DEF m
<1>5. ASSUME NEW f \in LogFilters
      PROVE  filterOf'[f] \in FilterStates /\ FilterGood(f, filterOf'[f], m, filterApi)
  <2> DEFINE g == filterOf[f]
             j == Append(g.due, n)
             r == [g EXCEPT !.due = j]
  <2>1. g \in FilterStates /\ FilterControl(f, g, evLoop, filterApi) /\ FilterData(f, g, evLoop)
    BY DEF FilterInv, FilterGood
  <2>2. f \in I => (Wants(f, kind) <=> f \in R)
    BY <1>2, <1>r, <2>1, WantsReceives, Zenon DEF FilterControl
  <2>3. CASE f \in R
    <3>1. filterOf'[f] = r
      BY <1>2, <1>3, <2>2, <2>3, Zenon
    <3>j. j \in Seq(Nat)
      BY <1>1, <2>1 DEF FilterStates
    <3> HIDE DEF j
    <3>2. /\ r \in FilterStates
          /\ r.sub = g.sub /\ r.run = g.run /\ r.hand = g.hand /\ r.list = g.list /\ r.polled = g.polled
          /\ r.due = j /\ r.expired = g.expired
      BY <2>1, <3>j, Zenon DEF FilterStates
    <3> HIDE DEF g, r
    <3>3. f \in evLoop.index /\ f \notin evLoop.todo
      BY <1>1, <1>2, <2>3
    <3>4. FilterControl(f, r, m, filterApi)
      BY <1>1, <1>4, <2>1, <3>2, <3>3, SMTT(30) DEF FilterControl
    <3>5. Coming(f, evLoop) = <<>> /\ Coming(f, m) = <<n>>
      BY <1>4, <2>3, <3>3 DEF Coming
    <3>6. g.polled \in Seq(Nat) /\ g.list \in Seq(Nat) /\ g.hand \in Seq(Nat) /\ g.due \in Seq(Nat)
      BY <2>1 DEF FilterStates
    <3>7. g.sub = "installed" => Passed(g.polled, g.list, g.hand, <<n>>) = Append(g.due, n)
      <4> SUFFICES ASSUME g.sub = "installed" PROVE Passed(g.polled, g.list, g.hand, <<n>>) = Append(g.due, n)
        OBVIOUS
      <4>1. Passed(g.polled, g.list, g.hand, <<>>) = g.due
        BY <2>1, <3>5 DEF FilterData
      <4>2. PICK c \in Seq(Nat) : c = <<n>>
        <5>1. <<n>> \in Seq(Nat)
          BY <1>1
        <5> QED
          BY <5>1, Zenon
      <4>3. Append(g.due, n) = Join(g.due, c)
        BY <1>1, <3>6, <4>2, AppendIsConcat, ZenonT(60) DEF Join
      <4>4. Passed(g.polled, g.list, g.hand, c) = Join(Passed(g.polled, g.list, g.hand, <<>>), c)
        BY <3>6, PassedAppend
      <4> QED
        BY <4>1, <4>2, <4>3, <4>4
    <3>8. StartOf(g.polled, Append(g.due, n))
      BY <1>1, <2>1, <3>6, StartOfAppend DEF FilterData
    <3>9. FilterData(f, r, m)
      BY <3>2, <3>5, <3>7, <3>8 DEF FilterData, j
    <3> QED
      BY <3>1, <3>2, <3>4, <3>9 DEF FilterGood
  <2>4. CASE f \notin R
    <3>1. filterOf'[f] = g
      BY <1>3, <2>2, <2>4, Zenon
    <3> HIDE DEF g
    <3>2. f \notin evLoop.todo /\ f \notin m.todo
      BY <1>1, <1>4, <2>4
    <3>3. FilterControl(f, g, m, filterApi)
      BY <1>4, <2>1, <3>2, SMTT(30) DEF FilterControl
    <3>4. FilterData(f, g, m)
      BY <2>1, <3>2 DEF FilterData, Coming
    <3> QED
      BY <2>1, <3>1, <3>3, <3>4 DEF FilterGood
  <2> QED
    BY <2>3, <2>4
<1>6. filterOf' \in [LogFilters -> FilterStates]
  <2>1. filterOf' = [f \in LogFilters |-> filterOf'[f]]
    BY <1>3
  <2> QED
    BY <1>5, <2>1
<1> QED
  BY <1>1, <1>3, <1>4, <1>5, <1>6, Zenon DEF FilterInv, Free

\* The timeout loop begins with every filter, none of which is unsubscribed.
LEMMA InvTick == ASSUME FilterInv, Tick PROVE FilterInv'
<1> DEFINE b == [filterApi EXCEPT !.mu = "timeout", !.scan = filterApi.filters]
<1>1. filterApi \in ApiStates /\ filterApi.scan = {}
  BY DEF FilterInv, Tick
<1>2. b \in ApiStates /\ b.mu = "timeout" /\ b.scan = filterApi.filters /\ b.filters = filterApi.filters
  BY <1>1, Zenon DEF ApiStates
<1>3. filterApi' = b /\ UNCHANGED <<evLoop, filterOf, posted>>
  BY DEF Tick
<1> HIDE DEF b
<1>4. ASSUME NEW f \in LogFilters PROVE FilterGood(f, filterOf[f], evLoop, b)
  <2>1. FilterControl(f, filterOf[f], evLoop, filterApi) /\ FilterData(f, filterOf[f], evLoop)
    BY DEF FilterInv, FilterGood
  <2>2. FilterControl(f, filterOf[f], evLoop, b)
    BY <1>1, <1>2, <2>1, SMTT(30) DEF FilterControl
  <2> QED
    BY <2>1, <2>2 DEF FilterGood
<1> QED
  BY <1>2, <1>3, <1>4 DEF FilterInv, Free

LEMMA InvScanEnds == ASSUME FilterInv, ScanEnds PROVE FilterInv'
<1> DEFINE b == [filterApi EXCEPT !.mu = "free"]
<1>1. filterApi \in ApiStates /\ filterApi.scan = {}
  BY DEF FilterInv, ScanEnds
<1>2. b \in ApiStates /\ b.mu = "free" /\ b.scan = filterApi.scan /\ b.filters = filterApi.filters
  BY <1>1 DEF ApiStates
<1>3. filterApi' = b /\ UNCHANGED <<evLoop, filterOf, posted>>
  BY DEF ScanEnds
<1> HIDE DEF b
<1>4. ASSUME NEW f \in LogFilters PROVE FilterGood(f, filterOf[f], evLoop, b)
  <2>1. FilterGood(f, filterOf[f], evLoop, filterApi)
    BY DEF FilterInv
  <2> QED
    BY <1>2, <2>1, GoodFrame
<1> QED
  BY <1>1, <1>2, <1>3, <1>4 DEF FilterInv, Free

LEMMA FilterStep == FilterInv /\ [FilterNext]_filterVars => FilterInv'
<1> SUFFICES ASSUME FilterInv, [FilterNext]_filterVars PROVE FilterInv'
  OBVIOUS
<1>1. CASE Tick
  BY <1>1, InvTick, Zenon
<1>2. CASE ScanEnds
  BY <1>2, InvScanEnds, Zenon
<1>3. CASE \E kind \in EventKinds, late \in SUBSET evLoop.index : Broadcast(kind, late)
  BY <1>3, InvBroadcast, Zenon
<1>4. ASSUME NEW f \in LogFilters,
             \/ Subscribe(f) \/ SendLogs(f) \/ Uninstall(f) \/ NewFilter(f) \/ Collect(f) \/ FilterEnds(f)
             \/ GetFilterChanges(f) \/ UninstallFilter(f) \/ StopPushing(f) \/ Expire(f) \/ Scan(f)
      PROVE  FilterInv'
  BY <1>4, InvSubscribe, InvSendLogs, InvUninstall, InvNewFilter, InvCollect, InvFilterEnds, InvGetFilterChanges,
     InvUninstallFilter, InvStopPushing, InvExpire, InvScan, Zenon
<1>5. CASE UNCHANGED filterVars
  BY <1>5, Zenon DEF FilterInv, filterVars, Free
<1> QED
  BY <1>1, <1>2, <1>3, <1>4, <1>5, Zenon DEF FilterNext

LEMMA FilterInvExact == FilterInv => FilterExact
<1> SUFFICES ASSUME FilterInv, NEW f \in LogFilters
             PROVE  LET g == filterOf[f]
                        coming == IF evLoop.at = "send" /\ f \in evLoop.todo THEN <<evLoop.ev>> ELSE <<>>
                    IN  /\ g.sub = "installed" => g.polled \o g.list \o g.hand \o coming = g.due
                        /\ Len(g.polled) <= Len(g.due) /\ g.polled = SubSeq(g.due, 1, Len(g.polled))
                        /\ g.sub = "gone" => f \notin evLoop.index /\ f \notin evLoop.todo
  BY Zenon DEF FilterExact
<1>1. /\ FilterControl(f, filterOf[f], evLoop, filterApi) /\ FilterData(f, filterOf[f], evLoop)
      /\ evLoop \in LoopStates /\ (evLoop.at = "select" => evLoop.todo = {})
  BY DEF FilterInv, FilterGood
<1>2. Coming(f, evLoop) = IF evLoop.at = "send" /\ f \in evLoop.todo THEN <<evLoop.ev>> ELSE <<>>
  BY <1>1 DEF Coming, LoopStates
<1>3. filterOf[f].sub = "gone" => f \notin evLoop.index /\ f \notin evLoop.todo
  BY <1>1 DEF FilterControl
<1> QED
  BY <1>1, <1>2, <1>3, ZenonT(60) DEF FilterData, Passed, Join, StartOf

\* However events, polls, uninstalling, timeouts and the two loops interleave,
\* a filter that is installed gets every event it asked for once and in order,
\* and one that is gone is sent nothing (filter_system.go, api.go), for any
\* filters, criteria and number of events.
THEOREM FiltersExact == FilterSpec => []FilterExact
<1>1. FilterSpec => []FilterInv
  BY FilterInitially, FilterStep, PTL DEF FilterSpec
<1> QED
  BY <1>1, FilterInvExact, PTL
=============================================================================
