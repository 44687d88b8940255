------------------------------ MODULE Equalise ------------------------------
(***************************************************************************)
(* The loops of promoteExecutables that equalise the pending lists of the  *)
(* transaction pool (core/txprocessor/tx_pool.go): from the lengths of the *)
(* lists to the lengths that are left.  Module TxPool has the result in    *)
(* closed form; here it is shown to be what the loops compute.             *)
(*                                                                         *)
(* A state of the loops is a record: the lengths of the lists, the counter *)
(* of pending transactions the loops decrement, and the offenders.         *)
(***************************************************************************)
EXTENDS Integers, Sequences, FiniteSets, FiniteSetsExt

CONSTANTS
    Lists, LocalLists,          \* accounts, and those exempt from the limits
    MaxLen,                     \* bound: length of a pending list
    MinLen, Limit               \* AccountSlots and GlobalSlots of TxPoolConfig

Sum(f) == MapThenSumSet(LAMBDA a : f[a], Lists)
Longer(lens, n) == {a \in Lists \ LocalLists : lens[a] > n}

\* One round: each of the first n offenders loses its last transaction.
Cut(s, n) ==
    [s EXCEPT !.lens = [a \in Lists |-> IF \E i \in 1..n : s.offenders[i] = a THEN @[a] - 1 ELSE @[a]],
              !.pending = @ - n]

Length(s, i) == s.lens[s.offenders[i]]

\* The offenders before the newest one are cut to its length.
RECURSIVE Equalised(_)
Equalised(s) ==
    LET n == Len(s.offenders)
    IN  IF n > 1 /\ s.pending > Limit /\ Length(s, n - 1) > Length(s, n)
        THEN Equalised(Cut(s, n - 1)) ELSE s

\* Still above the limit: all offenders are cut, down to MinLen at most.
RECURSIVE Reduced(_)
Reduced(s) ==
    LET n == Len(s.offenders)
    IN  IF n > 0 /\ s.pending > Limit /\ Length(s, n) > MinLen
        THEN Reduced(Cut(s, n)) ELSE s

\* The states in which the loops can end: one of the longest of the remaining
\* lists becomes an offender, until the limit is met or none is left.
RECURSIVE Ends(_, _)
Ends(s, spammers) ==
    IF s.pending <= Limit \/ spammers = {} THEN {Reduced(s)}
    ELSE UNION {Ends(Equalised([s EXCEPT !.offenders = Append(@, a)]), spammers \ {a}) :
                  a \in {b \in spammers : \A c \in spammers : s.lens[b] >= s.lens[c]}}

EndsFor(lens) ==
    Ends([lens |-> lens, pending |-> Sum(lens), offenders |-> <<>>], Longer(lens, MinLen))

-----------------------------------------------------------------------------
\* The lists cut to length n, and the common length of the closed form: the
\* longest, not below MinLen, with which the pool is within its limit.
CutTo(lens, n) == [a \in Lists |-> IF a \in Longer(lens, n) THEN n ELSE lens[a]]
CommonLength(lens) ==
    LET fits == {n \in MinLen..MaxLen : Sum(CutTo(lens, n)) <= Limit}
    IN  IF fits = {} THEN MinLen ELSE Max(fits)

\* However ties between equally long lists are broken, the loops end with the
\* closed form, and the unsigned counter they decrement is exact, so that it
\* cannot wrap and make them overshoot.
ClosedForm ==
    \A lens \in [Lists -> 0..MaxLen] : \A s \in EndsFor(lens) :
        /\ s.lens = IF Sum(lens) > Limit THEN CutTo(lens, CommonLength(lens)) ELSE lens
        /\ s.pending = Sum(s.lens)
=============================================================================
