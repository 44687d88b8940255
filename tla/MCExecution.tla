----------------------------- MODULE MCExecution -----------------------------
(* A block of up to four transactions, executed: users pay fees and        *)
(* transfer, the producer is rewarded, and one action is unknown to the    *)
(* contract.                                                               *)
EXTENDS Execution
CONSTANTS uA, uB, uP, uR

Action(fun, from, to, amount) == [fun |-> fun, from |-> from, to |-> to, amount |-> amount]
Fee(from) == Action("fee", from, from, 1)
Tx(from, nonce, actions) == [from |-> from, nonce |-> nonce, actions |-> actions, creates |-> FALSE]

ExecTxsDef == {
    Tx(uR, 0, <<Action("reward", uP, uP, 0)>>),
    Tx(uA, 0, <<Fee(uA), Action("transfer", uA, uB, 1)>>),
    Tx(uA, 0, <<Fee(uA), Action("transfer", uA, uB, 2)>>),
    Tx(uA, 1, <<Fee(uA), Action("unknown", uA, uA, 0)>>),
    Tx(uB, 0, <<Fee(uB), Action("get", uB, uB, 0)>>),
    [Tx(uB, 1, <<>>) EXCEPT !.creates = TRUE]}
UsersDef == {uA, uB, uP, uR}

\* The StateDB of module StateDB, on which calls are made one by one, rests.
ExecSpecAlone == ExecInit /\ SDBInit /\ [][ExecNext /\ UNCHANGED sdbVars]_<<execVars, sdbVars>>
==============================================================================
