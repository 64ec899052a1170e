----------------------------- MODULE InputBudget ------------------------------
(***************************************************************************)
(* What the input allowance of the movement component promises: once a     *)
(* client has been heard of and a tick has passed, every input is paid     *)
(* for, a tick always leaves enough for one input, and what is granted     *)
(* never exceeds the lag the client started with and the server's ticks    *)
(* since then.                                                             *)
(***************************************************************************)
EXTENDS Integers

VARIABLES
    open,       \* no limit applies yet
    credit,     \* inputs that would be accepted now
    quota       \* the first lag and the ticks since, less the inputs accepted

vars == <<open, credit, quota>>

Init == open = TRUE /\ credit = 0 /\ quota = 0

Accept ==
    /\ open \/ credit > 0
    /\ IF open THEN UNCHANGED <<credit, quota>> ELSE credit' = credit - 1 /\ quota' = quota - 1
    /\ UNCHANGED open

\* The limit begins with what the client is behind.
Close ==
    /\ open /\ open' = FALSE
    /\ quota' \in Nat /\ credit' \in 1..quota'

Tick ==
    /\ ~open
    /\ quota' - quota \in Nat \ {0}
    /\ credit' \in 1..(credit + (quota' - quota))
    /\ UNCHANGED open

\* The client goes to another backend and starts over.
Reopen == open' = TRUE /\ credit' = 0 /\ quota' = 0

Next == Accept \/ Close \/ Tick \/ Reopen

Spec == Init /\ [][Next]_vars

\* No client is ever granted more inputs than its first lag and the ticks of the server.
WithinQuota == ~open => credit \in 0..quota
=============================================================================
