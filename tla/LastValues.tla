------------------------------ MODULE LastValues ------------------------------
(***************************************************************************)
(* What the retain service promises to the programs that read it, without  *)
(* batches, transactions or a shutdown protocol: Get answers the newest    *)
(* value while the service runs, and after a restart one that is no newer, *)
(* and never older than what an earlier start found.                       *)
(* A value is the number of its write, 0 if there is none.                 *)
(***************************************************************************)
EXTENDS Naturals

CONSTANT Subjects

VARIABLES
    current,    \* what Get answers
    durable,    \* what the next start would find
    running

vars == <<current, durable, running>>

Nothing == [s \in Subjects |-> 0]

Init == current = Nothing /\ durable = Nothing /\ running = FALSE

\* A write replaces an older value.
Write(s) ==
    /\ running
    /\ current'[s] > current[s]
    /\ current' = [current EXCEPT ![s] = current'[s]]
    /\ UNCHANGED <<durable, running>>

\* Any part of what was written becomes durable; nothing durable is undone.
Persist ==
    /\ running
    /\ durable' = [s \in Subjects |-> durable'[s]]
    /\ \A s \in Subjects : durable[s] <= durable'[s] /\ durable'[s] <= current[s]
    /\ UNCHANGED <<current, running>>

Start ==
    /\ ~running /\ running' = TRUE
    /\ current' = durable
    /\ UNCHANGED durable

\* Shutdown or crash.
Stop ==
    /\ running /\ running' = FALSE
    /\ current' = Nothing
    /\ UNCHANGED durable

Next == (\E s \in Subjects : Write(s)) \/ Persist \/ Start \/ Stop

Spec == Init /\ [][Next]_vars
=============================================================================
