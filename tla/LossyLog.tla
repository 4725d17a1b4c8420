------------------------------ MODULE LossyLog ------------------------------
(***************************************************************************)
(* What a subscription promises to the client that drains it: a numbered   *)
(* log that only grows at its end, that may forget entries from its        *)
(* beginning, and that raises a flag whenever it does.  The flag stays up  *)
(* until somebody reads the log.  How much is kept, and in which form, is  *)
(* not said here.                                                          *)
(***************************************************************************)
EXTENDS Integers

CONSTANT Logs

VARIABLES
    head,       \* number of the newest entry of each log; 0 when there is none
    held,       \* the numbers of the entries still there
    flag        \* has an entry been forgotten since the last read?

vars == <<head, held, flag>>

Init ==
    /\ head = [l \in Logs |-> 0]
    /\ held = [l \in Logs |-> {}]
    /\ flag = [l \in Logs |-> FALSE]

\* Any set of logs grows by one entry, each forgetting what is at or below its
\* bound.
Append(grow, bound) ==
    /\ head' = [l \in Logs |-> IF l \in grow THEN head[l] + 1 ELSE head[l]]
    /\ held' = [l \in Logs |->
                    IF l \in grow
                    THEN {n \in held[l] : n > bound[l]} \cup {head[l] + 1}
                    ELSE held[l]]
    /\ flag' = [l \in Logs |->
                    flag[l] \/ (l \in grow /\ \E n \in held[l] : n <= bound[l])]

Read(l) ==
    /\ flag' = [flag EXCEPT ![l] = FALSE]
    /\ UNCHANGED <<head, held>>

Bounds == [Logs -> UNION {held[l] \cup {0} : l \in Logs}]

Next ==
    \/ \E grow \in SUBSET Logs, bound \in Bounds : Append(grow, bound)
    \/ \E l \in Logs : Read(l)

Spec == Init /\ [][Next]_vars

=============================================================================
