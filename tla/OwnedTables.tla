---------------------------- MODULE OwnedTables ----------------------------
(***************************************************************************)
(* What a registry shared by several connections promises to each of them: *)
(* a table of its own, which only its own snapshots replace, as a whole.   *)
(***************************************************************************)
CONSTANTS
    Owners,
    Tables          \* every table an owner can have

VARIABLE table      \* the table of each owner

Init == table \in [Owners -> Tables]

Replace(o) == \E t \in Tables : table' = [table EXCEPT ![o] = t]

Next == \E o \in Owners : Replace(o)

Spec == Init /\ [][Next]_table

=============================================================================
