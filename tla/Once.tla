-------------------------------- MODULE Once --------------------------------
(***************************************************************************)
(* What a lazily initialised static promises its callers: one table, built *)
(* by one of them, which every call returns.                               *)
(***************************************************************************)
CONSTANTS Threads, Null

VARIABLES
    table,  \* the thread that built the table, Null before
    got     \* got[t]: the table that t's call returned and t is using

Init == table = Null /\ got = [t \in Threads |-> Null]

Build(t) == table = Null /\ table' = t /\ UNCHANGED got

Return(t) ==
    /\ table # Null /\ got[t] = Null
    /\ got' = [got EXCEPT ![t] = table]
    /\ UNCHANGED table

Drop(t) ==
    /\ got[t] # Null
    /\ got' = [got EXCEPT ![t] = Null]
    /\ UNCHANGED table

Next == \E t \in Threads : Build(t) \/ Return(t) \/ Drop(t)

Spec == Init /\ [][Next]_<<table, got>>
=============================================================================
