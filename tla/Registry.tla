------------------------------- MODULE Registry -------------------------------
(***************************************************************************)
(* What a table with one row per slot promises the requests that create    *)
(* its rows: to each of them, looking for an equal row and inserting its   *)
(* own are one step. Lists and Catalog take two and three queries for it,  *)
(* and implement this.                                                     *)
(***************************************************************************)
CONSTANTS
    Item,           \* the rows, each named by the request that creates it
    SlotOf,         \* what may be there once
    Restorable      \* rows that may come back after they were dropped

VARIABLES
    held,           \* the rows that are there
    ever,           \* those that are there or once were
    reply           \* what each request was answered

vars == <<held, ever, reply>>

Free(i) == \A j \in held : SlotOf[j] # SlotOf[i]

Answer(i, a) == reply[i] = "none" /\ reply' = [reply EXCEPT ![i] = a]

Insert(i) ==
    /\ Free(i)
    /\ held' = held \cup {i}
    /\ ever' = ever \cup {i}

Init ==
    /\ held = {}
    /\ ever = {}
    /\ reply = [i \in Item |-> "none"]

Take(i) == Insert(i) /\ Answer(i, "taken")

Refuse(i) ==
    /\ ~Free(i)
    /\ Answer(i, "refused")
    /\ UNCHANGED <<held, ever>>

\* The outcome is not known to the client; the row is there if it could be.
Fail(i) ==
    /\ UNCHANGED <<held, ever>> \/ Insert(i)
    /\ Answer(i, "error")

\* Rows go, whoever wants it.
Drop == held' \subseteq held /\ UNCHANGED <<ever, reply>>

\* A row that was there comes back, whatever its request was answered.
Restore(i) ==
    /\ i \in Restorable \cap ever
    /\ Insert(i)
    /\ UNCHANGED reply

Next ==
    \/ \E i \in Item : Take(i) \/ Refuse(i) \/ Fail(i) \/ Restore(i)
    \/ Drop

Spec == Init /\ [][Next]_vars
=============================================================================
