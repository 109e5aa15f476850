------------------------------- MODULE MCLists -------------------------------
(***************************************************************************)
(* Small instances of Lists: two organizations that list the same value,   *)
(* the first with three POSTs, of which the second names an expiry, the    *)
(* other with one.                                                         *)
(***************************************************************************)
EXTENDS Lists

CONSTANTS o1, o2, v1, c1, c2, c3, c4, r1, r2, l1

mcOrgOf == [x \in Op |-> IF x \in {c4, r2} THEN o2 ELSE o1]
mcValueOf == [x \in Create \cup Lookup |-> v1]
mcExpiresAt == [c \in Create |-> IF c = c2 THEN 1 ELSE Never]
=============================================================================
