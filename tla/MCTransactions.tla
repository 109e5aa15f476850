--------------------------- MODULE MCTransactions ---------------------------
(***************************************************************************)
(* Small instances of Transactions: t1, t2 and t3 are of one account, t4   *)
(* of another. A behaviour of mcSpec is one of two instances in one: in    *)
(* the first there is one PATCH, in the second one submission. The         *)
(* operators get an upper and a lower case country and three numbers.      *)
(***************************************************************************)
EXTENDS Transactions

CONSTANTS t1, t2, t3, t4, a1, a2, p1, p2

mcAccountOf == [t \in Tx |-> IF t = t4 THEN a2 ELSE a1]

mcText == {"", "ar", "AR", "US"}
mcUpper == [s \in mcText |-> IF s = "ar" THEN "AR" ELSE s]

mcInit == InitWithout({p2}) \/ InitWithout({t2, t4})
mcSpec == mcInit /\ [][Next]_vars /\ Fairness
=============================================================================
