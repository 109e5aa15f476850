------------------------------ MODULE MCAlerts ------------------------------
(***************************************************************************)
(* Small instances of Alerts: events of one dedup key, which must be       *)
(* deduplicated, e3 whose window cannot be parsed, and e4 of another key   *)
(* and rule, which must not be deduplicated with them.                     *)
(***************************************************************************)
EXTENDS Alerts

CONSTANTS e1, e2, e3, e4, k1, k2, u1, u2, q1

mcKeyOf == [m \in Msg |-> IF m = e4 THEN k2 ELSE k1]
mcRuleOf == [k \in Key |-> IF k = k2 THEN u2 ELSE u1]

\* Three instances: two events of one key; one beside an event that throws; one
\* beside an event of another key.
mcInit == /\ \/ InitWithout({e3, e4}) /\ rules = {u1}
             \/ InitWithout({e2, e4}) /\ rules = {u1}
             \/ InitWithout({e2, e3}) /\ rules = {u1, u2}
          /\ failures = 0
mcSpec == mcInit /\ [][Next]_vars /\ Fairness
=============================================================================
