----------------------------- MODULE MCRuleCache -----------------------------
(***************************************************************************)
(* Small instances of RuleCache: two instances of the service, the first   *)
(* with the evaluation e1 and the request w1, the second with e2 and w2.   *)
(* The configs that are cached have two properties and two plain values.   *)
(***************************************************************************)
EXTENDS RuleCache

CONSTANTS i1, i2, e1, e2, w1, w2, o1, o2, conditions, event, null, value

mcAt == [x \in Op |-> IF x \in {e2, w2} THEN i2 ELSE i1]

\* Nested objects have one property, the config two.
mcNames == <<{conditions}, {conditions, event}>>
=============================================================================
