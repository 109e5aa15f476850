------------------------------ MODULE MCCatalog ------------------------------
(***************************************************************************)
(* A small instance of Catalog: two templates, the second created during   *)
(* the run, a rule and two overrides of the first organization for the     *)
(* first template, and a DELETE of another organization.                   *)
(***************************************************************************)
EXTENDS Catalog, TLC

CONSTANTS o1, o2, r1, r2, v1, v2, t1, t2, n1, n2, p1, p2, d1, d2

mcFirstName == [t \in Named |-> IF t = t1 THEN n1 ELSE n2]
mcTemplateOf == [v \in Override |-> t1]
mcOrgOf == [x \in Owned \cup Request |-> IF x \in {r2, d2} THEN o2 ELSE o1]

\* Two instances: one failure or lost answer; no failure, and the stranger's DELETE.
mcInit == \/ InitWithout({d2}) /\ failures = 0
          \/ InitWithout({}) /\ failures = MaxFailures
mcSpec == mcInit /\ [][Next]_vars

\* The overrides are alike, and so are the PATCHes.
mcSymmetry == Permutations({v1, v2}) \cup Permutations({p1, p2})
=============================================================================
