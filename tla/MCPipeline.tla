------------------------------ MODULE MCPipeline ------------------------------
(***************************************************************************)
(* A small instance of Pipeline: a transaction submitted twice, rules r1,  *)
(* whose window is edited, and r2, whose event names r1.                   *)
(***************************************************************************)
EXTENDS Pipeline

CONSTANTS s1, s2, g1, r1, r2, x1, acc

mcTarget == [e \in Single |-> r1]
mcNamedIn == [r \in Rule |-> r1]
mcVersions == [r \in Rule |-> IF r = r1 THEN 2 ELSE 1]
mcTxOf == [e \in Submitted |-> x1]
mcAccountOf == [x \in ClientTx |-> acc]
mcAt == [x \in ClientTx |-> 13]
mcWindowOf == [r \in Rule |-> [v \in Version |->
                  IF v = 1 THEN <<0, "unset">> ELSE <<2, "h">>]]

\* Days of four hours, weeks of two days, two years of a month of three days
\* and one of two.
mcCalendar == [d \in 0..9 |-> [year |-> d \div 5, month |-> IF d % 5 < 3 THEN 0 ELSE 1]]

\* Three instances: s2 repeats s1 while the only rule is edited; one submission
\* and failures, where r2 fires as r1; an evaluation of r1 alone.
mcInit == \/ PipelineInitWithout({g1}) /\ rules = {r1} /\ failures = MaxFailures
          \/ PipelineInitWithout({s2, g1}) /\ rules = {r1, r2} /\ failures = 0
          \/ PipelineInitWithout({s1, s2}) /\ rules = {r1} /\ failures = MaxFailures
mcSpec == mcInit /\ [][PipelineNext]_pipelineVars /\ PipelineFairness
=============================================================================
