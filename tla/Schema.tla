-------------------------------- MODULE Schema --------------------------------
(***************************************************************************)
(* The migrations of the database. Every instance of the application, and  *)
(* migration:run, selects what has been executed, sorts what is pending by *)
(* the timestamp in its name and executes it in one transaction, which one *)
(* failing statement rolls back. An instance tries again a few times; the  *)
(* database may be new, or one that an earlier version has migrated.       *)
(***************************************************************************)
EXTENDS Naturals, SequencesExt

CONSTANTS
    Instance,       \* instances that start, and runs of migration:run
    MaxTries,       \* attempts of each to connect and migrate
    MaxFailures     \* bound: queries that fail, and reverts

-----------------------------------------------------------------------------
\* What each migration creates, and the tables its foreign keys refer to.
CreateAlerts == [table |-> "alerts", refers |-> {"rules", "transactions"}]
CreateListEntries == [table |-> "list_entries", refers |-> {"organizations"}]
CreateOrganizations == [table |-> "organizations", refers |-> {}]
CreateRuleTemplates == [table |-> "rule_templates", refers |-> {}]
CreateTemplateOverrides == [table |-> "template_overrides", refers |-> {"rule_templates"}]
CreateRules == [table |-> "rules", refers |-> {"rule_templates"}]
CreateTransactions == [table |-> "transactions", refers |-> {}]

\* By timestamp: 1738540800000, 1738627200000, 1769720994153, 1769882048834, ...
ByTimestamp ==
    <<CreateAlerts, CreateListEntries, CreateOrganizations, CreateRuleTemplates,
      CreateTemplateOverrides, CreateRules, CreateTransactions>>

\* In the order in which the versions of the application brought them.
ByVersion ==
    <<CreateOrganizations, CreateRuleTemplates, CreateTemplateOverrides, CreateRules,
      CreateTransactions, CreateAlerts, CreateListEntries>>

VARIABLES
    executed,   \* the rows of the migrations table, in the order of their ids
    pc,         \* where each instance is
    pending,    \* what it still has to execute
    made,       \* what its open transaction has executed
    tries,      \* how often it has started
    failures,
    disturbed   \* ghost: instances of which a query failed, or that ran while
                \*   another one did or a migration was reverted

vars == <<executed, pc, pending, made, tries, failures, disturbed>>

-----------------------------------------------------------------------------
Tables(ms) == {m.table : m \in ToSet(ms)}
Running == {i \in Instance : pc[i] = "run"}

Init ==
    /\ \E n \in 0..Len(ByVersion) : executed = SubSeq(ByVersion, 1, n)
    /\ pc = [i \in Instance |-> "off"]
    /\ pending = [i \in Instance |-> <<>>]
    /\ made = [i \in Instance |-> <<>>]
    /\ tries = [i \in Instance |-> 0]
    /\ failures = 0
    /\ disturbed = {}

\* Connects, and selects the migrations that have been executed.
Start(i) ==
    /\ pc[i] = "off"
    /\ pc' = [pc EXCEPT ![i] = "run"]
    /\ pending' = [pending EXCEPT ![i] =
                      SelectSeq(ByTimestamp, LAMBDA m : m \notin ToSet(executed))]
    /\ tries' = [tries EXCEPT ![i] = @ + 1]
    /\ disturbed' = IF Running = {} THEN disturbed ELSE disturbed \cup Running \cup {i}
    /\ UNCHANGED <<executed, made, failures>>

\* The transaction is rolled back; the instance tries again or stops.
Rollback(i) ==
    /\ pc' = [pc EXCEPT ![i] = IF tries[i] < MaxTries THEN "off" ELSE "stopped"]
    /\ made' = [made EXCEPT ![i] = <<>>]
    /\ UNCHANGED <<executed, pending, tries>>

\* up() of the next migration, once no other open transaction has made its table.
Up(i) ==
    /\ pc[i] = "run" /\ pending[i] # <<>>
    /\ LET m == Head(pending[i]) IN
       /\ \A j \in Instance \ {i} : m \notin ToSet(made[j])
       /\ IF /\ m.table \notin Tables(executed)
             /\ m.refers \subseteq Tables(executed) \cup Tables(made[i])
          THEN /\ made' = [made EXCEPT ![i] = Append(@, m)]
               /\ pending' = [pending EXCEPT ![i] = Tail(@)]
               /\ UNCHANGED <<executed, pc, tries>>
          ELSE Rollback(i)
    /\ UNCHANGED <<failures, disturbed>>

Commit(i) ==
    /\ pc[i] = "run" /\ pending[i] = <<>>
    /\ executed' = executed \o made[i]
    /\ pc' = [pc EXCEPT ![i] = "up"]
    /\ made' = [made EXCEPT ![i] = <<>>]
    /\ UNCHANGED <<pending, tries, failures, disturbed>>

\* A query fails, or the database is away.
QueryFails(i) ==
    /\ pc[i] = "run"
    /\ failures < MaxFailures
    /\ failures' = failures + 1
    /\ disturbed' = disturbed \cup {i}
    /\ Rollback(i)

\* migration:revert, down() of the migration executed last: a table that another
\* one refers to is not dropped.
Revert ==
    /\ executed # <<>> /\ failures < MaxFailures
    /\ \A m \in ToSet(executed) : Last(executed).table \notin m.refers
    /\ executed' = Front(executed)
    /\ failures' = failures + 1
    /\ disturbed' = disturbed \cup Running
    /\ UNCHANGED <<pc, pending, made, tries>>

Next ==
    \/ \E i \in Instance : Start(i) \/ Up(i) \/ Commit(i) \/ QueryFails(i)
    \/ Revert

Spec == Init /\ [][Next]_vars

-----------------------------------------------------------------------------
\* README.md, Development Setup: after "docker-compose up -d postgres ..." comes
\* "npm run migration:run", then "npm run start:dev". Whatever version of the
\* database it finds, a run that nothing disturbs migrates it.
MigrationRuns == \A i \in Instance : pc[i] = "stopped" => i \in disturbed
=============================================================================
