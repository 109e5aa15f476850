------------------------------ MODULE AlertBook ------------------------------
(***************************************************************************)
(* What the service promises of its alerts: a book in which an event, a    *)
(* decision of an analyst and the deletion of a rule are one step each, as *)
(* long as operations on its dedup key do not meet. Where they met, a late *)
(* writer may put back the count and the status it once read. Alerts takes *)
(* up to three queries for an operation, and implements this.              *)
(***************************************************************************)
EXTENDS Naturals

CONSTANTS
    Alert,          \* the rows there may be
    Key,
    Rule,
    KeyOf,          \* the dedup key of each alert
    RuleOf          \* the rule of each dedup key

Active == {"OPEN", "ACKNOWLEDGED"}
Status == Active \cup {"RESOLVED", "FALSE_POSITIVE"}

VARIABLES
    status,         \* of each alert, "absent" if it is not in the book
    hits,           \* what its hit_count says
    saves,          \* how many events were saved on it
    rules,          \* the rules there are
    met,            \* keys on which operations met
    reopened        \* alerts that were closed and made active again

vars == <<status, hits, saves, rules, met, reopened>>

Init ==
    /\ status = [a \in Alert |-> "absent"]
    /\ hits = [a \in Alert |-> 0]
    /\ saves = [a \in Alert |-> 0]
    /\ rules \in SUBSET Rule
    /\ met = {}
    /\ reopened = {}

\* The first event of a key opens an alert: there is no active one.
Open(a) ==
    /\ status[a] = "absent"
    /\ RuleOf[KeyOf[a]] \in rules
    /\ KeyOf[a] \in met \/ \A b \in Alert : KeyOf[b] = KeyOf[a] => status[b] \notin Active
    /\ status' = [status EXCEPT ![a] = "OPEN"]
    /\ hits' = [hits EXCEPT ![a] = 1]
    /\ saves' = [saves EXCEPT ![a] = 1]
    /\ UNCHANGED <<rules, met, reopened>>

\* Another one is a hit on it, and no hit is lost.
Hit(a) ==
    /\ status[a] \in Active
    /\ hits' = [hits EXCEPT ![a] = @ + 1]
    /\ saves' = [saves EXCEPT ![a] = @ + 1]
    /\ UNCHANGED <<status, rules, met, reopened>>

Becomes(a, s) ==
    /\ status' = [status EXCEPT ![a] = s]
    /\ reopened' = IF status[a] \notin Active /\ s \in Active
                   THEN reopened \cup {a} ELSE reopened

\* An analyst gives an alert any status.
Decide(a, s) ==
    /\ status[a] # "absent"
    /\ Becomes(a, s)
    /\ UNCHANGED <<hits, saves, rules, met>>

Meet(k) ==
    /\ met' = met \cup {k}
    /\ UNCHANGED <<status, hits, saves, rules, reopened>>

\* A handler or a request that met another writes back what it read: hits are
\* lost, but none is made up.
LateWrite(a, s) ==
    /\ KeyOf[a] \in met
    /\ status[a] # "absent"
    /\ Becomes(a, s)
    /\ \E n \in {saves[a], saves[a] + 1} :
          /\ saves' = [saves EXCEPT ![a] = n]
          /\ \E h \in 0..n : hits' = [hits EXCEPT ![a] = h]
    /\ UNCHANGED <<rules, met>>

\* With a rule go its alerts.
DeleteRule(u) ==
    /\ u \in rules
    /\ rules' = rules \ {u}
    /\ LET of == {a \in Alert : RuleOf[KeyOf[a]] = u} IN
       /\ status' = [a \in Alert |-> IF a \in of THEN "absent" ELSE status[a]]
       /\ hits' = [a \in Alert |-> IF a \in of THEN 0 ELSE hits[a]]
       /\ saves' = [a \in Alert |-> IF a \in of THEN 0 ELSE saves[a]]
    /\ UNCHANGED <<met, reopened>>

Next ==
    \/ \E a \in Alert : Open(a) \/ Hit(a)
    \/ \E a \in Alert, s \in Status : Decide(a, s) \/ LateWrite(a, s)
    \/ \E k \in Key : Meet(k)
    \/ \E u \in Rule : DeleteRule(u)

Spec == Init /\ [][Next]_vars

-----------------------------------------------------------------------------
(* Properties *)

\* A key has one active alert at most beside those an analyst closed and reopened,
\* unless operations on it met (processAlertEvent, updateStatus).
OneActive ==
    \A a, b \in Alert \ reopened :
        /\ status[a] \in Active /\ status[b] \in Active
        /\ KeyOf[a] = KeyOf[b] /\ KeyOf[a] \notin met
        => a = b

\* A hit count is the number of saved events, and no more where operations met.
HitsCounted ==
    \A a \in Alert : hits[a] <= saves[a] /\ (KeyOf[a] \notin met => hits[a] = saves[a])
=============================================================================
