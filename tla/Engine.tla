-------------------------------- MODULE Engine --------------------------------
(***************************************************************************)
(* The evaluation of a transaction by the rules of its organization:       *)
(* TransactionsService.createAndEvaluate (store, evaluate, publish) and    *)
(* EngineController's two requests, which only evaluate (all rules, or one)*)
(* what they are sent.                                                     *)
(*                                                                         *)
(* A version of a rule stands for its effective configuration. How stale   *)
(* the rules are that getCachedRules returns is left open here: it is the  *)
(* subject of RuleCache. Conditions and facts are abstracted to the three  *)
(* ways in which the evaluation of a rule can end.                         *)
(***************************************************************************)
EXTENDS Naturals, FiniteSets

CONSTANTS
    Eval,           \* the evaluations asked for
    Submitted,      \* those of stored transactions
    Single,         \* those of one rule, POST /engine/evaluate/:ruleId
    Rule,
    Target,         \* the rule each of Single names
    NamedIn,        \* the rule that a rule's event names: itself, unless the
                    \*   params of its event have a ruleId of their own
    Versions        \* bound: how many configurations each rule will have

ASSUME EngineAssumption ==
    /\ IsFiniteSet(Rule)
    /\ Submitted \subseteq Eval
    /\ Single \subseteq Eval \ Submitted
    /\ Target \in [Single -> Rule]
    /\ NamedIn \in [Rule -> Rule]
    /\ Versions \in [Rule -> Nat \ {0}]

Version == UNION {1..Versions[r] : r \in Rule}

VARIABLES
    rules,      \* rows of the rules table
    version,    \* the configuration of each rule
    stage,      \* where each evaluation is
    loaded,     \* the rules it evaluates, with their configurations
    outcome,    \* how the evaluation of each of them ended
    result,     \* the EvaluationResult
    outbox,     \* events handed to the client of the alerts queue
    emitted     \* ghost: every event that ever was

engine == <<stage, loaded, outcome, result>>
vars == <<rules, version, engine, outbox, emitted>>

\* An alert event: the evaluation, the rule that fired, its configuration.
Event == {m \in Submitted \X Rule \X Version : m[3] <= Versions[m[2]]}

Unloaded == [r \in {} |-> 1]
NoOutcome == [r \in Rule |-> "none"]
NoResult == [success |-> FALSE, events |-> {}, failed |-> {}, count |-> 0]

\* Those in off are never asked for.
InitWithout(off) ==
    /\ rules \in SUBSET Rule
    /\ version = [r \in Rule |-> 1]
    /\ stage = [e \in Eval |-> IF e \in off THEN "dead" ELSE "idle"]
    /\ loaded = [e \in Eval |-> Unloaded]
    /\ outcome = [e \in Eval |-> NoOutcome]
    /\ result = [e \in Eval |-> NoResult]
    /\ outbox = {}
    /\ emitted = {}

Init == InitWithout({})

Goto(e, s) == stage' = [stage EXCEPT ![e] = s]
Loads(e) == DOMAIN loaded[e]

Ended(e, how) == {r \in Loads(e) : outcome[e][r] = how}

\* buildResult
Result(fired, failed, count) ==
    [success |-> failed = {}, events |-> fired, failed |-> failed, count |-> count]

-----------------------------------------------------------------------------
\* A request arrives. A transaction is stored first; when the INSERT fails the
\* client gets an error and nothing is evaluated, as if it had not called.
Call(e) ==
    /\ stage[e] = "idle"
    /\ Goto(e, "load")
    /\ UNCHANGED <<rules, version, loaded, outcome, result, outbox, emitted>>

\* Fault: what was loaded is kept, the outcomes are not.
DieHalf(e) ==
    /\ stage[e] \in {"load", "run"}
    /\ Goto(e, "dead")
    /\ outcome' = [outcome EXCEPT ![e] = NoOutcome]
    /\ UNCHANGED <<rules, version, loaded, result, outbox, emitted>>

\* The process dies before the evaluation is over: the client has no answer.
\* Nothing resumes the evaluation of what was stored.
Die(e) ==
    /\ stage[e] \in {"load", "run"}
    /\ Goto(e, "dead")
    /\ loaded' = [loaded EXCEPT ![e] = Unloaded]
    /\ outcome' = [outcome EXCEPT ![e] = NoOutcome]
    /\ UNCHANGED <<rules, version, result, outbox, emitted>>

\* What the cache or the tables may give: all the rules there are, and, from
\* the cache, rules deleted since and configurations replaced since.
Loadable ==
    {f \in UNION {[s -> Version] : s \in {t \in SUBSET Rule : rules \subseteq t}} :
        \A r \in DOMAIN f : f[r] <= version[r]}

\* evaluateRule reads its rule and its configuration from the tables.
LoadableAlone(r) ==
    IF r \in rules THEN {[x \in {r} |-> version[r]]} ELSE {}

Load(e) ==
    /\ stage[e] = "load"
    /\ \E f \in IF e \in Single THEN LoadableAlone(Target[e]) ELSE Loadable :
          /\ loaded' = [loaded EXCEPT ![e] = f]
          /\ outcome' = [outcome EXCEPT ![e] =
                [r \in Rule |-> IF r \in DOMAIN f THEN "pending" ELSE "none"]]
    /\ Goto(e, "run")
    /\ UNCHANGED <<rules, version, result, outbox, emitted>>

\* The rules cannot be read, or there is no such rule. evaluate answers an empty
\* result without failures, evaluateRule one in which its rule failed.
LoadFails(e) ==
    /\ stage[e] = "load"
    /\ Goto(e, "done")
    /\ result' = [result EXCEPT ![e] =
                     Result({}, IF e \in Single THEN {Target[e]} ELSE {}, 0)]
    /\ UNCHANGED <<rules, version, loaded, outcome, outbox, emitted>>

\* The engine of one rule ends: its event, none, or an exception (an operator or
\* fact that is not known, a query of the history, an account or a list).
RuleEnds(e, r) ==
    /\ stage[e] = "run"
    /\ r \in Ended(e, "pending")
    /\ \E how \in {"fired", "silent", "failed"} :
          outcome' = [outcome EXCEPT ![e][r] = how]
    /\ UNCHANGED <<rules, version, stage, loaded, result, outbox, emitted>>

\* Fault: evaluations by request publish, too.
PublishesAlways(e, fired) == {<<e, r, loaded[e][r]>> : r \in fired}

\* publishAlertEvents: one message for each event, for stored transactions only.
Publishes(e, fired) ==
    IF e \in Submitted THEN {<<e, r, loaded[e][r]>> : r \in fired} ELSE {}

Publish(e, fired) ==
    /\ outbox' = outbox \cup Publishes(e, fired)
    /\ emitted' = emitted \cup Publishes(e, fired)

\* The events of fired rules, in their configurations.
EventsOf(e, fired) == {<<r, NamedIn[r], loaded[e][r]>> : r \in fired}

\* Fault: Promise.all instead of Promise.allSettled: the first failure ends it.
FinishAtFirstFailure(e) ==
    /\ stage[e] = "run"
    /\ Ended(e, "pending") = {} \/ Ended(e, "failed") # {}
    /\ LET fired == IF Ended(e, "failed") = {} THEN Ended(e, "fired") ELSE {} IN
       /\ result' = [result EXCEPT ![e] = Result(EventsOf(e, fired), {}, Cardinality(fired))]
       /\ Publish(e, fired)
    /\ Goto(e, "done")
    /\ UNCHANGED <<rules, version, loaded, outcome>>

\* Every promise is settled: events and failed rules are collected, the events
\* of a stored transaction published.
Finish(e) ==
    /\ stage[e] = "run"
    /\ Ended(e, "pending") = {}
    /\ result' = [result EXCEPT ![e] =
                     Result(EventsOf(e, Ended(e, "fired")), Ended(e, "failed"),
                            IF e \in Single /\ Ended(e, "failed") # {} THEN 0
                            ELSE Cardinality(Loads(e)))]
    /\ Publish(e, Ended(e, "fired"))
    /\ Goto(e, "done")
    /\ UNCHANGED <<rules, version, loaded, outcome>>

-----------------------------------------------------------------------------
\* PATCH or PUT of a rule, its template or an override of it.
EditRule(r) ==
    /\ r \in rules
    /\ version[r] < Versions[r]
    /\ version' = [version EXCEPT ![r] = @ + 1]
    /\ UNCHANGED <<rules, engine, outbox, emitted>>

DeleteRule(r) ==
    /\ r \in rules
    /\ rules' = rules \ {r}
    /\ UNCHANGED <<version, engine, outbox, emitted>>

\* The client sends a message of the outbox, or loses it with its process.
Forget(m) ==
    /\ m \in outbox
    /\ outbox' = outbox \ {m}
    /\ UNCHANGED <<rules, version, engine, emitted>>

Evaluate(e) ==
    \/ Call(e) \/ Die(e) \/ Load(e) \/ LoadFails(e) \/ Finish(e)
    \/ \E r \in Rule : RuleEnds(e, r)

Next ==
    \/ \E e \in Eval : Evaluate(e)
    \/ \E r \in Rule : EditRule(r) \/ DeleteRule(r)
    \/ \E m \in Event : Forget(m)

Spec == Init /\ [][Next]_vars

-----------------------------------------------------------------------------
(* Properties *)

Outcome == {"none", "pending", "fired", "silent", "failed"}
EvaluationResult ==
    [success : BOOLEAN, events : SUBSET (Rule \X Rule \X Version),
     failed : SUBSET Rule, count : Nat]

\* Every variable has its type; only rules that were loaded have an outcome, in a
\* configuration the rule has or had, and what waits in the outbox was emitted.
TypeOK ==
    /\ rules \subseteq Rule
    /\ version \in [Rule -> Version]
    /\ \A r \in Rule : version[r] <= Versions[r]
    /\ stage \in [Eval -> {"idle", "load", "run", "done", "dead"}]
    /\ loaded \in [Eval -> UNION {[s -> Version] : s \in SUBSET Rule}]
    /\ outcome \in [Eval -> [Rule -> Outcome]]
    /\ \A e \in Eval : \A r \in Rule :
          /\ r \in Loads(e) => loaded[e][r] <= version[r]
          /\ outcome[e][r] # "none" <=> r \in Loads(e)
    /\ result \in [Eval -> EvaluationResult]
    /\ emitted \subseteq Event
    /\ outbox \subseteq emitted

\* Whether an EvaluationResult accounts for rules that ended as outcomes say.
Accounts(res, outcomes) ==
    /\ \A r \in DOMAIN outcomes :
          /\ outcomes[r] = "fired" <=> \E ev \in res.events : ev[1] = r
          /\ outcomes[r] = "failed" => r \in res.failed
          /\ outcomes[r] # "pending"
    /\ res.success = (res.failed = {})

\* Fail-open (ADR-010): when an answer is given, every rule that was loaded has
\* come to its own end in it. A rule that throws is reported as failed and hides
\* the event of no other; success means that nothing is reported as failed.
FailureIsIsolated ==
    \A e \in Eval : stage[e] = "done" => Accounts(result[e], outcome[e])

\* A message that was published is of a stored transaction whose client got an
\* answer with its event: evaluations by POST /engine/evaluate, and evaluations
\* cut short by a crash, alert nobody.
EmittedIsAnswered ==
    \A m \in emitted :
        /\ m[1] \in Submitted /\ stage[m[1]] = "done"
        /\ <<m[2], NamedIn[m[2]], m[3]>> \in result[m[1]].events
=============================================================================
