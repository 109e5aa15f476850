----------------------------- MODULE EngineProofs -----------------------------
(***************************************************************************)
(* What Engine promises for any number of evaluations, rules and           *)
(* configurations.                                                         *)
(***************************************************************************)
EXTENDS Engine, FiniteSetTheorems, TLAPS

\* Before its rules are loaded an evaluation holds none.
LoadsLate == \A e \in Eval : stage[e] \in {"idle", "load"} => Loads(e) = {}

Inv == TypeOK /\ LoadsLate /\ FailureIsIsolated /\ EmittedIsAnswered

LEMMA VersionsAreNumbers == \A v \in Version : v \in Nat \ {0}
BY EngineAssumption DEF Version

LEMMA InitInv == Init => Inv
<1> SUFFICES ASSUME Init PROVE Inv
  OBVIOUS
<1> USE EngineAssumption DEF Init, InitWithout, Version
<1>1. \A e \in Eval : loaded[e] = Unloaded /\ Loads(e) = {}
  BY DEF Unloaded, Loads
<1>2. Unloaded \in [{} -> Version]
  BY DEF Unloaded
<1>3. TypeOK
  <2>1. version \in [Rule -> Version] /\ \A r \in Rule : version[r] <= Versions[r]
    BY Z3
  <2>2. loaded \in [Eval -> UNION {[s -> Version] : s \in SUBSET Rule}]
    BY <1>2
  <2>3. outcome \in [Eval -> [Rule -> Outcome]] /\ \A e \in Eval : \A r \in Rule : outcome[e][r] = "none"
    BY DEF NoOutcome, Outcome
  <2>4. result \in [Eval -> EvaluationResult]
    BY DEF NoResult, EvaluationResult
  <2> QED
    BY <1>1, <2>1, <2>2, <2>3, <2>4 DEF TypeOK
<1>4. LoadsLate /\ FailureIsIsolated
  BY <1>1 DEF LoadsLate, FailureIsIsolated
<1>5. EmittedIsAnswered
  BY DEF EmittedIsAnswered
<1> QED
  BY <1>3, <1>4, <1>5 DEF Inv

-----------------------------------------------------------------------------
(* Loading: what an evaluation may be given is a configuration of rules *)

LEMMA GivenRules ==
    ASSUME TypeOK, NEW e \in Eval,
           NEW f \in IF e \in Single THEN LoadableAlone(Target[e]) ELSE Loadable
    PROVE  /\ DOMAIN f \in SUBSET Rule
           /\ f \in [DOMAIN f -> Version]
           /\ \A r \in DOMAIN f : f[r] <= version[r]
<1> USE EngineAssumption
<1>1. CASE e \in Single
  <2>1. Target[e] \in Rule /\ version[Target[e]] \in Version
    BY <1>1 DEF TypeOK
  <2>2. version[Target[e]] <= version[Target[e]]
    BY <2>1 DEF Version
  <2>3. f = [x \in {Target[e]} |-> version[x]]
    BY <1>1 DEF LoadableAlone
  <2> QED
    BY <2>1, <2>2, <2>3
<1>2. CASE e \notin Single
  BY <1>2 DEF Loadable
<1> QED
  BY <1>1, <1>2

LEMMA LoadInv ==
    ASSUME Inv, NEW e \in Eval, Load(e) PROVE Inv'
<1> USE EngineAssumption
<1>1. PICK f \in IF e \in Single THEN LoadableAlone(Target[e]) ELSE Loadable :
          /\ loaded' = [loaded EXCEPT ![e] = f]
          /\ outcome' = [outcome EXCEPT ![e] =
                [r \in Rule |-> IF r \in DOMAIN f THEN "pending" ELSE "none"]]
  BY DEF Load
<1>2. /\ DOMAIN f \in SUBSET Rule
      /\ f \in [DOMAIN f -> Version]
      /\ \A r \in DOMAIN f : f[r] <= version[r]
  BY <1>1, GivenRules DEF Inv
<1>3. \A d \in Eval : d # e => /\ loaded'[d] = loaded[d] /\ outcome'[d] = outcome[d]
                              /\ stage'[d] = stage[d] /\ Loads(d)' = Loads(d)
  BY <1>1 DEF Load, Goto, Loads, Inv, TypeOK
<1>4. /\ loaded'[e] = f /\ Loads(e)' = DOMAIN f /\ stage'[e] = "run"
      /\ outcome'[e] = [r \in Rule |-> IF r \in DOMAIN f THEN "pending" ELSE "none"]
  BY <1>1 DEF Load, Goto, Loads, Inv, TypeOK
<1>5. TypeOK'
  <2>1. stage' \in [Eval -> {"idle", "load", "run", "done", "dead"}]
    BY DEF Load, Goto, Inv, TypeOK
  <2>2. loaded' \in [Eval -> UNION {[s -> Version] : s \in SUBSET Rule}]
    BY <1>1, <1>2 DEF Inv, TypeOK
  <2>3. outcome' \in [Eval -> [Rule -> Outcome]]
    BY <1>1 DEF Inv, TypeOK, Outcome
  <2>4. \A d \in Eval : \A r \in Rule :
            /\ r \in Loads(d)' => loaded'[d][r] <= version[r]
            /\ outcome'[d][r] # "none" <=> r \in Loads(d)'
    <3> SUFFICES ASSUME NEW d \in Eval, NEW r \in Rule
                 PROVE  /\ r \in Loads(d)' => loaded'[d][r] <= version[r]
                        /\ outcome'[d][r] # "none" <=> r \in Loads(d)'
      OBVIOUS
    <3>1. CASE d = e
      <4>1. r \in Loads(d)' <=> r \in DOMAIN f
        BY <3>1, <1>4
      <4>2. outcome'[d][r] = IF r \in DOMAIN f THEN "pending" ELSE "none"
        BY <3>1, <1>4
      <4>3. loaded'[d] = f
        BY <3>1, <1>4
      <4> QED
        BY <4>1, <4>2, <4>3, <1>2
    <3>2. CASE d # e
      BY <3>2, <1>3 DEF Inv, TypeOK
    <3> QED
      BY <3>1, <3>2
  <2> QED
    BY <2>1, <2>2, <2>3, <2>4 DEF Load, Inv, TypeOK
<1>6. LoadsLate'
  BY <1>3, <1>4 DEF LoadsLate, Inv
<1>7. FailureIsIsolated'
  BY <1>3, <1>4 DEF FailureIsIsolated, Inv, Load
<1>8. EmittedIsAnswered'
  <2> SUFFICES ASSUME NEW m \in emitted
               PROVE  /\ m[1] \in Submitted /\ stage'[m[1]] = "done"
                      /\ <<m[2], NamedIn[m[2]], m[3]>> \in result[m[1]].events
    BY DEF EmittedIsAnswered, Load
  <2>1. stage[e] = "load"
    BY DEF Load
  <2> QED
    BY <2>1, <1>3 DEF EmittedIsAnswered, Inv
<1> QED
  BY <1>5, <1>6, <1>7, <1>8 DEF Inv

-----------------------------------------------------------------------------
(* The other steps of an evaluation *)

\* What no step but e's own may touch, and Inv about it.
LEMMA OthersKept ==
    ASSUME Inv, NEW e \in Eval, NEW s \in {"idle", "load", "run", "done", "dead"},
           Goto(e, s)
    PROVE  /\ stage' \in [Eval -> {"idle", "load", "run", "done", "dead"}]
           /\ stage'[e] = s
           /\ \A d \in Eval : d # e => stage'[d] = stage[d]
BY DEF Inv, TypeOK, Goto

LEMMA CallInv ==
    ASSUME Inv, NEW e \in Eval, Call(e) PROVE Inv'
<1>1. /\ stage' \in [Eval -> {"idle", "load", "run", "done", "dead"}]
      /\ stage'[e] = "load" /\ stage[e] = "idle"
      /\ \A d \in Eval : d # e => stage'[d] = stage[d]
  BY OthersKept DEF Call
<1>2. TypeOK'
  BY <1>1 DEF Call, Inv, TypeOK, Loads
<1>3. LoadsLate' /\ FailureIsIsolated'
  BY <1>1 DEF Call, Inv, LoadsLate, FailureIsIsolated, Loads
<1>4. EmittedIsAnswered'
  BY <1>1, EngineAssumption DEF Call, Inv, EmittedIsAnswered
<1> QED
  BY <1>2, <1>3, <1>4 DEF Inv

LEMMA DieInv ==
    ASSUME Inv, NEW e \in Eval, Die(e) PROVE Inv'
<1>1. /\ stage' \in [Eval -> {"idle", "load", "run", "done", "dead"}]
      /\ stage'[e] = "dead" /\ stage[e] \in {"load", "run"}
      /\ \A d \in Eval : d # e => stage'[d] = stage[d]
  BY OthersKept DEF Die
<1>2. /\ loaded'[e] = Unloaded /\ outcome'[e] = NoOutcome /\ Loads(e)' = {}
      /\ \A d \in Eval : d # e => /\ loaded'[d] = loaded[d] /\ outcome'[d] = outcome[d]
                                 /\ Loads(d)' = Loads(d)
  BY DEF Die, Inv, TypeOK, Loads, Unloaded
<1>3. TypeOK'
  <2>1. loaded' \in [Eval -> UNION {[s -> Version] : s \in SUBSET Rule}]
    <3>1. Unloaded \in [{} -> Version]
      BY DEF Unloaded
    <3> QED
      BY <3>1 DEF Die, Inv, TypeOK
  <2>2. outcome' \in [Eval -> [Rule -> Outcome]]
    BY DEF Die, Inv, TypeOK, Outcome, NoOutcome
  <2>3. \A d \in Eval : \A r \in Rule :
            /\ r \in Loads(d)' => loaded'[d][r] <= version[r]
            /\ outcome'[d][r] # "none" <=> r \in Loads(d)'
    BY <1>2 DEF Inv, TypeOK, NoOutcome
  <2> QED
    BY <1>1, <2>1, <2>2, <2>3 DEF Die, Inv, TypeOK
<1>4. LoadsLate' /\ FailureIsIsolated'
  BY <1>1, <1>2 DEF Die, Inv, LoadsLate, FailureIsIsolated
<1>5. EmittedIsAnswered'
  BY <1>1, EngineAssumption DEF Die, Inv, EmittedIsAnswered
<1> QED
  BY <1>3, <1>4, <1>5 DEF Inv

LEMMA RuleEndsInv ==
    ASSUME Inv, NEW e \in Eval, NEW r \in Rule, RuleEnds(e, r) PROVE Inv'
<1>1. PICK how \in {"fired", "silent", "failed"} : outcome' = [outcome EXCEPT ![e][r] = how]
  BY DEF RuleEnds
<1>2. /\ stage[e] = "run" /\ r \in Loads(e)
      /\ \A d \in Eval : Loads(d)' = Loads(d)
  BY DEF RuleEnds, Ended, Loads
<1>3. TypeOK'
  <2>1. outcome' \in [Eval -> [Rule -> Outcome]]
    BY <1>1 DEF Inv, TypeOK, Outcome
  <2>2. \A d \in Eval : \A x \in Rule : outcome'[d][x] # "none" <=> x \in Loads(d)'
    BY <1>1, <1>2 DEF Inv, TypeOK
  <2> QED
    BY <1>2, <2>1, <2>2 DEF RuleEnds, Inv, TypeOK
<1>4. \A d \in Eval : stage[d] = "done" => outcome'[d] = outcome[d]
  BY <1>1, <1>2 DEF Inv, TypeOK
<1>5. LoadsLate' /\ FailureIsIsolated' /\ EmittedIsAnswered'
  BY <1>2, <1>4 DEF RuleEnds, Inv, LoadsLate, FailureIsIsolated, EmittedIsAnswered
<1> QED
  BY <1>3, <1>5 DEF Inv


\* A result that is given is of the evaluation's own rules.
LEMMA ResultType ==
    ASSUME Inv, NEW e \in Eval, NEW fired, NEW failed, NEW count \in Nat,
           fired \subseteq Loads(e), failed \subseteq Loads(e)
    PROVE  Result(EventsOf(e, fired), failed, count) \in EvaluationResult
<1>1. Loads(e) \subseteq Rule /\ loaded[e] \in [Loads(e) -> Version]
  BY DEF Inv, TypeOK, Loads
<1>2. EventsOf(e, fired) \subseteq Rule \X Rule \X Version
  BY <1>1, EngineAssumption DEF EventsOf
<1> QED
  BY <1>1, <1>2 DEF Result, EvaluationResult

LEMMA LoadFailsInv ==
    ASSUME Inv, NEW e \in Eval, LoadFails(e) PROVE Inv'
<1>1. /\ stage' \in [Eval -> {"idle", "load", "run", "done", "dead"}]
      /\ stage'[e] = "done" /\ stage[e] = "load"
      /\ \A d \in Eval : d # e => stage'[d] = stage[d]
  BY OthersKept DEF LoadFails
<1> DEFINE failed == IF e \in Single THEN {Target[e]} ELSE {}
<1>2. /\ result'[e] = Result({}, failed, 0)
      /\ \A d \in Eval : d # e => result'[d] = result[d]
  BY DEF LoadFails, Inv, TypeOK
<1>3. result' \in [Eval -> EvaluationResult]
  <2>1. failed \subseteq Rule
    BY EngineAssumption
  <2>2. Result({}, failed, 0) \in EvaluationResult
    BY <2>1 DEF Result, EvaluationResult
  <2> QED
    BY <2>2 DEF LoadFails, Inv, TypeOK
<1>4. TypeOK'
  BY <1>1, <1>3 DEF LoadFails, Inv, TypeOK, Loads
<1>5. LoadsLate'
  BY <1>1 DEF LoadFails, Inv, LoadsLate, Loads
<1>6. FailureIsIsolated'
  <2>1. Accounts(Result({}, failed, 0), outcome[e])
    <3>1. \A r \in Rule : outcome[e][r] = "none"
      BY <1>1 DEF Inv, TypeOK, LoadsLate
    <3>2. DOMAIN outcome[e] = Rule
      BY DEF Inv, TypeOK
    <3> QED
      BY <3>1, <3>2 DEF Accounts, Result
  <2>2. outcome' = outcome
    BY DEF LoadFails
  <2> QED
    BY <2>1, <2>2, <1>1, <1>2 DEF Inv, FailureIsIsolated
<1>7. EmittedIsAnswered'
  BY <1>1, <1>2, EngineAssumption DEF LoadFails, Inv, EmittedIsAnswered
<1> QED
  BY <1>4, <1>5, <1>6, <1>7 DEF Inv

LEMMA FinishInv ==
    ASSUME Inv, NEW e \in Eval, Finish(e) PROVE Inv'
<1> USE EngineAssumption
<1> DEFINE fired == Ended(e, "fired")
           failed == Ended(e, "failed")
           count == IF e \in Single /\ failed # {} THEN 0 ELSE Cardinality(Loads(e))
<1>1. /\ stage' \in [Eval -> {"idle", "load", "run", "done", "dead"}]
      /\ stage'[e] = "done" /\ stage[e] = "run"
      /\ \A d \in Eval : d # e => stage'[d] = stage[d]
  BY OthersKept DEF Finish
<1>2. /\ result'[e] = Result(EventsOf(e, fired), failed, count)
      /\ \A d \in Eval : d # e => result'[d] = result[d]
  BY DEF Finish, Inv, TypeOK
<1>3. fired \subseteq Loads(e) /\ failed \subseteq Loads(e)
  BY DEF Ended
<1>4. Loads(e) \subseteq Rule /\ loaded[e] \in [Loads(e) -> Version]
  BY DEF Inv, TypeOK, Loads
<1>5. count \in Nat
  BY <1>4, EngineAssumption, FS_Subset, FS_CardinalityType
<1>6. Publishes(e, fired) \subseteq Event
  <2> SUFFICES ASSUME e \in Submitted, NEW r \in fired
               PROVE  <<e, r, loaded[e][r]>> \in Event
    BY DEF Publishes
  <2>1. r \in Loads(e) /\ r \in Rule
    BY <1>3, <1>4
  <2>2. loaded[e][r] \in Version /\ version[r] \in Version /\ Versions[r] \in Nat
    BY <2>1, <1>4 DEF Inv, TypeOK
  <2>3. loaded[e][r] <= version[r] /\ version[r] <= Versions[r]
    BY <2>1 DEF Inv, TypeOK
  <2>4. loaded[e][r] <= Versions[r]
    BY <2>2, <2>3, VersionsAreNumbers
  <2> QED
    BY <2>1, <2>2, <2>4 DEF Event
<1>7. TypeOK'
  <2>1. result' \in [Eval -> EvaluationResult]
    <3>1. Result(EventsOf(e, fired), failed, count) \in EvaluationResult
      BY <1>3, <1>5, ResultType
    <3> QED
      BY <3>1 DEF Finish, Inv, TypeOK
  <2>2. emitted' \subseteq Event /\ outbox' \subseteq emitted'
    BY <1>6 DEF Finish, Publish, Inv, TypeOK
  <2> QED
    BY <1>1, <2>1, <2>2 DEF Finish, Inv, TypeOK, Loads
<1>8. LoadsLate'
  BY <1>1 DEF Finish, Inv, LoadsLate, Loads
<1>9. FailureIsIsolated'
  <2>1. Accounts(Result(EventsOf(e, fired), failed, count), outcome[e])
    <3>1. DOMAIN outcome[e] = Rule /\ \A r \in Rule : r \notin Loads(e) => outcome[e][r] = "none"
      BY DEF Inv, TypeOK
    <3>2. ASSUME NEW r \in Rule
          PROVE  /\ outcome[e][r] = "fired" <=> r \in fired
                 /\ outcome[e][r] = "failed" <=> r \in failed
                 /\ outcome[e][r] # "pending"
      BY <3>1 DEF Finish, Ended
    <3>3. ASSUME NEW r \in Rule
          PROVE  (\E ev \in EventsOf(e, fired) : ev[1] = r) <=> r \in fired
      <4>1. ASSUME r \in fired PROVE \E ev \in EventsOf(e, fired) : ev[1] = r
        <5>1. <<r, NamedIn[r], loaded[e][r]>> \in EventsOf(e, fired)
          BY <4>1 DEF EventsOf
        <5> QED
          BY <5>1
      <4>2. ASSUME NEW ev \in EventsOf(e, fired), ev[1] = r PROVE r \in fired
        BY <4>2 DEF EventsOf
      <4> QED
        BY <4>1, <4>2
    <3> QED
      BY <3>1, <3>2, <3>3 DEF Accounts, Result
  <2>2. outcome' = outcome
    BY DEF Finish
  <2> QED
    BY <2>1, <2>2, <1>1, <1>2 DEF Inv, FailureIsIsolated
<1>10. EmittedIsAnswered'
  <2> SUFFICES ASSUME NEW m \in emitted'
               PROVE  /\ m[1] \in Submitted /\ stage'[m[1]] = "done"
                      /\ <<m[2], NamedIn[m[2]], m[3]>> \in result'[m[1]].events
    BY DEF EmittedIsAnswered
  <2>1. CASE m \in emitted
    <3>1. m[1] \in Submitted /\ stage[m[1]] = "done"
          /\ <<m[2], NamedIn[m[2]], m[3]>> \in result[m[1]].events
      BY <2>1 DEF Inv, EmittedIsAnswered
    <3>2. m[1] \in Eval /\ m[1] # e
      BY <3>1, <1>1
    <3> QED
      BY <3>1, <3>2, <1>1, <1>2
  <2>2. CASE m \in Publishes(e, fired)
    <3>1. PICK r \in fired : e \in Submitted /\ m = <<e, r, loaded[e][r]>>
      BY <2>2 DEF Publishes
    <3>2. <<r, NamedIn[r], loaded[e][r]>> \in EventsOf(e, fired)
      BY DEF EventsOf
    <3>3. result'[e].events = EventsOf(e, fired)
      BY <1>2 DEF Result
    <3>4. m[1] = e /\ m[2] = r /\ m[3] = loaded[e][r]
      BY <3>1
    <3> QED
      BY <3>1, <3>2, <3>3, <3>4, <1>1
  <2> QED
    BY <2>1, <2>2 DEF Finish, Publish
<1> QED
  BY <1>7, <1>8, <1>9, <1>10 DEF Inv

-----------------------------------------------------------------------------
(* The tables, the outbox, and the theorems *)

LEMMA TablesInv ==
    ASSUME Inv, NEW r \in Rule, EditRule(r) \/ DeleteRule(r) PROVE Inv'
<1> USE EngineAssumption
<1>1. CASE EditRule(r)
  <2>1. version[r] \in Version /\ Versions[r] \in Nat \ {0} /\ version[r] < Versions[r]
    BY <1>1 DEF EditRule, Inv, TypeOK
  <2>2. version[r] \in Nat \ {0}
    BY <2>1, VersionsAreNumbers
  <2>3. version[r] + 1 \in 1..Versions[r]
    BY <2>1, <2>2
  <2>4. version[r] + 1 \in Version
    BY <2>3 DEF Version
  <2>5. version' = [version EXCEPT ![r] = version[r] + 1]
    BY <1>1 DEF EditRule
  <2>6. version' \in [Rule -> Version]
    BY <2>4, <2>5 DEF Inv, TypeOK
  <2>7. \A x \in Rule : version'[x] <= Versions[x]
    BY <2>3, <2>5 DEF Inv, TypeOK
  <2>8. \A d \in Eval : \A x \in Rule : x \in Loads(d) => loaded[d][x] <= version'[x]
    <3> SUFFICES ASSUME NEW d \in Eval, NEW x \in Rule, x \in Loads(d)
                 PROVE  loaded[d][x] <= version'[x]
      OBVIOUS
    <3>1. loaded[d][x] <= version[x] /\ loaded[d][x] \in Version /\ version[x] \in Version
      BY DEF Inv, TypeOK, Loads
    <3>2. loaded[d][x] \in Nat /\ version[x] \in Nat
      BY <3>1, VersionsAreNumbers
    <3>3. version'[x] = IF x = r THEN version[x] + 1 ELSE version[x]
      BY <2>5 DEF Inv, TypeOK
    <3> QED
      BY <3>1, <3>2, <3>3
  <2>9. TypeOK'
    BY <1>1, <2>6, <2>7, <2>8 DEF EditRule, engine, Inv, TypeOK, Loads
  <2> QED
    BY <1>1, <2>9 DEF EditRule, engine, Inv, LoadsLate, FailureIsIsolated, EmittedIsAnswered, Loads
<1>2. CASE DeleteRule(r)
  <2>1. TypeOK'
    BY <1>2 DEF DeleteRule, engine, Inv, TypeOK, Loads
  <2> QED
    BY <1>2, <2>1 DEF DeleteRule, engine, Inv, LoadsLate, FailureIsIsolated, EmittedIsAnswered, Loads
<1> QED
  BY <1>1, <1>2

LEMMA ForgetInv ==
    ASSUME Inv, NEW m \in Event, Forget(m) PROVE Inv'
<1>1. TypeOK'
  BY DEF Forget, engine, Inv, TypeOK, Loads
<1> QED
  BY <1>1 DEF Forget, engine, Inv, LoadsLate, FailureIsIsolated, EmittedIsAnswered, Loads

LEMMA StepInv == Inv /\ [Next]_vars => Inv'
<1> SUFFICES ASSUME Inv, [Next]_vars PROVE Inv'
  OBVIOUS
<1>1. ASSUME NEW e \in Eval, Evaluate(e) PROVE Inv'
  BY <1>1, CallInv, DieInv, LoadInv, LoadFailsInv, FinishInv, RuleEndsInv DEF Evaluate
<1>2. ASSUME NEW r \in Rule, EditRule(r) \/ DeleteRule(r) PROVE Inv'
  BY <1>2, TablesInv
<1>3. ASSUME NEW m \in Event, Forget(m) PROVE Inv'
  BY <1>3, ForgetInv
<1>4. CASE UNCHANGED vars
  BY <1>4 DEF vars, engine, Inv, TypeOK, LoadsLate, FailureIsIsolated, EmittedIsAnswered, Loads
<1> QED
  BY <1>1, <1>2, <1>3, <1>4 DEF Next

LEMMA Invariance == Spec => []Inv
BY InitInv, StepInv, PTL DEF Spec

\* Every variable always has its type.
THEOREM EngineTypeCorrect == Spec => []TypeOK
<1>1. Inv => TypeOK
  BY DEF Inv
<1> QED
  BY <1>1, Invariance, PTL

\* In every answer each loaded rule has come to its own end.
THEOREM FailureIsolated == Spec => []FailureIsIsolated
<1>1. Inv => FailureIsIsolated
  BY DEF Inv
<1> QED
  BY <1>1, Invariance, PTL

\* Only what a client of a stored transaction was told is published.
THEOREM EmittedAnswered == Spec => []EmittedIsAnswered
<1>1. Inv => EmittedIsAnswered
  BY DEF Inv
<1> QED
  BY <1>1, Invariance, PTL
=============================================================================
