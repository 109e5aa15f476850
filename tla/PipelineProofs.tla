---------------------------- MODULE PipelineProofs ----------------------------
(***************************************************************************)
(* The pipeline implements its two parts: seen from the engine it is an    *)
(* Engine, seen from the broker and the alerts table it is an Alerts. What *)
(* is proved of the parts holds of the whole.                              *)
(***************************************************************************)
EXTENDS Pipeline, EngineProofs, DedupWindowProofs

\* Every step of the pipeline is a step of the engine, or leaves it alone.
LEMMA EngineStep == [PipelineNext]_pipelineVars => [Next]_vars
<1> SUFFICES ASSUME [PipelineNext]_pipelineVars PROVE [Next]_vars
  OBVIOUS
<1>1. ASSUME NEW e \in Eval, Evaluation(e) PROVE Next
  BY <1>1 DEF Evaluation, Next
<1>2. ASSUME NEW r \in Rule, Edit(r) \/ Delete(r) PROVE Next
  BY <1>2 DEF Edit, Delete, Next
<1>3. ASSUME NEW m \in Event, Send(m) \/ Lose(m) PROVE Next
  BY <1>3 DEF Send, Lose, Next
<1>4. CASE Alerting
  BY <1>4 DEF Alerting
<1>5. CASE UNCHANGED pipelineVars
  BY <1>5 DEF pipelineVars
<1> QED
  BY <1>1, <1>2, <1>3, <1>4, <1>5 DEF PipelineNext

\* The evaluations of the pipeline are those of Engine.
THEOREM ImplementsEngine == PipelineSpec => Spec
<1>1. PipelineInit => Init
  BY DEF PipelineInit, PipelineInitWithout, Init
<1> QED
  BY <1>1, EngineStep, PTL DEF PipelineSpec, Spec

\* Every step of the pipeline is a step of Alerts, or leaves its variables alone.
LEMMA AlertsStep == [PipelineNext]_pipelineVars => [A!Next]_(A!vars)
<1> SUFFICES ASSUME [PipelineNext]_pipelineVars PROVE [A!Next]_(A!vars)
  OBVIOUS
<1> USE DEF A!vars, A!broker, A!table, A!memory, A!history
<1>1. ASSUME NEW e \in Eval, Evaluation(e) PROVE UNCHANGED A!vars
  BY <1>1 DEF Evaluation, alerting, Evaluate, Call, Die, Load, LoadFails, RuleEnds, Finish
<1>2. ASSUME NEW r \in Rule, Edit(r) PROVE UNCHANGED A!vars
  BY <1>2 DEF Edit, EditRule, alerting
<1>3. ASSUME NEW r \in Rule, Delete(r) PROVE A!Next
  BY <1>3 DEF Delete, A!Next
<1>4. ASSUME NEW m \in Event, Send(m) PROVE A!Next
  BY <1>4 DEF Send, A!Next
<1>5. ASSUME NEW m \in Event, Lose(m) PROVE UNCHANGED A!vars
  BY <1>5 DEF Lose, Forget, alerting
<1>6. CASE Alerting
  BY <1>6 DEF Alerting, A!Next
<1>7. CASE UNCHANGED pipelineVars
  BY <1>7 DEF pipelineVars, vars, alerting
<1> QED
  BY <1>1, <1>2, <1>3, <1>4, <1>5, <1>6, <1>7 DEF PipelineNext

\* The alert side of the pipeline is an Alerts whose events are those of the
\* engine and whose dedup keys are computed from them.
THEOREM ImplementsAlerts == PipelineSpec => A!Spec
<1>1. PipelineInit => A!Init
  BY DEF PipelineInit, PipelineInitWithout
<1> QED
  BY <1>1, AlertsStep, PTL DEF PipelineSpec, A!Spec

-----------------------------------------------------------------------------
(* What AlertsProofs proves of Alerts holds of the pipeline's alerts *)

AP == INSTANCE AlertsProofs WITH Msg <- Event

\* The dedup keys computed from events are as Alerts assumes.
LEMMA KeysAreKeys ==
    /\ KeyOf \in [Event -> Key]
    /\ RuleOf \in [Key -> Rule]
<1>1. ASSUME NEW m \in Event PROVE DedupKey(m)[1] \in Rule
  <2>1. m[2] \in Rule
    BY DEF Event
  <2> QED
    BY <2>1, EngineAssumption DEF DedupKey
<1> QED
  BY <1>1 DEF KeyOf, RuleOf, Key

LEMMA AlertsAssumption == AP!ConstantsAssumption
BY KeysAreKeys, PipelineAssumption
   DEF AP!ConstantsAssumption, AP!Run, Malformed

\* Both instances are of the same module.
LEMMA SameAlerts == A!Spec => AP!Spec
BY DEF A!Spec, AP!Spec, A!Run, AP!Run, A!Op, AP!Op, A!Active, AP!Active,
       A!Status, AP!Status, A!broker, AP!broker, A!table, AP!table,
       A!memory, AP!memory, A!history, AP!history, A!vars, AP!vars,
       A!RunKey, AP!RunKey, A!AlertKey, AP!AlertKey, A!ActiveAlerts,
       AP!ActiveAlerts, A!OpenOn, AP!OpenOn, A!Begin, AP!Begin, A!After,
       AP!After, A!NoEntity, AP!NoEntity, A!Release, AP!Release, A!Throw,
       AP!Throw, A!InitWithout, AP!InitWithout, A!Init, AP!Init, A!Publish,
       AP!Publish, A!Deliver, AP!Deliver, A!Again, AP!Again, A!LoseChannel,
       AP!LoseChannel, A!BrokerRestarts, AP!BrokerRestarts, A!Kill, AP!Kill,
       A!KeyFails, AP!KeyFails, A!FindActive, AP!FindActive, A!FindNone,
       AP!FindNone, A!Insert, AP!Insert, A!Ack, AP!Ack, A!Reload, AP!Reload,
       A!ReloadGone, AP!ReloadGone, A!Update, AP!Update, A!RequestStatus,
       AP!RequestStatus, A!DeleteRule, AP!DeleteRule, A!DbFails, AP!DbFails,
       A!RunStep, AP!RunStep, A!SaveStep, AP!SaveStep, A!Next, AP!Next,
       A!OpKey, AP!OpKey

\* Where the buckets of the dedup key begin and end.
THEOREM WindowsBucketed == PipelineSpec => []WindowsAreBuckets
<1>1. WindowsAreBuckets
  BY BucketsAreCutEverywhere DEF WindowsAreBuckets
<1> QED
  BY <1>1, PTL

\* At most one alert of a key is active, whatever runs beside: keys on which
\* operations overlapped, and alerts an analyst reopened, are the exceptions.
THEOREM AlertsAreUnique == PipelineSpec => []A!UniqueUnlessRaced
<1>1. AP!Spec => []AP!UniqueUnlessRaced
  BY AlertsAssumption, AP!Unique
<1>2. AP!UniqueUnlessRaced => A!UniqueUnlessRaced
  BY DEF A!UniqueUnlessRaced, AP!UniqueUnlessRaced, A!ActiveAlerts, AP!ActiveAlerts,
         A!Run, AP!Run, A!AlertKey, AP!AlertKey, A!RunKey, AP!RunKey, A!Active, AP!Active
<1> QED
  BY <1>1, <1>2, ImplementsAlerts, SameAlerts, PTL

\* A transaction that is submitted again does not get a second alert of a rule.
THEOREM RetryAbsorbed == PipelineSpec => []RetryIsAbsorbed
<1>1. A!UniqueUnlessRaced => RetryIsAbsorbed
  <2> SUFFICES ASSUME A!UniqueUnlessRaced,
                      NEW k \in Key \ overlapped,
                      NEW a \in A!ActiveAlerts(k) \ reopened, NEW b \in A!Run \ reopened,
                      status[b] \in A!Active, ClientTxOf(a) = ClientTxOf(b),
                      a[1][2] = b[1][2], WindowOfEvent(a[1]) = WindowOfEvent(b[1])
               PROVE  a = b
    BY DEF RetryIsAbsorbed
  <2>1. a \in A!Run /\ a[1] \in Event /\ b[1] \in Event
    BY DEF A!ActiveAlerts, A!Run
  <2>2. A!AlertKey(a) = k
    BY DEF A!ActiveAlerts
  <2>3. DedupKey(a[1]) = DedupKey(b[1])
    BY DEF DedupKey, ClientTxOf
  <2>4. A!AlertKey(a) = DedupKey(a[1]) /\ A!AlertKey(b) = DedupKey(b[1])
    BY <2>1 DEF A!AlertKey, A!RunKey, KeyOf
  <2>5. b \in A!ActiveAlerts(k)
    BY <2>2, <2>3, <2>4 DEF A!ActiveAlerts
  <2> QED
    BY <2>5 DEF A!UniqueUnlessRaced
<1> QED
  BY <1>1, AlertsAreUnique, PTL

\* The alerts of the pipeline are kept as AlertBook says.
THEOREM PipelineBookKept == PipelineSpec => A!KeepsTheBook
<1>1. AP!Spec => AP!KeepsTheBook
  BY AlertsAssumption, AP!BookKept
<1>2. AP!KeepsTheBook => A!KeepsTheBook
  BY DEF A!KeepsTheBook, AP!KeepsTheBook, A!Cardinality, AP!Cardinality, A!Run,
         AP!Run, A!RunKey, AP!RunKey, A!AlertKey, AP!AlertKey, A!Book!Spec,
         AP!Book!Spec, A!Book!Init, AP!Book!Init, A!Book!Next, AP!Book!Next,
         A!Book!vars, AP!Book!vars, A!Book!Open, AP!Book!Open, A!Book!Hit,
         AP!Book!Hit, A!Book!Becomes, AP!Book!Becomes, A!Book!Decide,
         AP!Book!Decide, A!Book!Meet, AP!Book!Meet, A!Book!LateWrite,
         AP!Book!LateWrite, A!Book!DeleteRule, AP!Book!DeleteRule, A!Book!Active,
         AP!Book!Active, A!Book!Status, AP!Book!Status
<1> QED
  BY <1>1, <1>2, ImplementsAlerts, SameAlerts, PTL

\* What is counted on one alert belongs together: the runs are of events of one
\* named rule and one account, and no window begins between their datetimes, if the
\* window was the same and is one of some length (calculateDedupKey, hit_count).
Together(m, n) ==
    LET w == WindowOfEvent(m)
    IN  /\ NamedIn[m[2]] = NamedIn[n[2]]
        /\ AccountOf[TxOf[m[1]]] = AccountOf[TxOf[n[1]]]
        /\ (/\ w = WindowOfEvent(n) /\ w \in Window /\ ~Throws(w)
            /\ w[2] \in {"h", "d", "w", "m"} => w[1] > 0)
           => \A s \in (At[TxOf[m[1]]] + 1)..At[TxOf[n[1]]] : ~Begins(s, w)
CountedTogether ==
    \A a \in A!Run : \A x, y \in counted[a] : Together(x[1], y[1])

\* From the transaction to the alert: whatever is submitted twice, delivered again,
\* lost or raced, an alert counts events of one rule, one account and one window.
THEOREM AlertsCountTogether == PipelineSpec => []CountedTogether
<1>1. AP!Spec => []AP!Inv
  BY AlertsAssumption, AP!Invariant
<1>2. AP!Inv => CountedTogether
  <2> SUFFICES ASSUME AP!Inv, NEW a \in A!Run, NEW x \in counted[a], NEW y \in counted[a]
               PROVE  Together(x[1], y[1])
    BY DEF CountedTogether
  <2>1. A!Run = AP!Run
    BY DEF A!Run, AP!Run
  <2>2. x \in AP!Run /\ y \in AP!Run /\ AP!RunKey(x) = AP!RunKey(y)
    BY <2>1 DEF AP!Inv, AP!TypeOK, AP!Rows
  <2>3. x[1] \in Event /\ y[1] \in Event /\ DedupKey(x[1]) = DedupKey(y[1])
    BY <2>2 DEF AP!Run, AP!RunKey, KeyOf
  <2> DEFINE m == x[1]
             n == y[1]
             w == WindowOfEvent(m)
             t == At[TxOf[m[1]]]
             u == At[TxOf[n[1]]]
  <2> HIDE DEF m, n
  <2>4. /\ NamedIn[m[2]] = NamedIn[n[2]] /\ AccountOf[TxOf[m[1]]] = AccountOf[TxOf[n[1]]]
        /\ WindowKey(t, WindowOfEvent(m)) = WindowKey(u, WindowOfEvent(n))
    BY <2>3 DEF DedupKey, m, n
  <2>5. t \in Instant /\ u \in Instant
    <3>1. m[1] \in Submitted /\ n[1] \in Submitted
      BY <2>3 DEF Event, m, n
    <3> QED
      BY <3>1, PipelineAssumption
  <2>6. ASSUME w = WindowOfEvent(n), w \in Window, ~Throws(w),
               w[2] \in {"h", "d", "w", "m"} => w[1] > 0
        PROVE  \A s \in (t + 1)..u : ~Begins(s, w)
    <3> HIDE DEF t, u, w
    <3>1. CASE t =< u
      <4>1. ~(w[1] = 0 /\ w[2] \in {"d", "w"}) /\ w # <<0, "m">>
        BY <2>6
      <4>2. WindowKey(t, w) = WindowKey(u, w)
        BY <2>4, <2>6 DEF w, t, u
      <4> QED
        BY <2>5, <2>6, <3>1, <4>1, <4>2, BucketsAreCutEverywhere DEF BucketsAreCut
    <3>2. CASE ~(t =< u)
      BY <2>5, <3>2 DEF Instant
    <3> QED
      BY <3>1, <3>2
  <2> QED
    BY <2>4, <2>6 DEF Together, m, n
<1> QED
  BY <1>1, <1>2, ImplementsAlerts, SameAlerts, PTL

-----------------------------------------------------------------------------
(* No event is forgotten *)

\* The events of fired rules that the client was told of have been published.
FiredIsEmitted ==
    \A e \in Submitted : stage[e] = "done" =>
        \A r \in Ended(e, "fired") : <<e, r, loaded[e][r]>> \in emitted

\* What was published waits for the client, was lost with it, or came to the broker.
EmittedIsSent ==
    \A m \in emitted : m \in outbox \cup lost \cup queue \cup vanished \/ attempts[m] > 0

LEMMA FiredStep ==
    ASSUME Inv, FiredIsEmitted, [Next]_vars
    PROVE  FiredIsEmitted'
<1> SUFFICES ASSUME NEW e \in Submitted, stage'[e] = "done", NEW r \in Ended(e, "fired")'
             PROVE  <<e, r, loaded'[e][r]>> \in emitted'
  BY DEF FiredIsEmitted
<1> USE EngineAssumption DEF Inv, TypeOK, Ended, Loads
<1>1. e \in Eval
  OBVIOUS
<1>2. CASE /\ stage[e] = "done" /\ loaded'[e] = loaded[e] /\ outcome'[e] = outcome[e]
           /\ emitted \subseteq emitted'
  BY <1>2 DEF FiredIsEmitted
<1>3. ASSUME NEW d \in Eval, Finish(d) PROVE <<e, r, loaded'[e][r]>> \in emitted'
  <2>1. CASE d = e
    BY <1>3, <2>1 DEF Finish, Publish, Publishes
  <2>2. CASE d # e
    BY <1>1, <1>2, <1>3, <2>2 DEF Finish, Goto, Publish
  <2> QED
    BY <2>1, <2>2
<1>4. ASSUME NEW d \in Eval, LoadFails(d) PROVE <<e, r, loaded'[e][r]>> \in emitted'
  <2>1. d # e
    BY <1>1, <1>4 DEF LoadFails, LoadsLate
  <2> QED
    BY <1>1, <1>2, <1>4, <2>1 DEF LoadFails, Goto
<1>5. ASSUME NEW d \in Eval, Call(d) \/ Die(d) \/ Load(d)
      PROVE  <<e, r, loaded'[e][r]>> \in emitted'
  <2>1. d # e
    BY <1>1, <1>5 DEF Call, Die, Load, Goto
  <2> QED
    BY <1>1, <1>2, <1>5, <2>1 DEF Call, Die, Load, Goto
<1>6. ASSUME NEW d \in Eval, NEW x \in Rule, RuleEnds(d, x)
      PROVE  <<e, r, loaded'[e][r]>> \in emitted'
  <2>1. d # e
    BY <1>1, <1>6 DEF RuleEnds
  <2> QED
    BY <1>1, <1>2, <1>6, <2>1 DEF RuleEnds
<1>7. CASE UNCHANGED <<engine, emitted>>
  BY <1>2, <1>7 DEF engine
<1> QED
  BY <1>3, <1>4, <1>5, <1>6, <1>7
     DEF Next, Evaluate, EditRule, DeleteRule, Forget, vars

LEMMA SentStep ==
    ASSUME Inv, AP!TypeOK, EmittedIsSent, [PipelineNext]_pipelineVars
    PROVE  EmittedIsSent'
<1>1. \A m \in Event : attempts[m] \in Nat
  BY PipelineAssumption DEF AP!TypeOK
<1>2. emitted \subseteq Event
  BY DEF Inv, TypeOK
<1>3. ASSUME /\ emitted' \subseteq emitted \cup (outbox' \ outbox)
             /\ outbox \subseteq outbox' \cup lost' \cup queue'
             /\ lost \subseteq lost' /\ vanished \subseteq vanished'
             /\ queue \subseteq queue' \cup vanished' \cup {m \in Event : attempts'[m] > 0}
             /\ \A m \in Event : attempts[m] > 0 => attempts'[m] > 0
      PROVE  EmittedIsSent'
  BY <1>2, <1>3 DEF EmittedIsSent
<1>4. ASSUME NEW e \in Eval, Evaluation(e) PROVE EmittedIsSent'
  <2>1. UNCHANGED <<lost, queue, vanished, attempts>>
    BY <1>4 DEF Evaluation, alerting
  <2>2. outbox \subseteq outbox' /\ emitted' \subseteq emitted \cup (outbox' \ outbox)
    BY <1>4 DEF Evaluation, Evaluate, Call, Die, Load, LoadFails, RuleEnds, Finish, Publish,
                Inv, TypeOK
  <2> QED
    BY <1>3, <2>1, <2>2
<1>5. ASSUME NEW r \in Rule, Edit(r) \/ Delete(r) PROVE EmittedIsSent'
  BY <1>3, <1>5 DEF Edit, EditRule, Delete, DeleteRule, A!DeleteRule, alerting,
                    A!broker
<1>6. ASSUME NEW m \in Event, Send(m) PROVE EmittedIsSent'
  BY <1>3, <1>6 DEF Send, Forget, A!Publish
<1>7. ASSUME NEW m \in Event, Lose(m) PROVE EmittedIsSent'
  BY <1>3, <1>7 DEF Lose, Forget, alerting
<1>8. CASE Alerting
  <2>1. UNCHANGED <<emitted, outbox, lost>>
    BY <1>8 DEF Alerting, vars
  <2> USE DEF A!broker
  <2>2. ASSUME NEW m \in Event, A!Deliver(m) PROVE EmittedIsSent'
    BY <1>1, <1>3, <2>1, <2>2 DEF A!Deliver, AP!TypeOK
  <2>3. CASE A!BrokerRestarts
    BY <1>3, <2>1, <2>3 DEF A!BrokerRestarts
  <2>4. CASE UNCHANGED attempts /\ UNCHANGED vanished /\ queue \subseteq queue'
    BY <1>3, <2>1, <2>4
  <2>5. ASSUME NEW m \in Event, A!LoseChannel(m) PROVE EmittedIsSent'
    BY <2>4, <2>5 DEF A!LoseChannel
  <2>6. ASSUME NEW r \in A!Run, A!RunStep(r) PROVE EmittedIsSent'
    BY <2>4, <2>6 DEF A!RunStep, A!KeyFails, A!FindActive, A!FindNone, A!Insert, A!Ack
  <2>7. ASSUME NEW o \in A!Op, A!SaveStep(o) \/ A!DbFails(o) \/ A!Kill(o)
        PROVE  EmittedIsSent'
    BY <2>4, <2>7 DEF A!SaveStep, A!Reload, A!ReloadGone, A!Update, A!DbFails, A!Kill
  <2>8. ASSUME NEW q \in Req, A!RequestStatus(q) PROVE EmittedIsSent'
    BY <2>4, <2>8 DEF A!RequestStatus
  <2> QED
    BY <1>8, <2>2, <2>3, <2>5, <2>6, <2>7, <2>8 DEF Alerting
<1>9. CASE UNCHANGED pipelineVars
  BY <1>3, <1>9 DEF pipelineVars, vars, alerting
<1> QED
  BY <1>4, <1>5, <1>6, <1>7, <1>8, <1>9 DEF PipelineNext

\* From the answer to the alert no event is forgotten, for any number of
\* submissions, rules, events, deliveries and failures (createAndEvaluate,
\* publishAlertEvents, handleAlertEvent).
THEOREM NothingForgotten == PipelineSpec => []NothingIsForgotten
<1>1. PipelineSpec => []Inv
  BY ImplementsEngine, InitInv, StepInv, PTL DEF Spec
<1>2. PipelineSpec => []AP!Inv
  <2>1. AP!Spec => []AP!Inv
    BY AlertsAssumption, AP!Invariant
  <2> QED
    BY <2>1, ImplementsAlerts, SameAlerts, PTL
<1>3. PipelineInit => FiredIsEmitted /\ EmittedIsSent
  BY EngineAssumption DEF PipelineInit, PipelineInitWithout, InitWithout, FiredIsEmitted, EmittedIsSent
<1>4. /\ Inv /\ AP!Inv /\ FiredIsEmitted /\ EmittedIsSent
      /\ [PipelineNext]_pipelineVars
      => (FiredIsEmitted /\ EmittedIsSent)'
  BY EngineStep, FiredStep, SentStep DEF AP!Inv
<1>5. Inv /\ AP!Inv /\ FiredIsEmitted /\ EmittedIsSent => NothingIsForgotten
  <2> SUFFICES ASSUME Inv, AP!Inv, EmittedIsSent, NEW m \in emitted
               PROVE  m \in outbox \cup queue \cup held \/ Alerted(m)
    BY DEF FiredIsEmitted, NothingIsForgotten
  <2>1. m \in Event
    BY DEF Inv, TypeOK
  <2>2. CASE m \in outbox \cup queue \cup held \cup lost \cup vanished
    BY <2>2 DEF Alerted
  <2>3. CASE attempts[m] > 0 /\ m \notin queue \cup held
    <3>1. AP!Acked(m)
      BY <2>3 DEF AP!Acked
    <3>2. A!Run = AP!Run
      BY DEF A!Run, AP!Run
    <3>3. RuleOf[KeyOf[m]] = NamedIn[m[2]]
      BY <2>1 DEF RuleOf, KeyOf, Key, DedupKey
    <3> QED
      BY <2>1, <3>1, <3>2, <3>3 DEF AP!Inv, AP!AckedIsAccountedFor, Alerted
  <2> QED
    BY <2>2, <2>3 DEF EmittedIsSent
<1> QED
  BY <1>1, <1>2, <1>3, <1>4, <1>5, PTL DEF PipelineSpec

-----------------------------------------------------------------------------
\* The engine's promises in the pipeline: types, isolation of failures, and no
\* message without an answer.
THEOREM PipelineTypeCorrect == PipelineSpec => []TypeOK
BY ImplementsEngine, EngineTypeCorrect, PTL

THEOREM PipelineIsolated == PipelineSpec => []FailureIsIsolated
BY ImplementsEngine, FailureIsolated, PTL

THEOREM PipelineAnswered == PipelineSpec => []EmittedIsAnswered
BY ImplementsEngine, EmittedAnswered, PTL
=============================================================================
