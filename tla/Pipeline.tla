------------------------------- MODULE Pipeline -------------------------------
(***************************************************************************)
(* From the POST of a transaction to its alerts: Engine, the client of the *)
(* alerts queue, and Alerts, over one table of rules. A client that got no *)
(* answer in time may send a transaction again; nothing recognizes it, so  *)
(* a transaction of a client may be submitted more than once. The dedup    *)
(* key of an event is made of what the event carries: the rule it names,   *)
(* the account, and the window of the configuration it was evaluated with. *)
(***************************************************************************)
EXTENDS Engine, DedupWindow

CONSTANTS
    ClientTx,       \* what clients submit
    TxOf,           \* the transaction each submission is of
    AccountOf,      \* its account
    At,             \* its datetime
    WindowOf,       \* the timeWindow of each configuration of each rule
    NoAlert,
    Req,            \* the requests of analysts
    MaxAttempts,    \* bounds, as in Alerts
    Redelivered,
    MaxFailures

ASSUME PipelineAssumption ==
    /\ TxOf \in [Submitted -> ClientTx]
    /\ DOMAIN AccountOf = ClientTx
    /\ At \in [ClientTx -> Instant]
    /\ DOMAIN WindowOf = Rule
    /\ \A r \in Rule : DOMAIN WindowOf[r] = Version
    /\ MaxAttempts \in Nat \ {0}
    /\ Redelivered \subseteq Event
    /\ MaxFailures \in Nat
    /\ Req \cap (Event \X (1..MaxAttempts)) = {}
    /\ NoAlert \notin Event \X (1..MaxAttempts)

VARIABLES
    queue, held, attempts, status, hits, pc, copy, dirty, failures,
    vanished, dropped, counted, overlapped, reopened,   \* of Alerts
    lost        \* ghost: events the client lost before it could send them

WindowOfEvent(m) == WindowOf[m[2]][m[3]]

\* Fault: the key is made of the submission and not of its account.
DedupKeyOfSubmission(m) ==
    <<NamedIn[m[2]], m[1], WindowKey(At[TxOf[m[1]]], WindowOfEvent(m))>>

\* calculateDedupKey of the message that publishAlertEvents makes of an event.
DedupKey(m) ==
    <<NamedIn[m[2]], AccountOf[TxOf[m[1]]], WindowKey(At[TxOf[m[1]]], WindowOfEvent(m))>>

Key == {DedupKey(m) : m \in Event}
KeyOf == [m \in Event |-> DedupKey(m)]
RuleOf == [k \in Key |-> k[1]]
Malformed == {m \in Event : Throws(WindowOfEvent(m))}

A == INSTANCE Alerts WITH Msg <- Event

alerting == <<queue, held, attempts, status, hits, pc, copy, dirty, failures,
              vanished, dropped, counted, overlapped, reopened>>
pipelineVars == <<vars, alerting, lost>>

PipelineInitWithout(off) == InitWithout(off) /\ A!Init /\ lost = {}
PipelineInit == PipelineInitWithout({})

-----------------------------------------------------------------------------
(* Steps of the engine that the alert side does not see *)

Evaluation(e) == Evaluate(e) /\ UNCHANGED <<alerting, lost>>
Edit(r) == EditRule(r) /\ UNCHANGED <<alerting, lost>>

(* Joint steps *)

\* The row of the rule goes, and its alerts with it.
Delete(r) == DeleteRule(r) /\ A!DeleteRule(r) /\ UNCHANGED lost

\* The client of the queue writes a message to the broker.
Send(m) == Forget(m) /\ A!Publish(m) /\ UNCHANGED lost

\* The client buffers what it cannot send; the buffer dies with the process.
Lose(m) ==
    /\ Forget(m)
    /\ Cardinality(lost) + failures < MaxFailures
    /\ lost' = lost \cup {m}
    /\ UNCHANGED alerting

(* Steps of the alert side that the engine does not see *)

Alerting ==
    /\ \/ \E m \in Event : A!Deliver(m) \/ A!LoseChannel(m)
       \/ A!BrokerRestarts
       \/ \E r \in A!Run : A!RunStep(r)
       \/ \E o \in A!Op : A!SaveStep(o) \/ A!DbFails(o) \/ A!Kill(o)
       \/ \E q \in Req : A!RequestStatus(q)
    /\ UNCHANGED <<vars, lost>>

PipelineNext ==
    \/ \E e \in Eval : Evaluation(e)
    \/ \E r \in Rule : Edit(r) \/ Delete(r)
    \/ \E m \in Event : Send(m) \/ Lose(m)
    \/ Alerting

PipelineSpec == PipelineInit /\ [][PipelineNext]_pipelineVars

\* The client sends, the broker delivers, or the event loop resumes a handler
\* whose await is over.
Progress ==
    \/ \E m \in Event : Send(m)
    \/ /\ \/ \E m \in Event : A!Deliver(m)
          \/ \E r \in A!Run : A!RunStep(r)
          \/ \E o \in A!Op : A!SaveStep(o)
       /\ UNCHANGED <<vars, lost>>

\* As long as one of them can do something, one of them will. As each is done
\* with finitely many steps, nothing has to be fair to each of them.
PipelineFairness == WF_pipelineVars(Progress)

FairPipelineSpec == PipelineSpec /\ PipelineFairness

-----------------------------------------------------------------------------
(* Properties *)

\* The buckets of calculateWindowKey are the windows: BucketsAreCut. It does not
\* depend on the state and is asked of the first ones.
WindowsAreBuckets == (\E off \in SUBSET Eval : PipelineInitWithout(off)) => BucketsAreCut

\* The client's transaction an alert came from.
ClientTxOf(a) == TxOf[a[1][1]]

\* A client that sends a transaction again gets it stored and evaluated again,
\* but not alerted again: the active alerts of one transaction and one rule are
\* one, beside those an analyst closed and reopened, unless operations on the key
\* overlapped or the rule got another time window between the submissions.
RetryIsAbsorbed ==
    \A k \in Key \ overlapped :
        \A a \in A!ActiveAlerts(k) \ reopened, b \in A!Run \ reopened :
            (/\ status[b] \in A!Active /\ ClientTxOf(a) = ClientTxOf(b)
             /\ a[1][2] = b[1][2] /\ WindowOfEvent(a[1]) = WindowOfEvent(b[1])) => a = b

\* What becomes of an event: it is counted on an alert, or the message was lost
\* before or in the broker, or its processing threw, or the rule it names is gone.
Alerted(m) ==
    \/ m \in lost \cup vanished
    \/ NamedIn[m[2]] \notin rules
    \/ \E x \in A!Run : x[1] = m /\ (x \in dropped \/ \E a \in A!Run : x \in counted[a])

\* At no time is an event of a fired rule that the client was told of gone without
\* trace: it is on its way to the consumer, or one of the ends of Alerted is its.
NothingIsForgotten ==
    \A e \in Submitted : \A r \in Ended(e, "fired") : stage[e] = "done" =>
        /\ <<e, r, loaded[e][r]>> \in emitted
        /\ \/ <<e, r, loaded[e][r]>> \in outbox \cup queue \cup held
           \/ Alerted(<<e, r, loaded[e][r]>>)

\* And no event stays on its way for ever.
FiredIsAlerted ==
    <>[](\A e \in Submitted : \A r \in Ended(e, "fired") : stage[e] = "done" =>
            /\ <<e, r, loaded[e][r]>> \in emitted \ (outbox \cup queue \cup held)
            /\ Alerted(<<e, r, loaded[e][r]>>))
=============================================================================
