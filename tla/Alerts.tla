------------------------------- MODULE Alerts -------------------------------
(***************************************************************************)
(* The alert side of the service: the durable 'alerts' queue, the handler  *)
(* that turns an alert event into a new alert or a hit on an existing one  *)
(* (AlertsConsumer, AlertsService.processAlertEvent), the analysts who     *)
(* change an alert's status (AlertsService.updateStatus), and the deletion *)
(* of a rule, which takes its alerts with it.                              *)
(*                                                                         *)
(* The consumer runs without a prefetch limit, and several instances may   *)
(* read the same queue, so every queued event may be in progress at once.  *)
(* Each await of a handler is a point where the others run: a handler is a *)
(* sequence of actions (find, reload, write, ack) kept in pc[_].           *)
(*                                                                         *)
(* TypeORM's save() of an entity that has an id first SELECTs the row and  *)
(* then UPDATEs the columns in which the entity in memory differs from     *)
(* what it just read: Reload and Update below.                             *)
(***************************************************************************)
EXTENDS Naturals, FiniteSets

CONSTANTS
    Msg,            \* the alert events that may be published to the queue
    Key,            \* the dedup keys: rule, account and time window
    Rule,           \* the rules the keys belong to
    KeyOf,          \* the dedup key calculateDedupKey gives each event
    Malformed,      \* events that throw before any query (a window of "0h")
    RuleOf,         \* the rule named in each dedup key
    Req,            \* the PATCH status requests of the analysts
    NoAlert,        \* the alert an operation holds before it has read one
    MaxAttempts,    \* bound: deliveries of one event
    Redelivered,    \* bound: the events that may be delivered again
    MaxFailures     \* bound: failing database calls and broker restarts

\* A run of handleAlertEvent: the n-th delivery of event m is <<m, n>>. An
\* alert has the name of the run that inserted it.
Run == Msg \X (1..MaxAttempts)
Op == Run \cup Req

ASSUME ConstantsAssumption ==
    /\ KeyOf \in [Msg -> Key]
    /\ RuleOf \in [Key -> Rule]
    /\ Malformed \subseteq Msg
    /\ Redelivered \subseteq Msg
    /\ Req \cap Run = {}
    /\ NoAlert \notin Run
    /\ MaxAttempts \in Nat \ {0}
    /\ MaxFailures \in Nat

Active == {"OPEN", "ACKNOWLEDGED"}
Status == Active \cup {"RESOLVED", "FALSE_POSITIVE"}

VARIABLES
    queue,      \* events ready in the broker
    held,       \* events delivered and not acknowledged
    attempts,   \* how often each event was delivered
    status,     \* the status column of each alert row, "absent" without a row
    hits,       \* the hit_count column
    rules,      \* rows of the rules table
    pc,         \* where each handler and each status request is
    copy,       \* the Alert entity it holds in memory
    dirty,      \* the columns its UPDATE will write
    failures,   \* database calls that failed, and restarts of the broker
    vanished,   \* ghost: events a restart of the broker destroyed
    dropped,    \* ghost: runs that ended in the catch block
    counted,    \* ghost: the runs whose save on an alert was carried out
    overlapped, \* ghost: keys on which two operations were ever open at once
    reopened    \* ghost: alerts that were closed and made active again

broker == <<queue, held, attempts, vanished>>
table == <<status, hits, rules, counted>>
memory == <<copy, dirty>>
history == <<overlapped, reopened>>
vars == <<broker, table, pc, memory, failures, dropped, history>>

-----------------------------------------------------------------------------
RunKey(r) == KeyOf[r[1]]
AlertKey(a) == RunKey(a)
OpKey(o) == IF o \in Run THEN RunKey(o) ELSE AlertKey(copy[o].alert)

ActiveAlerts(k) == {a \in Run : AlertKey(a) = k /\ status[a] \in Active}

\* The operations between their read of an alert and their write.
OpenOn(k) == {o \in Op : pc[o] \in {"insert", "reload", "update"} /\ OpKey(o) = k}

\* Remember that an operation on k begins while others are open.
Begin(k) ==
    overlapped' = IF OpenOn(k) = {} THEN overlapped ELSE overlapped \cup {k}

\* Where an operation goes after its last database call: a handler still has
\* to acknowledge, a request is answered.
After(o) == IF o \in Run THEN "ack" ELSE "done"

NoEntity == [alert |-> NoAlert, hits |-> 0, status |-> "OPEN"]

\* The call that held the entity of o is over.
Release(o) ==
    /\ copy' = [copy EXCEPT ![o] = NoEntity]
    /\ dirty' = [dirty EXCEPT ![o] = {}]

\* Fault: the ack stands after the try block, not in finally.
ThrowUnacked(o) ==
    /\ pc' = [pc EXCEPT ![o] = "done"]
    /\ Release(o)
    /\ dropped' = IF o \in Run THEN dropped \cup {o} ELSE dropped

\* processAlertEvent throws: handleAlertEvent logs it and goes on to the ack.
\* For a request the exception becomes the HTTP answer.
Throw(o) ==
    /\ pc' = [pc EXCEPT ![o] = After(o)]
    /\ Release(o)
    /\ dropped' = IF o \in Run THEN dropped \cup {o} ELSE dropped

\* Some rules are there, some of the failures are used up; the events in off are
\* lost before they reach the broker.
InitWithout(off) ==
    /\ queue = {}
    /\ held = {}
    /\ attempts = [m \in Msg |-> 0]
    /\ status = [a \in Run |-> "absent"]
    /\ hits = [a \in Run |-> 0]
    /\ rules \in SUBSET Rule
    /\ pc = [o \in Op |-> "idle"]
    /\ copy = [o \in Op |-> NoEntity]
    /\ dirty = [o \in Op |-> {}]
    /\ failures \in 0..MaxFailures
    /\ vanished = off
    /\ dropped = {}
    /\ counted = [a \in Run |-> {}]
    /\ overlapped = {}
    /\ reopened = {}

Init == InitWithout({})

-----------------------------------------------------------------------------
(* The broker *)

\* The client of the transactions service writes an event to the queue.
Publish(m) ==
    /\ attempts[m] = 0
    /\ m \notin queue \cup held \cup vanished
    /\ queue' = queue \cup {m}
    /\ UNCHANGED <<held, attempts, vanished, table, pc, memory, failures, dropped, history>>

\* A queued event is handed to a consumer; nothing limits how many are out.
Deliver(m) ==
    /\ m \in queue
    /\ attempts[m] < MaxAttempts
    /\ queue' = queue \ {m}
    /\ held' = held \cup {m}
    /\ attempts' = [attempts EXCEPT ![m] = @ + 1]
    /\ pc' = [pc EXCEPT ![<<m, attempts[m] + 1>>] = "find"]
    /\ UNCHANGED <<vanished, table, memory, failures, dropped, history>>

\* Whether another delivery of m is within the bounds.
Again(m) == m \in Redelivered /\ attempts[m] < MaxAttempts

\* The connection of the consumer that holds m breaks: the broker queues m
\* again, the handler that was working on it does not notice.
LoseChannel(m) ==
    /\ m \in held
    /\ Again(m)
    /\ held' = held \ {m}
    /\ queue' = queue \cup {m}
    /\ UNCHANGED <<attempts, vanished, table, pc, memory, failures, dropped, history>>

\* The broker restarts. The queue is durable, but the client publishes without
\* the persistent option: what was in it is gone, what was out is not returned.
BrokerRestarts ==
    /\ failures < MaxFailures
    /\ failures' = failures + 1
    /\ queue' = {}
    /\ held' = {}
    /\ vanished' = vanished \cup queue \cup held
    /\ UNCHANGED <<attempts, table, pc, memory, dropped, history>>

\* The process that runs o dies; what it held unacknowledged is queued again.
Kill(o) ==
    /\ pc[o] \notin {"idle", "done"}
    /\ pc' = [pc EXCEPT ![o] = "done"]
    /\ Release(o)
    /\ IF o \in Run /\ o[1] \in held /\ attempts[o[1]] = o[2]
       THEN /\ Again(o[1])
            /\ held' = held \ {o[1]}
            /\ queue' = queue \cup {o[1]}
       ELSE UNCHANGED <<held, queue>>
    /\ UNCHANGED <<attempts, vanished, table, failures, dropped, history>>

-----------------------------------------------------------------------------
(* processAlertEvent *)

\* calculateWindowKey throws on a window of zero hours.
KeyFails(r) ==
    /\ pc[r] = "find"
    /\ r[1] \in Malformed
    /\ Throw(r)
    /\ UNCHANGED <<broker, table, failures, history>>

\* Fault: the hit is not counted.
FindActiveUncounted(r) ==
    /\ pc[r] = "find"
    /\ r[1] \notin Malformed
    /\ \E a \in ActiveAlerts(RunKey(r)) :
          copy' = [copy EXCEPT ![r] = [alert |-> a, hits |-> hits[a], status |-> status[a]]]
    /\ pc' = [pc EXCEPT ![r] = "reload"]
    /\ Begin(RunKey(r))
    /\ UNCHANGED <<broker, table, dirty, failures, dropped, reopened>>

\* Fault: a hit opens the alert again.
FindActiveReopening(r) ==
    /\ pc[r] = "find"
    /\ r[1] \notin Malformed
    /\ \E a \in ActiveAlerts(RunKey(r)) :
          copy' = [copy EXCEPT ![r] = [alert |-> a, hits |-> hits[a] + 1, status |-> "OPEN"]]
    /\ pc' = [pc EXCEPT ![r] = "reload"]
    /\ Begin(RunKey(r))
    /\ UNCHANGED <<broker, table, dirty, failures, dropped, reopened>>

\* findOne: some active alert has the key; with several, any of them.
FindActive(r) ==
    /\ pc[r] = "find"
    /\ r[1] \notin Malformed
    /\ \E a \in ActiveAlerts(RunKey(r)) :
          copy' = [copy EXCEPT ![r] =
                      [alert |-> a, hits |-> hits[a] + 1, status |-> status[a]]]
    /\ pc' = [pc EXCEPT ![r] = "reload"]
    /\ Begin(RunKey(r))
    /\ UNCHANGED <<broker, table, dirty, failures, dropped, reopened>>

\* Fault: only OPEN alerts count as active.
FindNoneOpen(r) ==
    /\ pc[r] = "find"
    /\ r[1] \notin Malformed
    /\ \A a \in ActiveAlerts(RunKey(r)) : status[a] # "OPEN"
    /\ pc' = [pc EXCEPT ![r] = "insert"]
    /\ Begin(RunKey(r))
    /\ UNCHANGED <<broker, table, memory, failures, dropped, reopened>>

\* Fault: the null that findOne returned is saved.
FindNoneUnchecked(r) ==
    /\ pc[r] = "find"
    /\ r[1] \notin Malformed
    /\ ActiveAlerts(RunKey(r)) = {}
    /\ pc' = [pc EXCEPT ![r] = "reload"]
    /\ Begin(RunKey(r))
    /\ UNCHANGED <<broker, table, memory, failures, dropped, reopened>>

\* findOne: no active alert has the key.
FindNone(r) ==
    /\ pc[r] = "find"
    /\ r[1] \notin Malformed
    /\ ActiveAlerts(RunKey(r)) = {}
    /\ pc' = [pc EXCEPT ![r] = "insert"]
    /\ Begin(RunKey(r))
    /\ UNCHANGED <<broker, table, memory, failures, dropped, reopened>>

\* save() of a new entity: an INSERT, which nothing but the foreign key to the
\* rule can refuse (dedup_key has no unique index).
Insert(r) ==
    /\ pc[r] = "insert"
    /\ IF RuleOf[RunKey(r)] \in rules
       THEN /\ status' = [status EXCEPT ![r] = "OPEN"]
            /\ hits' = [hits EXCEPT ![r] = 1]
            /\ counted' = [counted EXCEPT ![r] = {r}]
            /\ pc' = [pc EXCEPT ![r] = "ack"]
            /\ UNCHANGED <<memory, dropped>>
       ELSE /\ Throw(r)
            /\ UNCHANGED <<status, hits, counted>>
    /\ UNCHANGED <<broker, rules, failures, history>>

\* Fault: processAlertEvent is not awaited, the ack may come at any time.
AckEarly(r) ==
    /\ pc[r] \notin {"idle", "done"}
    /\ attempts[r[1]] = r[2]
    /\ held' = held \ {r[1]}
    /\ pc' = IF pc[r] = "ack" THEN [pc EXCEPT ![r] = "done"] ELSE pc
    /\ UNCHANGED <<queue, attempts, vanished, table, memory, failures, dropped, history>>

\* finally: the ack, after the action handlers, whatever happened before. On a
\* channel that is gone it reaches nobody.
Ack(r) ==
    /\ pc[r] = "ack"
    /\ pc' = [pc EXCEPT ![r] = "done"]
    /\ held' = IF attempts[r[1]] = r[2] THEN held \ {r[1]} ELSE held
    /\ UNCHANGED <<queue, attempts, vanished, table, memory, failures, dropped, history>>

-----------------------------------------------------------------------------
(* save() of an entity that has an id, for handlers and requests alike *)

\* The SELECT, and the diff of its result with the entity in memory.
Reload(o) ==
    /\ pc[o] = "reload"
    /\ LET a == copy[o].alert IN
       /\ status[a] # "absent"
       /\ dirty' = [dirty EXCEPT ![o] =
                       {c \in {"hits", "status"} :
                           \/ c = "hits" /\ copy[o].hits # hits[a]
                           \/ c = "status" /\ copy[o].status # status[a]}]
    /\ pc' = [pc EXCEPT ![o] = "update"]
    /\ UNCHANGED <<broker, table, copy, failures, dropped, history>>

\* The SELECT finds no row: TypeORM INSERTs the entity, and the foreign key to
\* the rule, whose deletion took the row away, refuses it.
ReloadGone(o) ==
    /\ pc[o] = "reload"
    /\ status[copy[o].alert] = "absent"
    /\ Throw(o)
    /\ UNCHANGED <<broker, table, failures, history>>

\* Fault: the count in memory is added to the count in the row.
UpdateAdding(o) ==
    /\ pc[o] = "update"
    /\ LET a == copy[o].alert
           live == status[a] # "absent"
           put(f, c, v) == IF live /\ c \in dirty[o] THEN [f EXCEPT ![a] = v] ELSE f
       IN /\ hits' = put(hits, "hits", hits[a] + copy[o].hits)
          /\ status' = put(status, "status", copy[o].status)
          /\ counted' = IF live /\ o \in Run
                        THEN [counted EXCEPT ![a] = @ \cup {o}] ELSE counted
          /\ reopened' = IF status[a] \notin Active /\ status'[a] \in Active
                         THEN reopened \cup {a} ELSE reopened
    /\ pc' = [pc EXCEPT ![o] = After(o)]
    /\ Release(o)
    /\ UNCHANGED <<broker, rules, failures, dropped, overlapped>>

\* The UPDATE of the columns that differed. A row deleted meanwhile is not
\* missed: no row is updated and save() returns.
Update(o) ==
    /\ pc[o] = "update"
    /\ LET a == copy[o].alert
           live == status[a] # "absent"
           put(f, c, v) == IF live /\ c \in dirty[o] THEN [f EXCEPT ![a] = v] ELSE f
       IN /\ hits' = put(hits, "hits", copy[o].hits)
          /\ status' = put(status, "status", copy[o].status)
          /\ counted' = IF live /\ o \in Run
                        THEN [counted EXCEPT ![a] = @ \cup {o}] ELSE counted
          /\ reopened' = IF status[a] \notin Active /\ status'[a] \in Active
                         THEN reopened \cup {a} ELSE reopened
    /\ pc' = [pc EXCEPT ![o] = After(o)]
    /\ Release(o)
    /\ UNCHANGED <<broker, rules, failures, dropped, overlapped>>

-----------------------------------------------------------------------------
(* The other writers, and failures *)

\* updateStatus: findOne by id, then the status of the body, any of them, is
\* assigned to the entity: no transition is refused.
RequestStatus(q) ==
    /\ pc[q] = "idle"
    /\ \E a \in Run, s \in Status :
          /\ status[a] # "absent"
          /\ copy' = [copy EXCEPT ![q] = [alert |-> a, hits |-> hits[a], status |-> s]]
          /\ Begin(AlertKey(a))
    /\ pc' = [pc EXCEPT ![q] = "reload"]
    /\ UNCHANGED <<broker, table, dirty, failures, dropped, reopened>>

\* DELETE of a rule; FK_alerts_rule cascades to its alerts.
DeleteRule(u) ==
    /\ u \in rules
    /\ rules' = rules \ {u}
    /\ LET gone(a) == RuleOf[AlertKey(a)] = u IN
       /\ status' = [a \in Run |-> IF gone(a) THEN "absent" ELSE status[a]]
       /\ hits' = [a \in Run |-> IF gone(a) THEN 0 ELSE hits[a]]
       /\ counted' = [a \in Run |-> IF gone(a) THEN {} ELSE counted[a]]
    /\ UNCHANGED <<broker, pc, memory, failures, dropped, history>>

\* A database call fails (connection, timeout): the save or find throws. One
\* whose answer is lost after it was carried out is Insert or Update.
DbFails(o) ==
    /\ pc[o] \in {"find", "insert", "reload", "update"}
    /\ failures < MaxFailures
    /\ failures' = failures + 1
    /\ Throw(o)
    /\ UNCHANGED <<broker, table, history>>

-----------------------------------------------------------------------------
RunStep(r) ==
    KeyFails(r) \/ FindActive(r) \/ FindNone(r) \/ Insert(r) \/ Ack(r)
SaveStep(o) == Reload(o) \/ ReloadGone(o) \/ Update(o)

Next ==
    \/ \E m \in Msg : Publish(m) \/ Deliver(m) \/ LoseChannel(m)
    \/ BrokerRestarts
    \/ \E r \in Run : RunStep(r)
    \/ \E o \in Op : SaveStep(o) \/ DbFails(o) \/ Kill(o)
    \/ \E q \in Req : RequestStatus(q)
    \/ \E u \in Rule : DeleteRule(u)

Spec == Init /\ [][Next]_vars

\* The broker hands out what is queued and the event loop resumes handlers whose
\* await is over: as long as there is something of it to do, some of it is done.
\* Nothing obliges failures, requests or deletions.
Progress ==
    \/ \E m \in Msg : Deliver(m)
    \/ \E r \in Run : RunStep(r)
    \/ \E o \in Op : SaveStep(o)
Fairness == WF_vars(Progress)

FairSpec == Spec /\ Fairness

-----------------------------------------------------------------------------
(* Properties *)

Entity == [alert : Run \cup {NoAlert}, hits : Nat, status : Status]

\* Every variable has its type: rows have a known status, entities in memory
\* are Alert objects, what a save() is about is an alert, and an alert is
\* counted by runs only.
TypeOK ==
    /\ queue \subseteq Msg
    /\ held \subseteq Msg
    /\ attempts \in [Msg -> 0..MaxAttempts]
    /\ status \in [Run -> Status \cup {"absent"}]
    /\ hits \in [Run -> Nat]
    /\ rules \subseteq Rule
    /\ pc \in [Op -> {"idle", "find", "insert", "reload", "update", "ack", "done"}]
    /\ copy \in [Op -> Entity]
    /\ \A o \in Op : pc[o] \in {"reload", "update"} => copy[o].alert \in Run
    /\ dirty \in [Op -> SUBSET {"hits", "status"}]
    /\ failures \in 0..MaxFailures
    /\ vanished \subseteq Msg
    /\ dropped \subseteq Run
    /\ counted \in [Run -> SUBSET Run]
    /\ overlapped \subseteq Key
    /\ reopened \subseteq Run

\* The single-alert promise of the deduplication, where the code keeps it: of the
\* alerts of a key that are open or acknowledged at most one was never closed, as
\* long as no two operations on the key were open at once (processAlertEvent finds
\* and inserts in two queries). updateStatus may reopen others beside it, and an
\* event that comes then is counted on one of them and opens no further alert.
UniqueUnlessRaced ==
    \A k \in Key \ overlapped :
        \A a, b \in ActiveAlerts(k) \ reopened : a = b

\* The audit promise of hit_count, where the code keeps it: it is the number of
\* deliveries whose save was carried out on the alert, unless operations on its
\* key overlapped (hitCount is read, incremented and written in three steps).
ExactUnlessRaced ==
    \A a \in Run :
        status[a] # "absent" /\ AlertKey(a) \notin overlapped =>
            hits[a] = Cardinality(counted[a])

\* Whatever races there are, hit_count never reports more hits than deliveries
\* that were saved on the alert: stale writes only lose hits.
HitsNeverOverstated ==
    \A a \in Run : hits[a] <= Cardinality(counted[a])

\* An event leaves the broker only after a run of it was saved on an alert of
\* its own key, or its processing threw (the catch block drops it), or its rule
\* was deleted, or the broker lost it: the ack comes after the await.
Acked(m) == attempts[m] > 0 /\ m \notin queue \cup held
AckedIsAccountedFor ==
    \A m \in Msg : Acked(m) =>
        \/ \E r \in Run : r[1] = m /\ r \in dropped
        \/ \E r, a \in Run :
              r[1] = m /\ r \in counted[a] /\ AlertKey(a) = KeyOf[m]
        \/ RuleOf[KeyOf[m]] \notin rules
        \/ m \in vanished

\* An event is never ready and out at once, and while it is out and its last
\* run has not ended, that run is the one the broker waits for: a redelivery is
\* not lost when an older run of the event acknowledges.
OneOutstandingDelivery ==
    /\ queue \cap held = {}
    /\ \A m \in held : pc[<<m, attempts[m]>>] \notin {"idle", "done"}

\* A step changes the status of an existing alert only by carrying out the
\* request of an analyst with the status he asked for, by deleting the rule, or
\* on a key where operations overlapped (a handler writing back what it read).
DecisionsStick ==
    [][\A a \in Run :
          status[a] # "absent" /\ status'[a] # status[a] =>
              \/ status'[a] = "absent" /\ RuleOf[AlertKey(a)] \notin rules'
              \/ AlertKey(a) \in overlapped
              \/ \E q \in Req : /\ pc[q] = "update" /\ pc'[q] = "done"
                                /\ copy[q].alert = a
                                /\ status'[a] = copy[q].status]_vars

\* Seen from outside, the alerts are an AlertBook: as long as no two operations on
\* a dedup key are open at once, the find and the save of each of them are one
\* step, with which an event opens the one alert or adds the one hit and an
\* analyst sets the status and nothing else; and where they overlap, late writes
\* lose hits and decisions but make up no hit.
Book == INSTANCE AlertBook WITH
    Alert <- Run,
    KeyOf <- [a \in Run |-> AlertKey(a)],
    saves <- [a \in Run |-> Cardinality(counted[a])],
    met <- overlapped
KeepsTheBook == Book!Spec

\* Every event ends out of the broker, and stays out: deliveries cut short by a
\* crash or a broken channel are repeated, and no failure keeps an event in it.
EventuallyAcked == \A m \in Msg : <>[](m \notin queue \cup held)

\* ARCHITECTURE.md ADR-005, "Single alert per (rule + entity + window)": at no
\* time are two alerts of one dedup key open or acknowledged.
SingleActiveAlertPerKey ==
    \A k \in Key : \A a, b \in ActiveAlerts(k) : a = b
=============================================================================
