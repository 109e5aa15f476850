---------------------------- MODULE AlertsProofs ----------------------------
(***************************************************************************)
(* Proofs about Alerts, for any events, keys, rules, requests and numbers  *)
(* of deliveries.                                                          *)
(***************************************************************************)
EXTENDS Alerts, FiniteSetTheorems, TLAPS

-----------------------------------------------------------------------------
\* The operations are the runs and the requests, and a run is a delivery of an
\* event, whose key it has.
LEMMA Operations ==
    /\ \A o : o \in Op <=> o \in Run \/ o \in Req
    /\ \A r \in Run : r \notin Req /\ r \in Op /\ r[1] \in Msg /\ r[2] \in 1..MaxAttempts
                      /\ r = <<r[1], r[2]>> /\ RunKey(r) \in Key /\ RuleOf[RunKey(r)] \in Rule
    /\ \A m \in Msg, n \in 1..MaxAttempts : /\ <<m, n>> \in Run
                                            /\ <<m, n>>[1] = m /\ <<m, n>>[2] = n
    /\ NoAlert \notin Run
  BY ConstantsAssumption DEF Op, Run, RunKey

\* Alerts: every variable has its type in every reachable state.
THEOREM TypeCorrect == Spec => []TypeOK
<1> USE ConstantsAssumption, Operations DEF TypeOK, broker, table, memory, history
<1>1. Init => TypeOK
  BY DEF Init, InitWithout, NoEntity, Entity, Status, Active
<1>2. TypeOK /\ [Next]_vars => TypeOK'
  <2> SUFFICES ASSUME TypeOK, [Next]_vars PROVE TypeOK'
    OBVIOUS
  <2>0. NoEntity \in Entity /\ "OPEN" \in Status
    BY DEF NoEntity, Entity, Status, Active
  <2>00. \A o \in Op : After(o) \in {"ack", "done"}
    BY DEF After
  <2> USE <2>0, <2>00
  <2>1. ASSUME NEW m \in Msg, Deliver(m) PROVE TypeOK'
    <3>1. attempts[m] + 1 \in 1..MaxAttempts
      BY <2>1 DEF Deliver
    <3>2. attempts' \in [Msg -> 0..MaxAttempts]
      BY <2>1, <3>1 DEF Deliver
    <3>3. pc' = [pc EXCEPT ![<<m, attempts[m] + 1>>] = "find"]
      BY <2>1 DEF Deliver
    <3>4. QED
      BY <2>1, <3>2, <3>3 DEF Deliver
  <2>2. ASSUME NEW m \in Msg, Publish(m) \/ LoseChannel(m) PROVE TypeOK'
    BY <2>2 DEF Publish, LoseChannel
  <2>3. CASE BrokerRestarts
    BY <2>3 DEF BrokerRestarts
  <2>4. ASSUME NEW r \in Run, RunStep(r) PROVE TypeOK'
    <3>1. CASE KeyFails(r) BY <3>1 DEF KeyFails, Throw, Release
    <3>2. CASE FindActive(r)
      <4>1. PICK a \in ActiveAlerts(RunKey(r)) :
                copy' = [copy EXCEPT ![r] =
                            [alert |-> a, hits |-> hits[a] + 1, status |-> status[a]]]
        BY <3>2 DEF FindActive
      <4>2. a \in Run /\ status[a] \in Status
        BY DEF ActiveAlerts, Status
      <4>3. copy' \in [Op -> Entity]
        BY <4>1, <4>2 DEF Entity
      <4>4. \A o \in Op : pc'[o] \in {"reload", "update"} => copy'[o].alert \in Run
        BY <3>2, <4>1, <4>2 DEF FindActive
      <4>5. overlapped' \subseteq Key
        BY <3>2 DEF FindActive, Begin
      <4>6. QED
        BY <3>2, <4>3, <4>4, <4>5 DEF FindActive
    <3>3. CASE FindNone(r) BY <3>3 DEF FindNone, Begin
    <3>4. CASE Insert(r)
      <4>0. UNCHANGED <<broker, rules, failures, history>>
        BY <3>4 DEF Insert
      <4>1. CASE RuleOf[RunKey(r)] \in rules
        <5>1. /\ status' \in [Run -> Status \cup {"absent"}] /\ hits' \in [Run -> Nat]
              /\ counted' \in [Run -> SUBSET Run]
          BY <3>4, <4>1 DEF Insert
        <5>2. pc' = [pc EXCEPT ![r] = "ack"] /\ UNCHANGED <<memory, dropped>>
          BY <3>4, <4>1 DEF Insert
        <5>3. QED
          BY <4>0, <5>1, <5>2
      <4>2. CASE RuleOf[RunKey(r)] \notin rules
        <5>1. Throw(r) /\ UNCHANGED <<status, hits, counted>>
          BY <3>4, <4>2 DEF Insert
        <5>2. QED
          BY <4>0, <5>1 DEF Throw, Release
      <4>3. QED
        BY <4>1, <4>2
    <3>5. CASE Ack(r) BY <3>5 DEF Ack
    <3>6. QED
      BY <2>4, <3>1, <3>2, <3>3, <3>4, <3>5 DEF RunStep
  <2>5. ASSUME NEW o \in Op, SaveStep(o) PROVE TypeOK'
    <3>1. CASE Reload(o) BY <3>1 DEF Reload
    <3>2. CASE ReloadGone(o) BY <3>2 DEF ReloadGone, Throw, Release
    <3>3. CASE Update(o)
      <4> DEFINE a == copy[o].alert
                 live == status[a] # "absent"
      <4>1. a \in Run /\ copy[o].hits \in Nat /\ copy[o].status \in Status
            /\ AlertKey(a) \in Key
        BY <3>3 DEF Update, Entity, AlertKey
      <4>2. hits' = IF live /\ "hits" \in dirty[o] THEN [hits EXCEPT ![a] = copy[o].hits] ELSE hits
        BY <3>3 DEF Update
      <4>3. status' = IF live /\ "status" \in dirty[o]
                      THEN [status EXCEPT ![a] = copy[o].status] ELSE status
        BY <3>3 DEF Update
      <4>4. counted' \in [Run -> SUBSET Run] /\ reopened' \subseteq Run
        BY <3>3, <4>1 DEF Update
      <4>5. hits' \in [Run -> Nat] /\ status' \in [Run -> Status \cup {"absent"}]
        BY <4>1, <4>2, <4>3
      <4>6. QED
        BY <3>3, <4>4, <4>5 DEF Update, Release
    <3>4. QED
      BY <2>5, <3>1, <3>2, <3>3 DEF SaveStep
  <2>6. ASSUME NEW o \in Op, DbFails(o) PROVE TypeOK'
    BY <2>6 DEF DbFails, Throw, Release
  <2>7. ASSUME NEW o \in Op, Kill(o) PROVE TypeOK'
    <3>1. queue' \subseteq Msg /\ held' \subseteq Msg
      BY <2>7 DEF Kill
    <3>2. QED
      BY <2>7, <3>1 DEF Kill, Release
  <2>8. ASSUME NEW q \in Req, RequestStatus(q) PROVE TypeOK'
    <3>1. PICK a \in Run, s \in Status :
              /\ copy' = [copy EXCEPT ![q] = [alert |-> a, hits |-> hits[a], status |-> s]]
              /\ Begin(AlertKey(a))
      BY <2>8 DEF RequestStatus
    <3>2. copy' \in [Op -> Entity] /\ overlapped' \subseteq Key
      BY <3>1 DEF Entity, Begin, AlertKey
    <3>3. QED
      BY <2>8, <3>1, <3>2 DEF RequestStatus
  <2>9. ASSUME NEW u \in Rule, DeleteRule(u) PROVE TypeOK'
    BY <2>9 DEF DeleteRule
  <2>10. CASE UNCHANGED vars
    BY <2>10 DEF vars
  <2>11. QED
    BY <2>1, <2>2, <2>3, <2>4, <2>5, <2>6, <2>7, <2>8, <2>9, <2>10 DEF Next
<1>3. QED
  BY <1>1, <1>2, PTL DEF Spec

-----------------------------------------------------------------------------
(* The inductive invariant *)

Saving(o) == pc[o] \in {"reload", "update"}
Past(r) == pc[r] \in {"ack", "done"}
Live(a) == status[a] # "absent"

\* Deliveries are numbered: what was not delivered has not run.
Numbered ==
    /\ \A r \in Run : r[2] > attempts[r[1]] => pc[r] = "idle"
    /\ \A m \in held : attempts[m] > 0

\* Requests go through save() only.
Requests == \A q \in Req : pc[q] \in {"idle", "reload", "update", "done"}

\* Rows come from runs that are past their save, and an alert that is being
\* saved is one that was found; it is gone only with its rule.
Rows ==
    /\ \A a \in Run : Live(a) => Past(a)
    /\ \A o \in Op : Saving(o) =>
          /\ Past(copy[o].alert)
          /\ o \in Run => AlertKey(copy[o].alert) = RunKey(o)
          /\ Live(copy[o].alert) \/ RuleOf[AlertKey(copy[o].alert)] \notin rules
    /\ \A a \in Run : /\ IsFiniteSet(counted[a])
                      /\ \A r \in counted[a] : Past(r) /\ RunKey(r) = AlertKey(a)
    /\ \A a \in Run : counted[a] # {} => Live(a)

\* A run that is about to acknowledge has done what it was for, or could not.
Settled(r) ==
    \/ r \in dropped
    \/ \E a \in Run : r \in counted[a] /\ AlertKey(a) = RunKey(r)
    \/ RuleOf[RunKey(r)] \notin rules
AcksAreSettled == \A r \in Run : pc[r] = "ack" => Settled(r)

\* What a save() will write is at most one hit more than what is counted.
Extra(o) == IF o \in Run THEN 1 ELSE 0
CopiesNotAhead ==
    \A o \in Op : Saving(o) /\ Live(copy[o].alert) =>
        copy[o].hits <= Cardinality(counted[copy[o].alert]) + Extra(o)

\* On a key without overlap one operation is open, what it holds is what the
\* row says, and a handler that found no active alert still finds none.
Alone ==
    \A k \in Key \ overlapped : \A o, p \in OpenOn(k) : o = p
Current(o) ==
    /\ copy[o].hits = Cardinality(counted[copy[o].alert]) + Extra(o)
    /\ pc[o] = "update" /\ o \in Run => "hits" \in dirty[o]
    /\ o \in Run => copy[o].status = status[copy[o].alert]
CopiesCurrent ==
    \A o \in Op : Saving(o) /\ Live(copy[o].alert) /\ OpKey(o) \notin overlapped => Current(o)
NoneFound ==
    \A r \in Run : pc[r] = "insert" /\ RunKey(r) \notin overlapped =>
        ActiveAlerts(RunKey(r)) = {}

\* What a handler found was active.
FoundActive == \A r \in Run : Saving(r) => copy[r].status \in Active

-----------------------------------------------------------------------------
(* Each part is preserved *)

\* Numbered and the broker's part: an event that is out has its last run going.
LEMMA BrokerKeeps ==
    ASSUME TypeOK, Numbered, OneOutstandingDelivery, Next
    PROVE  Numbered' /\ OneOutstandingDelivery'
<1> USE Operations DEF TypeOK, Numbered, OneOutstandingDelivery, broker, table, memory, history
<1>1. \A m \in held : <<m, attempts[m]>> \in Run
  OBVIOUS
\* Steps that leave the broker alone and end no run.
<1>2. ASSUME UNCHANGED broker, NEW o \in Op, NEW l, pc' = [pc EXCEPT ![o] = l],
             o \in Run => pc[o] # "idle" /\ l \notin {"idle", "done"}
      PROVE  Numbered' /\ OneOutstandingDelivery'
  <2>1. UNCHANGED <<queue, held, attempts>>
    BY <1>2
  <2>2. Numbered'
    BY <1>2, <2>1
  <2>3. OneOutstandingDelivery'
    BY <1>1, <1>2, <2>1
  <2>4. QED
    BY <2>2, <2>3
<1>3. \A o \in Run : After(o) = "ack"
  BY DEF After
<1>4. ASSUME NEW m \in Msg, Deliver(m) PROVE Numbered' /\ OneOutstandingDelivery'
  <2> DEFINE r == <<m, attempts[m] + 1>>
  <2>1. r \in Run /\ r[1] = m /\ r[2] = attempts[m] + 1
    BY <1>4, ConstantsAssumption DEF Deliver
  <2>2. /\ attempts' = [attempts EXCEPT ![m] = attempts[m] + 1]
        /\ pc' = [pc EXCEPT ![r] = "find"]
        /\ queue' = queue \ {m} /\ held' = held \cup {m} /\ m \in queue
    BY <1>4 DEF Deliver
  <2>3. Numbered'
    BY <2>1, <2>2
  <2>4. ASSUME NEW n \in held' PROVE pc'[<<n, attempts'[n]>>] \notin {"idle", "done"}
    <3>1. CASE n = m
      BY <2>1, <2>2, <3>1
    <3>2. CASE n # m
      <4>1. n \in held /\ attempts'[n] = attempts[n] /\ <<n, attempts[n]>> # r
        BY <2>2, <3>2
      <4>2. QED
        BY <1>1, <2>1, <2>2, <4>1
    <3>3. QED
      BY <3>1, <3>2
  <2>5. QED
    BY <2>2, <2>3, <2>4
<1>5. ASSUME NEW m \in Msg, Publish(m) \/ LoseChannel(m) PROVE Numbered' /\ OneOutstandingDelivery'
  BY <1>5 DEF Publish, LoseChannel
<1>6. CASE BrokerRestarts
  BY <1>6 DEF BrokerRestarts
<1>7. ASSUME NEW r \in Run, RunStep(r) PROVE Numbered' /\ OneOutstandingDelivery'
  <2>1. CASE KeyFails(r) BY <1>2, <1>3, <2>1 DEF KeyFails, Throw
  <2>2. CASE FindActive(r) BY <1>2, <2>2 DEF FindActive
  <2>3. CASE FindNone(r) BY <1>2, <2>3 DEF FindNone
  <2>4. CASE Insert(r) BY <1>2, <1>3, <2>4 DEF Insert, Throw
  <2>5. CASE Ack(r)
    <3>1. /\ UNCHANGED <<queue, attempts>> /\ pc[r] = "ack"
          /\ pc' = [pc EXCEPT ![r] = "done"]
          /\ held' = IF attempts[r[1]] = r[2] THEN held \ {r[1]} ELSE held
      BY <2>5 DEF Ack
    <3>2. \A m \in held' : <<m, attempts[m]>> # r
      BY <3>1
    <3>3. QED
      BY <1>1, <3>1, <3>2
  <2>6. QED
    BY <1>7, <2>1, <2>2, <2>3, <2>4, <2>5 DEF RunStep
<1>8. ASSUME NEW o \in Op, SaveStep(o) PROVE Numbered' /\ OneOutstandingDelivery'
  <2>1. CASE Reload(o) BY <1>2, <2>1 DEF Reload
  <2>2. CASE ReloadGone(o) BY <1>2, <1>3, <2>2 DEF ReloadGone, Throw
  <2>3. CASE Update(o) BY <1>2, <1>3, <2>3 DEF Update
  <2>4. QED
    BY <1>8, <2>1, <2>2, <2>3 DEF SaveStep
<1>9. ASSUME NEW o \in Op, DbFails(o) PROVE Numbered' /\ OneOutstandingDelivery'
  BY <1>2, <1>3, <1>9 DEF DbFails, Throw
<1>10. ASSUME NEW o \in Op, Kill(o) PROVE Numbered' /\ OneOutstandingDelivery'
  <2>1. attempts' = attempts /\ pc' = [pc EXCEPT ![o] = "done"] /\ pc[o] # "idle"
    BY <1>10 DEF Kill
  <2>2. \/ /\ o \in Run /\ held' = held \ {o[1]} /\ queue' = queue \cup {o[1]}
           /\ o[1] \in held /\ attempts[o[1]] = o[2]
        \/ /\ ~(o \in Run /\ o[1] \in held /\ attempts[o[1]] = o[2])
           /\ UNCHANGED <<held, queue>>
    BY <1>10 DEF Kill
  <2>3. \A m \in held' : m \in held /\ <<m, attempts[m]>> # o
    BY <1>1, <2>2
  <2>4. queue' \cap held' = {}
    BY <2>2
  <2>5. QED
    BY <1>1, <2>1, <2>3, <2>4
<1>11. ASSUME NEW q \in Req, RequestStatus(q) PROVE Numbered' /\ OneOutstandingDelivery'
  BY <1>2, <1>11 DEF RequestStatus
<1>12. ASSUME NEW u \in Rule, DeleteRule(u) PROVE Numbered' /\ OneOutstandingDelivery'
  BY <1>12 DEF DeleteRule
<1>13. QED
  BY <1>4, <1>5, <1>6, <1>7, <1>8, <1>9, <1>10, <1>11, <1>12 DEF Next

\* Rows, for a step of one operation that leaves the tables alone.
LEMMA RowsFrame ==
    ASSUME TypeOK, TypeOK', Requests, Rows, NEW o \in Op, NEW l,
           pc' = [pc EXCEPT ![o] = l],
           UNCHANGED <<status, rules, counted>>,
           \A p \in Op \ {o} : copy'[p] = copy[p],
           Past(o) => l \in {"ack", "done"},
           o \in Req => l \in {"idle", "reload", "update", "done"},
           l \in {"reload", "update"} =>
              \/ Saving(o) /\ copy'[o].alert = copy[o].alert
              \/ /\ Live(copy'[o].alert)
                 /\ o \in Run => AlertKey(copy'[o].alert) = RunKey(o)
    PROVE  Requests' /\ Rows'
<1> USE Operations DEF TypeOK, Rows, Requests, Past, Live, Saving
<1>1. \A r \in Run : Past(r) => Past(r)'
  OBVIOUS
<1>2. Requests'
  OBVIOUS
<1>3. \A a \in Run : Live(a)' => Past(a)'
  BY <1>1
<1>4. ASSUME NEW p \in Op, Saving(p)'
      PROVE  /\ Past(copy[p].alert)'
             /\ p \in Run => AlertKey(copy'[p].alert) = RunKey(p)
             /\ Live(copy[p].alert)' \/ RuleOf[AlertKey(copy'[p].alert)] \notin rules'
  <2>1. CASE p # o
    BY <1>1, <1>4, <2>1
  <2>2. CASE p = o
    BY <1>1, <1>4, <2>2
  <2>3. QED
    BY <2>1, <2>2
<1>5. \A a \in Run : /\ IsFiniteSet(counted'[a])
                     /\ \A r \in counted'[a] : Past(r)' /\ RunKey(r) = AlertKey(a)
  BY <1>1
<1>6. \A a \in Run : counted'[a] # {} => Live(a)'
  OBVIOUS
<1>7. QED
  BY <1>2, <1>3, <1>4, <1>5, <1>6 DEF AlertKey, RunKey

\* Rows come from past runs and what is being saved was found, in every state.
LEMMA RowsKeep ==
    ASSUME TypeOK, TypeOK', Numbered, Requests, Rows, Next
    PROVE  Requests' /\ Rows'
<1> USE Operations DEF broker, table, memory, history
<1>0. /\ \A r \in Run : Past(r) \in BOOLEAN /\ After(r) = "ack"
      /\ \A q \in Req : After(q) = "done" /\ ~(pc[q] \in {"find", "insert", "ack"})
      /\ \A o \in Op : pc[o] \notin {"ack", "done"} => ~Past(o)
  BY DEF After, Requests, Past
<1>1. ASSUME NEW o \in Op, Throw(o), UNCHANGED table, ~Past(o) PROVE Requests' /\ Rows'
  <2>1. /\ pc' = [pc EXCEPT ![o] = After(o)]
        /\ After(o) \in {"ack", "done"} /\ (o \in Req => After(o) = "done")
    BY <1>1 DEF Throw, After
  <2>2. \A p \in Op \ {o} : copy'[p] = copy[p]
    BY <1>1 DEF Throw, Release, TypeOK
  <2>3. QED
    BY <1>1, <2>1, <2>2, RowsFrame
<1>2. ASSUME NEW m \in Msg, Deliver(m) PROVE Requests' /\ Rows'
  <2> DEFINE r == <<m, attempts[m] + 1>>
  <2>1. r \in Run /\ pc[r] = "idle" /\ pc' = [pc EXCEPT ![r] = "find"]
    BY <1>2, ConstantsAssumption DEF Deliver, Numbered, TypeOK
  <2>2. UNCHANGED <<status, rules, counted, copy>>
    BY <1>2 DEF Deliver
  <2>3. r \in Op /\ r \notin Req /\ ~Past(r)
    BY <2>1 DEF Past
  <2>4. QED
    BY <2>1, <2>2, <2>3, RowsFrame
<1>3. ASSUME NEW m \in Msg, Publish(m) \/ LoseChannel(m) PROVE Requests' /\ Rows'
  BY <1>3 DEF Publish, LoseChannel, Requests, Rows, Past, Live, Saving
<1>4. CASE BrokerRestarts
  BY <1>4 DEF BrokerRestarts, Requests, Rows, Past, Live, Saving
<1>5. ASSUME NEW r \in Run, RunStep(r) PROVE Requests' /\ Rows'
  <2>1. CASE KeyFails(r) BY <1>0, <1>1, <2>1 DEF KeyFails
  <2>2. CASE FindActive(r)
    <3>1. PICK a \in ActiveAlerts(RunKey(r)) :
              copy' = [copy EXCEPT ![r] =
                          [alert |-> a, hits |-> hits[a] + 1, status |-> status[a]]]
      BY <2>2 DEF FindActive
    <3>2. a \in Run /\ status[a] # "absent" /\ AlertKey(a) = RunKey(r)
      BY DEF ActiveAlerts, Active
    <3>3. copy'[r].alert = a /\ \A p \in Op \ {r} : copy'[p] = copy[p]
      BY <3>1 DEF TypeOK
    <3>4. /\ pc[r] = "find" /\ pc' = [pc EXCEPT ![r] = "reload"]
          /\ UNCHANGED <<status, rules, counted>>
      BY <2>2 DEF FindActive
    <3>5. Live(copy'[r].alert) /\ ~Past(r)
      BY <3>2, <3>3, <3>4 DEF Live, Past
    <3>6. QED
      BY <3>2, <3>3, <3>4, <3>5, RowsFrame
  <2>3. CASE FindNone(r)
    <3>1. /\ pc[r] = "find" /\ pc' = [pc EXCEPT ![r] = "insert"]
          /\ UNCHANGED <<status, rules, counted, copy>>
      BY <2>3 DEF FindNone
    <3>2. QED
      BY <1>0, <3>1, RowsFrame
  <2>4. CASE Insert(r)
    <3>1. CASE RuleOf[RunKey(r)] \in rules
      <4>1. /\ pc[r] = "insert" /\ pc' = [pc EXCEPT ![r] = "ack"]
            /\ status' = [status EXCEPT ![r] = "OPEN"]
            /\ counted' = [counted EXCEPT ![r] = {r}] /\ UNCHANGED <<copy, rules>>
        BY <2>4, <3>1 DEF Insert
      <4>2. IsFiniteSet({r})
        BY FS_Singleton
      <4>3. QED
        BY <4>1, <4>2 DEF TypeOK, Requests, Rows, Past, Live, Saving, AlertKey
    <3>2. CASE RuleOf[RunKey(r)] \notin rules
      <4>1. Throw(r) /\ UNCHANGED table /\ pc[r] = "insert"
        BY <2>4, <3>2 DEF Insert
      <4>2. QED
        BY <1>0, <1>1, <4>1
    <3>3. QED
      BY <3>1, <3>2
  <2>5. CASE Ack(r)
    <3>1. pc' = [pc EXCEPT ![r] = "done"] /\ UNCHANGED <<status, rules, counted, copy>>
      BY <2>5 DEF Ack
    <3>2. QED
      BY <3>1, RowsFrame
  <2>6. QED
    BY <1>5, <2>1, <2>2, <2>3, <2>4, <2>5 DEF RunStep
<1>6. ASSUME NEW o \in Op, SaveStep(o) PROVE Requests' /\ Rows'
  <2>0. ~Past(o)
    BY <1>6 DEF SaveStep, Reload, ReloadGone, Update, Past
  <2>1. CASE Reload(o)
    <3>1. /\ pc' = [pc EXCEPT ![o] = "update"] /\ Saving(o)
          /\ UNCHANGED <<status, rules, counted, copy>>
      BY <2>1 DEF Reload, Saving
    <3>2. QED
      BY <2>0, <3>1, RowsFrame
  <2>2. CASE ReloadGone(o) BY <1>1, <2>0, <2>2 DEF ReloadGone
  <2>3. CASE Update(o)
    <3> DEFINE a == copy[o].alert
    <3>1. /\ pc[o] = "update" /\ pc' = [pc EXCEPT ![o] = After(o)] /\ rules' = rules
          /\ copy' = [copy EXCEPT ![o] = NoEntity] /\ a \in Run
      BY <2>3 DEF Update, Release, TypeOK
    <3>2. \A b \in Run : status[b] = "absent" <=> status'[b] = "absent"
      <4>1. status' = IF status[a] # "absent" /\ "status" \in dirty[o]
                      THEN [status EXCEPT ![a] = copy[o].status] ELSE status
        BY <2>3 DEF Update
      <4>2. copy[o].status # "absent"
        BY DEF TypeOK, Entity, Status, Active
      <4>3. QED
        BY <4>1, <4>2 DEF TypeOK
    <3>3. \A b \in Run : \/ counted'[b] = counted[b]
                         \/ o \in Run /\ b = a /\ counted'[b] = counted[b] \cup {o}
      BY <2>3, <3>1 DEF Update, TypeOK
    <3>4. \A p \in Op : /\ Past(p) => Past(p)'
                        /\ Saving(p)' => Saving(p) /\ p # o /\ copy'[p] = copy[p]
      BY <1>0, <3>1 DEF TypeOK, Past, Saving, After
    <3>5. Requests'
      BY <1>0, <3>1 DEF Requests, TypeOK
    <3>6. \A b \in Run : Live(b)' => Past(b)'
      BY <3>2, <3>4 DEF Rows, Live
    <3>7. o \in Run => AlertKey(a) = RunKey(o) /\ Past(o)'
      BY <1>0, <3>1 DEF Rows, Saving, TypeOK, Past
    <3>8. \A b \in Run : /\ IsFiniteSet(counted'[b])
                         /\ \A r \in counted'[b] : Past(r)' /\ RunKey(r) = AlertKey(b)
      <4> TAKE b \in Run
      <4>1. IsFiniteSet(counted[b]) /\ IsFiniteSet(counted[b] \cup {o})
        BY FS_AddElement DEF Rows
      <4>2. ASSUME NEW r \in counted[b] PROVE Past(r)' /\ RunKey(r) = AlertKey(b)
        <5>1. r \in Op /\ Past(r) /\ RunKey(r) = AlertKey(b)
          BY DEF Rows, TypeOK
        <5>2. QED
          BY <3>4, <5>1
      <4>3. CASE counted'[b] = counted[b]
        BY <4>1, <4>2, <4>3
      <4>4. CASE o \in Run /\ b = a /\ counted'[b] = counted[b] \cup {o}
        <5>1. Past(o)' /\ RunKey(o) = AlertKey(b)
          BY <3>7, <4>4
        <5>2. ASSUME NEW r \in counted'[b] PROVE Past(r)' /\ RunKey(r) = AlertKey(b)
          <6>1. CASE r = o BY <5>1, <6>1
          <6>2. CASE r \in counted[b] BY <4>2, <6>2
          <6>3. QED
            BY <4>4, <5>2, <6>1, <6>2
        <5>3. QED
          BY <4>1, <4>4, <5>2
      <4>5. QED
        BY <3>3, <4>3, <4>4
    <3>9. ASSUME NEW p \in Op, Saving(p)'
          PROVE  /\ Past(copy[p].alert)'
                 /\ p \in Run => AlertKey(copy'[p].alert) = RunKey(p)
                 /\ Live(copy[p].alert)' \/ RuleOf[AlertKey(copy'[p].alert)] \notin rules'
      <4>1. copy[p].alert \in Run
        BY <3>4, <3>9 DEF TypeOK, Saving
      <4>2. QED
        BY <3>1, <3>2, <3>4, <3>9, <4>1 DEF Rows, Live
    <3>10. \A b \in Run : counted'[b] # {} => Live(b)'
      <4>1. counted' = IF Live(a) /\ o \in Run
                       THEN [counted EXCEPT ![a] = @ \cup {o}] ELSE counted
        BY <2>3 DEF Update, Live
      <4>2. QED
        BY <3>1, <3>2, <4>1 DEF Rows, Live, TypeOK
    <3>11. QED
      BY <3>5, <3>6, <3>8, <3>9, <3>10 DEF Rows, AlertKey, RunKey
  <2>4. QED
    BY <1>6, <2>1, <2>2, <2>3 DEF SaveStep
<1>7. ASSUME NEW o \in Op, DbFails(o) PROVE Requests' /\ Rows'
  <2>1. Throw(o) /\ UNCHANGED table /\ ~Past(o)
    BY <1>7 DEF DbFails, Past
  <2>2. QED
    BY <1>1, <2>1
<1>8. ASSUME NEW o \in Op, Kill(o) PROVE Requests' /\ Rows'
  <2>1. /\ pc' = [pc EXCEPT ![o] = "done"] /\ UNCHANGED <<status, rules, counted>>
        /\ copy' = [copy EXCEPT ![o] = NoEntity]
    BY <1>8 DEF Kill, Release
  <2>2. \A p \in Op \ {o} : copy'[p] = copy[p]
    BY <2>1 DEF TypeOK
  <2>3. QED
    BY <2>1, <2>2, RowsFrame
<1>9. ASSUME NEW q \in Req, RequestStatus(q) PROVE Requests' /\ Rows'
  <2>1. PICK a \in Run, s \in Status :
            /\ status[a] # "absent"
            /\ copy' = [copy EXCEPT ![q] = [alert |-> a, hits |-> hits[a], status |-> s]]
    BY <1>9 DEF RequestStatus
  <2>2. copy'[q].alert = a /\ \A p \in Op \ {q} : copy'[p] = copy[p]
    BY <2>1 DEF TypeOK
  <2>3. /\ pc[q] = "idle" /\ pc' = [pc EXCEPT ![q] = "reload"]
        /\ UNCHANGED <<status, rules, counted>>
    BY <1>9 DEF RequestStatus
  <2>4. Live(copy'[q].alert) /\ ~Past(q)
    BY <2>1, <2>2, <2>3 DEF Live, Past
  <2>5. QED
    BY <2>2, <2>3, <2>4, RowsFrame
<1>10. ASSUME NEW u \in Rule, DeleteRule(u) PROVE Requests' /\ Rows'
  <2>1. /\ UNCHANGED <<pc, copy>> /\ rules' = rules \ {u}
        /\ \A a \in Run : IF RuleOf[AlertKey(a)] = u
                          THEN status'[a] = "absent" /\ counted'[a] = {}
                          ELSE status'[a] = status[a] /\ counted'[a] = counted[a]
    BY <1>10 DEF DeleteRule
  <2>2. IsFiniteSet({})
    BY FS_EmptySet
  <2>3. \A p \in Op : Saving(p) => copy[p].alert \in Run
    BY DEF TypeOK, Saving
  <2>4. QED
    BY <2>1, <2>2, <2>3 DEF Requests, Rows, Past, Live, Saving
<1>11. QED
  BY <1>2, <1>3, <1>4, <1>5, <1>6, <1>7, <1>8, <1>9, <1>10 DEF Next

\* What was settled stays so: the ghosts grow, and only the deletion of a rule
\* takes counts back.
LEMMA Monotone ==
    ASSUME TypeOK, Rows, Next
    PROVE  /\ dropped \subseteq dropped' /\ vanished \subseteq vanished' /\ rules' \subseteq rules
           /\ \A a \in Run : \/ counted[a] \subseteq counted'[a]
                             \/ RuleOf[AlertKey(a)] \notin rules'
<1> USE Operations DEF broker, table, memory, history, Throw
<1> DEFINE Goal == /\ dropped \subseteq dropped' /\ vanished \subseteq vanished'
                   /\ rules' \subseteq rules
                   /\ \A a \in Run : \/ counted[a] \subseteq counted'[a]
                                     \/ RuleOf[AlertKey(a)] \notin rules'
<1>1. ASSUME NEW m \in Msg, Publish(m) \/ Deliver(m) \/ LoseChannel(m) PROVE Goal
  BY <1>1 DEF Publish, Deliver, LoseChannel
<1>2. CASE BrokerRestarts
  BY <1>2 DEF BrokerRestarts
<1>3. ASSUME NEW r \in Run, RunStep(r) PROVE Goal
  <2>1. CASE KeyFails(r) BY <2>1 DEF KeyFails
  <2>2. CASE FindActive(r) BY <2>2 DEF FindActive
  <2>3. CASE FindNone(r) BY <2>3 DEF FindNone
  <2>4. CASE Insert(r)
    <3>1. counted[r] = {}
      BY <2>4 DEF Insert, Rows, Past
    <3>2. CASE RuleOf[RunKey(r)] \in rules BY <2>4, <3>1, <3>2 DEF Insert, TypeOK
    <3>3. CASE RuleOf[RunKey(r)] \notin rules BY <2>4, <3>3 DEF Insert
    <3>4. QED
      BY <3>2, <3>3
  <2>5. CASE Ack(r) BY <2>5 DEF Ack
  <2>6. QED
    BY <1>3, <2>1, <2>2, <2>3, <2>4, <2>5 DEF RunStep
<1>4. ASSUME NEW o \in Op, SaveStep(o) PROVE Goal
  <2>1. CASE Reload(o) BY <2>1 DEF Reload
  <2>2. CASE ReloadGone(o) BY <2>2 DEF ReloadGone
  <2>3. CASE Update(o)
    <3>1. /\ UNCHANGED <<dropped, vanished, rules>>
          /\ \/ counted' = counted
             \/ counted' = [counted EXCEPT ![copy[o].alert] = @ \cup {o}]
      BY <2>3 DEF Update
    <3>2. QED
      BY <3>1 DEF TypeOK
  <2>4. QED
    BY <1>4, <2>1, <2>2, <2>3 DEF SaveStep
<1>5. ASSUME NEW o \in Op, DbFails(o) \/ Kill(o) PROVE Goal
  BY <1>5 DEF DbFails, Kill
<1>6. ASSUME NEW q \in Req, RequestStatus(q) PROVE Goal
  BY <1>6 DEF RequestStatus
<1>7. ASSUME NEW u \in Rule, DeleteRule(u) PROVE Goal
  BY <1>7 DEF DeleteRule, TypeOK
<1>8. QED
  BY <1>1, <1>2, <1>3, <1>4, <1>5, <1>6, <1>7 DEF Next

\* A run gets to its ack with its save done, its exception caught, or its rule
\* deleted under it.
LEMMA NewAcks ==
    ASSUME TypeOK, TypeOK', Rows, Next, NEW x \in Run, pc[x] # "ack", pc'[x] = "ack"
    PROVE  Settled(x)'
<1> USE Operations DEF TypeOK
<1>1. ASSUME NEW o \in Op, Throw(o) PROVE Settled(x)'
  <2>1. x = o
    BY <1>1 DEF Throw
  <2>2. QED
    BY <1>1, <2>1 DEF Throw, Settled
<1>2. ASSUME NEW m \in Msg, Deliver(m) PROVE FALSE
  BY <1>2 DEF Deliver
<1>3. ASSUME NEW m \in Msg, Publish(m) \/ LoseChannel(m) PROVE FALSE
  BY <1>3 DEF Publish, LoseChannel
<1>4. CASE BrokerRestarts
  BY <1>4 DEF BrokerRestarts
<1>5. ASSUME NEW r \in Run, RunStep(r) PROVE Settled(x)'
  <2>1. CASE KeyFails(r) BY <1>1, <2>1 DEF KeyFails
  <2>2. CASE FindActive(r) BY <2>2 DEF FindActive
  <2>3. CASE FindNone(r) BY <2>3 DEF FindNone
  <2>4. CASE Insert(r)
    <3>1. CASE RuleOf[RunKey(r)] \in rules
      <4>1. x = r /\ counted'[r] = {r}
        BY <2>4, <3>1 DEF Insert
      <4>2. QED
        BY <4>1 DEF Settled, AlertKey
    <3>2. CASE RuleOf[RunKey(r)] \notin rules
      BY <1>1, <2>4, <3>2 DEF Insert
    <3>3. QED
      BY <3>1, <3>2
  <2>5. CASE Ack(r) BY <2>5 DEF Ack
  <2>6. QED
    BY <1>5, <2>1, <2>2, <2>3, <2>4, <2>5 DEF RunStep
<1>6. ASSUME NEW o \in Op, SaveStep(o) PROVE Settled(x)'
  <2>1. CASE Reload(o) BY <2>1 DEF Reload
  <2>2. CASE ReloadGone(o) BY <1>1, <2>2 DEF ReloadGone
  <2>3. CASE Update(o)
    <3> DEFINE a == copy[o].alert
    <3>1. x = o /\ a \in Run /\ AlertKey(a) = RunKey(x) /\ rules' = rules
      BY <2>3 DEF Update, Rows, Saving, table
    <3>2. CASE Live(a)
      <4>1. x \in counted'[a]
        BY <2>3, <3>1, <3>2 DEF Update, Live
      <4>2. QED
        BY <3>1, <4>1 DEF Settled, AlertKey, RunKey
    <3>3. CASE ~Live(a)
      <4>1. RuleOf[RunKey(x)] \notin rules'
        BY <2>3, <3>1, <3>3 DEF Update, Rows, Saving
      <4>2. QED
        BY <4>1 DEF Settled, RunKey
    <3>4. QED
      BY <3>2, <3>3
  <2>4. QED
    BY <1>6, <2>1, <2>2, <2>3 DEF SaveStep
<1>7. ASSUME NEW o \in Op, DbFails(o) PROVE Settled(x)'
  BY <1>1, <1>7 DEF DbFails
<1>8. ASSUME NEW o \in Op, Kill(o) PROVE FALSE
  BY <1>8 DEF Kill
<1>9. ASSUME NEW q \in Req, RequestStatus(q) PROVE FALSE
  BY <1>9 DEF RequestStatus
<1>10. ASSUME NEW u \in Rule, DeleteRule(u) PROVE FALSE
  BY <1>10 DEF DeleteRule
<1>11. QED
  BY <1>2, <1>3, <1>4, <1>5, <1>6, <1>7, <1>8, <1>9, <1>10 DEF Next

\* An event leaves the broker by the ack of its last run or by a restart.
LEMMA NewAcked ==
    ASSUME TypeOK, Next, NEW m \in Msg, ~Acked(m), Acked(m)'
    PROVE  m \in vanished' \/ \E r \in Run : r[1] = m /\ pc[r] = "ack"
<1> USE Operations DEF Acked, broker, TypeOK
<1>1. ASSUME UNCHANGED broker PROVE FALSE
  BY <1>1
<1>2. ASSUME NEW n \in Msg, Publish(n) \/ Deliver(n) \/ LoseChannel(n) PROVE FALSE
  BY <1>2 DEF Publish, Deliver, LoseChannel
<1>3. CASE BrokerRestarts
  BY <1>3 DEF BrokerRestarts
<1>4. ASSUME NEW r \in Run, RunStep(r) PROVE r[1] = m /\ pc[r] = "ack"
  BY <1>1, <1>4 DEF RunStep, KeyFails, FindActive, FindNone, Insert, Ack
<1>5. ASSUME NEW o \in Op, SaveStep(o) \/ DbFails(o) PROVE FALSE
  BY <1>1, <1>5 DEF SaveStep, Reload, ReloadGone, Update, DbFails
<1>6. ASSUME NEW o \in Op, Kill(o) PROVE FALSE
  BY <1>6 DEF Kill
<1>7. ASSUME NEW q \in Req, RequestStatus(q) PROVE FALSE
  BY <1>1, <1>7 DEF RequestStatus
<1>8. ASSUME NEW u \in Rule, DeleteRule(u) PROVE FALSE
  BY <1>1, <1>8 DEF DeleteRule
<1>9. QED
  BY <1>2, <1>3, <1>4, <1>5, <1>6, <1>7, <1>8 DEF Next

\* No event is lost without a trace, in every state.
LEMMA AcksKeep ==
    ASSUME TypeOK, TypeOK', Rows, AcksAreSettled, AckedIsAccountedFor, Next
    PROVE  AcksAreSettled' /\ AckedIsAccountedFor'
<1> USE Operations DEF TypeOK
<1>1. ASSUME NEW r \in Run, Settled(r) PROVE Settled(r)'
  BY <1>1, Monotone DEF Settled, AlertKey, RunKey
<1>2. AcksAreSettled'
  BY <1>1, NewAcks DEF AcksAreSettled
<1>3. ASSUME NEW m \in Msg, Acked(m)'
      PROVE  \/ \E r \in Run : r[1] = m /\ r \in dropped'
             \/ \E r, a \in Run : r[1] = m /\ r \in counted'[a] /\ AlertKey(a) = KeyOf[m]
             \/ RuleOf[KeyOf[m]] \notin rules'
             \/ m \in vanished'
  <2>1. CASE Acked(m)
    <3>1. \/ \E r \in Run : r[1] = m /\ r \in dropped
          \/ \E r, a \in Run : r[1] = m /\ r \in counted[a] /\ AlertKey(a) = KeyOf[m]
          \/ RuleOf[KeyOf[m]] \notin rules \/ m \in vanished
      BY <2>1 DEF AckedIsAccountedFor
    <3>2. ASSUME NEW r \in Run, NEW a \in Run,
                 r[1] = m, r \in counted[a], AlertKey(a) = KeyOf[m]
          PROVE  r \in counted'[a] \/ RuleOf[KeyOf[m]] \notin rules'
      BY <3>2, Monotone
    <3>3. dropped \subseteq dropped' /\ vanished \subseteq vanished' /\ rules' \subseteq rules
      BY Monotone
    <3>4. QED
      BY <3>1, <3>2, <3>3
  <2>2. CASE \E r \in Run : r[1] = m /\ Settled(r)
    <3>1. PICK r \in Run : r[1] = m /\ Settled(r)
      BY <2>2
    <3>2. Settled(r)' /\ RunKey(r) = KeyOf[m]
      BY <1>1, <3>1 DEF RunKey
    <3>3. \/ r \in dropped'
          \/ \E a \in Run : r \in counted'[a] /\ AlertKey(a) = RunKey(r)
          \/ RuleOf[RunKey(r)] \notin rules'
      BY <3>2 DEF Settled, AlertKey, RunKey
    <3>4. QED
      BY <3>1, <3>2, <3>3
  <2>3. QED
    BY <1>3, <2>1, <2>2, NewAcked DEF AcksAreSettled
<1>4. QED
  BY <1>2, <1>3 DEF AckedIsAccountedFor, AlertKey, RunKey

-----------------------------------------------------------------------------
(* The parts about alerts and races *)

Open(o) == pc[o] \in {"insert", "reload", "update"}

\* A step that touches no alert and begins nothing.
Silent ==
    /\ UNCHANGED <<status, hits, counted, overlapped, reopened>>
    /\ \A p \in Op : Open(p)' => pc'[p] = pc[p] /\ copy'[p] = copy[p] /\ dirty'[p] = dirty[p]

\* Inserts that the foreign key lets through.
InsertRow(r) == Insert(r) /\ RuleOf[RunKey(r)] \in rules

\* Seven kinds of step do more than end something.
LEMMA StepForms ==
    ASSUME TypeOK, Requests, [Next]_vars
    PROVE  \/ Silent
           \/ \E r \in Run : FindActive(r) \/ FindNone(r) \/ InsertRow(r)
           \/ \E o \in Op : Reload(o) \/ Update(o)
           \/ \E q \in Req : RequestStatus(q)
           \/ \E u \in Rule : DeleteRule(u)
<1> USE Operations DEF TypeOK, broker, table, memory, history
<1>1. ASSUME NEW o \in Op, Throw(o), UNCHANGED <<table, history>> PROVE Silent
  <2>1. /\ pc' = [pc EXCEPT ![o] = After(o)] /\ After(o) \in {"ack", "done"}
        /\ copy' = [copy EXCEPT ![o] = NoEntity] /\ dirty' = [dirty EXCEPT ![o] = {}]
    BY <1>1 DEF Throw, Release, After
  <2>2. QED
    BY <1>1, <2>1 DEF Silent, Open
<1>2. ASSUME NEW m \in Msg, Deliver(m) PROVE Silent
  <2>1. pc' = [pc EXCEPT ![<<m, attempts[m] + 1>>] = "find"] /\ UNCHANGED <<table, memory, history>>
    BY <1>2 DEF Deliver
  <2>2. QED
    BY <2>1 DEF Silent, Open
<1>3. ASSUME NEW m \in Msg, Publish(m) \/ LoseChannel(m) PROVE Silent
  BY <1>3 DEF Publish, LoseChannel, Silent, Open
<1>4. CASE BrokerRestarts
  BY <1>4 DEF BrokerRestarts, Silent, Open
<1>5. ASSUME NEW r \in Run, KeyFails(r) PROVE Silent
  BY <1>1, <1>5 DEF KeyFails
<1>6. ASSUME NEW r \in Run, Insert(r), ~InsertRow(r) PROVE Silent
  BY <1>1, <1>6 DEF Insert, InsertRow
<1>7. ASSUME NEW r \in Run, Ack(r) PROVE Silent
  BY <1>7 DEF Ack, Silent, Open
<1>8. ASSUME NEW o \in Op, ReloadGone(o) \/ DbFails(o) PROVE Silent
  BY <1>1, <1>8 DEF ReloadGone, DbFails
<1>9. ASSUME NEW o \in Op, Kill(o) PROVE Silent
  BY <1>9 DEF Kill, Release, Silent, Open
<1>10. CASE UNCHANGED vars
  BY <1>10 DEF vars, Silent, Open
<1>11. QED
  BY <1>2, <1>3, <1>4, <1>5, <1>6, <1>7, <1>8, <1>9, <1>10 DEF Next, RunStep, SaveStep

\* A count is a number, and one more run makes it one more.
LEMMA Counts ==
    ASSUME TypeOK, Rows, NEW a \in Run
    PROVE  /\ Cardinality(counted[a]) \in Nat
           /\ \A x : x \notin counted[a] =>
                 Cardinality(counted[a] \cup {x}) = Cardinality(counted[a]) + 1
  BY FS_CardinalityType, FS_AddElement DEF Rows

\* What an UPDATE of o does: it is about one alert, a, that was found, and does
\* nothing if that is gone.
UpdateOf(o, a) ==
    /\ a \in Run /\ pc[o] = "update" /\ Saving(o) /\ copy[o].hits \in Nat
    /\ o \notin counted[a]
    /\ \A p \in Op : Open(p)' => /\ p # o /\ pc'[p] = pc[p]
                                 /\ copy'[p] = copy[p] /\ dirty'[p] = dirty[p]
    /\ overlapped' = overlapped
    /\ \A b \in Run : b # a =>
          hits'[b] = hits[b] /\ status'[b] = status[b] /\ counted'[b] = counted[b]
    /\ status[a] = "absent" => UNCHANGED <<hits, status, counted>>
    /\ status[a] # "absent" =>
          /\ hits'[a] = IF "hits" \in dirty[o] THEN copy[o].hits ELSE hits[a]
          /\ status'[a] = IF "status" \in dirty[o] THEN copy[o].status ELSE status[a]
          /\ o \in Run => counted'[a] = counted[a] \cup {o}
          /\ o \notin Run => counted'[a] = counted[a]

LEMMA UpdateEffect ==
    ASSUME TypeOK, Rows, NEW o \in Op, Update(o)
    PROVE  UpdateOf(o, copy[o].alert)
<1> USE Operations DEF TypeOK
<1> DEFINE a == copy[o].alert
<1>1. a \in Run /\ pc[o] = "update" /\ Saving(o) /\ copy[o].hits \in Nat
  BY DEF Update, Saving, Entity
<1>2. /\ pc' = [pc EXCEPT ![o] = After(o)] /\ After(o) \in {"ack", "done"}
      /\ copy' = [copy EXCEPT ![o] = NoEntity] /\ dirty' = [dirty EXCEPT ![o] = {}]
      /\ overlapped' = overlapped
  BY DEF Update, Release, After
<1>3. \A p \in Op : Open(p)' => /\ p # o /\ pc'[p] = pc[p]
                                /\ copy'[p] = copy[p] /\ dirty'[p] = dirty[p]
  BY <1>2 DEF Open
<1>4. /\ hits' = IF status[a] # "absent" /\ "hits" \in dirty[o]
                 THEN [hits EXCEPT ![a] = copy[o].hits] ELSE hits
      /\ status' = IF status[a] # "absent" /\ "status" \in dirty[o]
                   THEN [status EXCEPT ![a] = copy[o].status] ELSE status
      /\ counted' = IF status[a] # "absent" /\ o \in Run
                    THEN [counted EXCEPT ![a] = @ \cup {o}] ELSE counted
  BY DEF Update
<1>5. o \notin counted[a]
  BY <1>1 DEF Rows, Past
<1> HIDE DEF a
<1>6. \A b \in Run : b # a =>
         hits'[b] = hits[b] /\ status'[b] = status[b] /\ counted'[b] = counted[b]
  BY <1>1, <1>4
<1>7. status[a] = "absent" => UNCHANGED <<hits, status, counted>>
  BY <1>4
<1>8. ASSUME status[a] # "absent"
      PROVE  /\ hits'[a] = IF "hits" \in dirty[o] THEN copy[o].hits ELSE hits[a]
             /\ status'[a] = IF "status" \in dirty[o] THEN copy[o].status ELSE status[a]
  BY <1>1, <1>4, <1>8
<1>9. ASSUME status[a] # "absent"
      PROVE  /\ o \in Run => counted'[a] = counted[a] \cup {o}
             /\ o \notin Run => counted'[a] = counted[a]
  BY <1>1, <1>4, <1>9
<1>10. UpdateOf(o, a)
  BY <1>1, <1>2, <1>3, <1>5, <1>6, <1>7, <1>8, <1>9 DEF UpdateOf
<1>11. QED
  BY <1>10 DEF a

\* The hits of an alert, and what will be written into them, never run ahead.
LEMMA HitsKeep ==
    ASSUME TypeOK, TypeOK', Requests, Rows, CopiesNotAhead, HitsNeverOverstated, [Next]_vars
    PROVE  CopiesNotAhead' /\ HitsNeverOverstated'
<1> USE Operations, Counts
<1>0. \A o \in Op : Extra(o) \in Nat /\ (o \in Run => Extra(o) = 1)
  BY DEF Extra
<1>1. ASSUME UNCHANGED <<status, hits, counted>>,
             \A p \in Op : Saving(p)' =>
                \/ Saving(p) /\ copy'[p] = copy[p]
                \/ copy'[p].hits <= hits[copy'[p].alert] + Extra(p)
      PROVE  CopiesNotAhead' /\ HitsNeverOverstated'
  <2>1. HitsNeverOverstated'
    BY <1>1 DEF HitsNeverOverstated
  <2>2. ASSUME NEW p \in Op, Saving(p)', Live(copy[p].alert)'
        PROVE  copy'[p].hits <= Cardinality(counted'[copy'[p].alert]) + Extra(p)
    <3>1. copy'[p].alert \in Run /\ copy'[p].hits \in Nat
      BY <2>2 DEF TypeOK, Saving, Entity
    <3>2. CASE Saving(p) /\ copy'[p] = copy[p]
      BY <1>1, <2>2, <3>2 DEF CopiesNotAhead, Live
    <3>3. CASE copy'[p].hits <= hits[copy'[p].alert] + Extra(p)
      BY <1>0, <1>1, <3>1, <3>3 DEF HitsNeverOverstated, TypeOK
    <3>4. QED
      BY <1>1, <2>2, <3>2, <3>3
  <2>3. QED
    BY <2>1, <2>2 DEF CopiesNotAhead, Extra
<1>2. CASE Silent
  BY <1>1, <1>2 DEF Silent, Open, Saving
<1>3. ASSUME NEW r \in Run, FindActive(r) PROVE CopiesNotAhead' /\ HitsNeverOverstated'
  <2>1. PICK a \in ActiveAlerts(RunKey(r)) :
            copy' = [copy EXCEPT ![r] =
                        [alert |-> a, hits |-> hits[a] + 1, status |-> status[a]]]
    BY <1>3 DEF FindActive
  <2>2. copy'[r].alert = a /\ copy'[r].hits = hits[a] + Extra(r) /\ hits[a] + Extra(r) \in Nat
    BY <1>0, <2>1 DEF TypeOK, ActiveAlerts
  <2>3. /\ UNCHANGED <<status, hits, counted>> /\ pc' = [pc EXCEPT ![r] = "reload"]
        /\ \A p \in Op \ {r} : copy'[p] = copy[p]
    BY <1>3, <2>1 DEF FindActive, table, TypeOK
  <2>4. \A p \in Op : Saving(p)' =>
                \/ Saving(p) /\ copy'[p] = copy[p]
                \/ copy'[p].hits <= hits[copy'[p].alert] + Extra(p)
    BY <2>2, <2>3 DEF Saving, TypeOK
  <2>5. QED
    BY <1>1, <2>3, <2>4
<1>4. ASSUME NEW r \in Run, FindNone(r) PROVE CopiesNotAhead' /\ HitsNeverOverstated'
  BY <1>1, <1>4 DEF FindNone, table, memory, TypeOK, Saving
<1>5. ASSUME NEW r \in Run, InsertRow(r) PROVE CopiesNotAhead' /\ HitsNeverOverstated'
  <2>1. /\ pc[r] = "insert" /\ pc' = [pc EXCEPT ![r] = "ack"] /\ copy' = copy
        /\ status' = [status EXCEPT ![r] = "OPEN"] /\ hits' = [hits EXCEPT ![r] = 1]
        /\ counted' = [counted EXCEPT ![r] = {r}]
    BY <1>5 DEF InsertRow, Insert, memory
  <2>2. Cardinality({r}) = 1
    BY FS_Singleton
  <2>3. HitsNeverOverstated'
    BY <2>1, <2>2 DEF HitsNeverOverstated, TypeOK
  <2>4. ASSUME NEW p \in Op, Saving(p)', Live(copy[p].alert)'
        PROVE  copy'[p].hits <= Cardinality(counted'[copy'[p].alert]) + Extra(p)
    <3>1. Saving(p) /\ copy[p].alert \in Run /\ copy[p].alert # r
      BY <2>1, <2>4 DEF TypeOK, Saving, Rows, Past
    <3>2. QED
      BY <2>1, <2>4, <3>1 DEF CopiesNotAhead, Live, TypeOK
  <2>5. QED
    BY <2>3, <2>4 DEF CopiesNotAhead, Extra
<1>6. ASSUME NEW o \in Op, Reload(o) PROVE CopiesNotAhead' /\ HitsNeverOverstated'
  BY <1>1, <1>6 DEF Reload, table, TypeOK, Saving
<1>7. ASSUME NEW o \in Op, Update(o) PROVE CopiesNotAhead' /\ HitsNeverOverstated'
  <2> DEFINE a == copy[o].alert
  <2>0. UpdateOf(o, a)
    BY <1>7, UpdateEffect
  <2> HIDE DEF a
  <2>1. a \in Run /\ Saving(o) /\ copy[o].hits \in Nat /\ o \notin counted[a]
    BY <2>0 DEF UpdateOf
  <2>2. \A b \in Run : b # a \/ ~Live(a) =>
           hits'[b] = hits[b] /\ status'[b] = status[b] /\ counted'[b] = counted[b]
    BY <2>0 DEF UpdateOf, Live
  <2>3. Live(a) => /\ hits'[a] = IF "hits" \in dirty[o] THEN copy[o].hits ELSE hits[a]
                   /\ o \in Run => counted'[a] = counted[a] \cup {o}
                   /\ o \notin Run => counted'[a] = counted[a]
    BY <2>0 DEF UpdateOf, Live
  <2>4. \A p \in Op : Saving(p)' => Saving(p) /\ copy'[p] = copy[p]
    BY <2>0 DEF UpdateOf, Open, Saving
  <2>5. /\ Cardinality(counted[a]) \in Nat /\ hits[a] \in Nat
        /\ Live(a) => Cardinality(counted'[a]) = Cardinality(counted[a]) + Extra(o)
    <3>1. /\ Cardinality(counted[a]) \in Nat /\ hits[a] \in Nat
          /\ Cardinality(counted[a] \cup {o}) = Cardinality(counted[a]) + 1
      BY <2>1, Counts DEF TypeOK
    <3>2. CASE o \in Run
      BY <2>3, <3>1, <3>2 DEF Extra
    <3>3. CASE o \notin Run
      BY <2>3, <3>1, <3>3 DEF Extra
    <3>4. QED
      BY <3>1, <3>2, <3>3
  <2>6. Live(a) => hits'[a] <= Cardinality(counted'[a])
    BY <1>0, <2>1, <2>3, <2>5 DEF CopiesNotAhead, HitsNeverOverstated, a
  <2>7. HitsNeverOverstated'
    BY <2>2, <2>6 DEF HitsNeverOverstated
  <2>8. ASSUME NEW p \in Op, Saving(p)', Live(copy[p].alert)'
        PROVE  copy'[p].hits <= Cardinality(counted'[copy'[p].alert]) + Extra(p)
    <3>1. Saving(p) /\ copy'[p] = copy[p] /\ copy[p].alert \in Run /\ copy[p].hits \in Nat
      BY <2>4, <2>8 DEF TypeOK, Saving, Entity
    <3>2. CASE copy[p].alert = a /\ Live(a)
      BY <1>0, <2>5, <3>1, <3>2 DEF CopiesNotAhead
    <3>3. CASE copy[p].alert # a \/ ~Live(a)
      BY <2>2, <2>8, <3>1, <3>3 DEF CopiesNotAhead, Live
    <3>4. QED
      BY <3>2, <3>3
  <2>9. QED
    BY <2>7, <2>8 DEF CopiesNotAhead, Extra
<1>8. ASSUME NEW q \in Req, RequestStatus(q) PROVE CopiesNotAhead' /\ HitsNeverOverstated'
  <2>1. PICK a \in Run, s \in Status :
            copy' = [copy EXCEPT ![q] = [alert |-> a, hits |-> hits[a], status |-> s]]
    BY <1>8 DEF RequestStatus
  <2>2. /\ UNCHANGED <<status, hits, counted>> /\ pc' = [pc EXCEPT ![q] = "reload"]
        /\ copy'[q].alert = a /\ copy'[q].hits = hits[a]
        /\ \A p \in Op \ {q} : copy'[p] = copy[p]
    BY <1>8, <2>1 DEF RequestStatus, table, TypeOK
  <2>3. copy'[q].hits <= hits[copy'[q].alert] + Extra(q)
    BY <1>0, <2>2 DEF TypeOK
  <2>4. \A p \in Op : Saving(p)' =>
                \/ Saving(p) /\ copy'[p] = copy[p]
                \/ copy'[p].hits <= hits[copy'[p].alert] + Extra(p)
    BY <2>2, <2>3 DEF Saving, TypeOK
  <2>5. QED
    BY <1>1, <2>2, <2>4
<1>9. ASSUME NEW u \in Rule, DeleteRule(u) PROVE CopiesNotAhead' /\ HitsNeverOverstated'
  <2>1. /\ UNCHANGED <<pc, copy>>
        /\ \A a \in Run : IF RuleOf[AlertKey(a)] = u
                          THEN status'[a] = "absent" /\ hits'[a] = 0 /\ counted'[a] = {}
                          ELSE /\ status'[a] = status[a] /\ hits'[a] = hits[a]
                               /\ counted'[a] = counted[a]
    BY <1>9 DEF DeleteRule, memory
  <2>2. Cardinality({}) = 0
    BY FS_EmptySet
  <2>3. HitsNeverOverstated'
    <3>1. ASSUME NEW a \in Run PROVE hits'[a] <= Cardinality(counted'[a])
      <4>1. CASE RuleOf[AlertKey(a)] = u
        <5>1. hits'[a] = 0 /\ Cardinality(counted'[a]) = 0
          BY <2>1, <2>2, <4>1
        <5>2. QED
          BY <5>1
      <4>2. CASE RuleOf[AlertKey(a)] # u
        BY <2>1, <4>2 DEF HitsNeverOverstated
      <4>3. QED
        BY <4>1, <4>2
    <3>2. QED
      BY <3>1 DEF HitsNeverOverstated
  <2>4. CopiesNotAhead'
    BY <2>1 DEF CopiesNotAhead, Saving, Live, Extra, TypeOK
  <2>5. QED
    BY <2>3, <2>4
<1>10. QED
  BY <1>2, <1>3, <1>4, <1>5, <1>6, <1>7, <1>8, <1>9, StepForms

\* An operation that is open has the key of the alert it is about.
LEMMA SavingKey ==
    ASSUME TypeOK, Rows, NEW o \in Op, Saving(o)
    PROVE  /\ copy[o].alert \in Run /\ OpKey(o) = AlertKey(copy[o].alert)
           /\ Open(o) /\ Past(copy[o].alert) /\ OpKey(o) \in Key
  BY Operations DEF TypeOK, Rows, Saving, Open, OpKey, AlertKey

\* Operations on one key that begin while others are open are remembered.
LEMMA AloneKeeps ==
    ASSUME TypeOK, TypeOK', Requests, Rows, Alone, [Next]_vars
    PROVE  Alone' /\ overlapped \subseteq overlapped'
<1> USE Operations DEF TypeOK
<1>1. ASSUME overlapped' = overlapped,
             \A p \in Op : Open(p)' => Open(p) /\ copy'[p] = copy[p]
      PROVE  Alone' /\ overlapped \subseteq overlapped'
  <2>1. \A p \in Op : Open(p)' => Open(p) /\ OpKey(p)' = OpKey(p)
    BY <1>1 DEF OpKey, AlertKey, RunKey
  <2>2. \A k \in Key : OpenOn(k)' \subseteq OpenOn(k)
    BY <2>1 DEF OpenOn, Open
  <2>3. QED
    BY <1>1, <2>2 DEF Alone
<1>2. ASSUME NEW o \in Op, NEW k \in Key, Begin(k), ~Open(o), OpKey(o)' = k,
             \A p \in Op \ {o} : Open(p)' => Open(p) /\ copy'[p] = copy[p]
      PROVE  Alone' /\ overlapped \subseteq overlapped'
  <2>1. overlapped' = IF OpenOn(k) = {} THEN overlapped ELSE overlapped \cup {k}
    BY <1>2 DEF Begin
  <2>2. \A p \in Op \ {o} : Open(p)' => Open(p) /\ OpKey(p)' = OpKey(p)
    BY <1>2 DEF OpKey, AlertKey, RunKey
  <2>3. \A j \in Key : OpenOn(j)' \subseteq OpenOn(j) \cup {o}
    BY <2>2 DEF OpenOn, Open
  <2>4. \A j \in Key : j # k => o \notin OpenOn(j)'
    BY <1>2 DEF OpenOn
  <2>5. ASSUME NEW j \in Key \ overlapped', NEW x \in OpenOn(j)', NEW y \in OpenOn(j)'
        PROVE  x = y
    <3>1. CASE j = k
      BY <2>1, <2>3, <2>5, <3>1
    <3>2. CASE j # k
      BY <2>1, <2>3, <2>4, <2>5, <3>2 DEF Alone
    <3>3. QED
      BY <3>1, <3>2
  <2>6. QED
    BY <2>1, <2>5 DEF Alone
<1>3. CASE Silent
  BY <1>1, <1>3 DEF Silent, Open
<1>4. ASSUME NEW r \in Run, FindActive(r) \/ FindNone(r)
      PROVE  Alone' /\ overlapped \subseteq overlapped'
  <2>1. /\ pc[r] = "find" /\ Begin(RunKey(r))
        /\ \A p \in Op \ {r} : pc'[p] = pc[p] /\ copy'[p] = copy[p]
    BY <1>4 DEF FindActive, FindNone, memory
  <2>2. OpKey(r)' = RunKey(r) /\ RunKey(r) \in Key
    BY DEF OpKey, RunKey
  <2>3. QED
    BY <1>2, <2>1, <2>2 DEF Open
<1>5. ASSUME NEW r \in Run, InsertRow(r) PROVE Alone' /\ overlapped \subseteq overlapped'
  BY <1>1, <1>5 DEF InsertRow, Insert, history, memory, Open
<1>6. ASSUME NEW o \in Op, Reload(o) PROVE Alone' /\ overlapped \subseteq overlapped'
  BY <1>1, <1>6 DEF Reload, history, Open
<1>7. ASSUME NEW o \in Op, Update(o) PROVE Alone' /\ overlapped \subseteq overlapped'
  <2>1. UpdateOf(o, copy[o].alert)
    BY <1>7, UpdateEffect
  <2>2. QED
    BY <1>1, <2>1 DEF UpdateOf, Open
<1>8. ASSUME NEW q \in Req, RequestStatus(q) PROVE Alone' /\ overlapped \subseteq overlapped'
  <2>1. PICK a \in Run, s \in Status :
            /\ copy' = [copy EXCEPT ![q] = [alert |-> a, hits |-> hits[a], status |-> s]]
            /\ Begin(AlertKey(a))
    BY <1>8 DEF RequestStatus
  <2>2. OpKey(q)' = AlertKey(a) /\ AlertKey(a) \in Key
    BY <2>1 DEF OpKey, AlertKey, RunKey
  <2>3. /\ pc[q] = "idle" /\ \A p \in Op \ {q} : pc'[p] = pc[p] /\ copy'[p] = copy[p]
    BY <1>8, <2>1 DEF RequestStatus
  <2>4. QED
    BY <1>2, <2>1, <2>2, <2>3 DEF Open
<1>9. ASSUME NEW u \in Rule, DeleteRule(u) PROVE Alone' /\ overlapped \subseteq overlapped'
  BY <1>1, <1>9 DEF DeleteRule, history, memory, Open
<1>10. QED
  BY <1>3, <1>4, <1>5, <1>6, <1>7, <1>8, <1>9, StepForms

\* Without overlap a save() writes what is true, and the hits are the counts.
LEMMA ExactKeeps ==
    ASSUME TypeOK, TypeOK', Requests, Rows, Alone, Alone', overlapped \subseteq overlapped',
           CopiesCurrent, ExactUnlessRaced, [Next]_vars
    PROVE  CopiesCurrent' /\ ExactUnlessRaced'
<1> USE Operations, Counts DEF TypeOK
<1>1. ASSUME UNCHANGED <<status, hits, counted>>,
             \A p \in Op : Saving(p)' /\ Live(copy[p].alert)' /\ OpKey(p)' \notin overlapped' =>
                \/ Saving(p) /\ pc'[p] = pc[p] /\ copy'[p] = copy[p] /\ dirty'[p] = dirty[p]
                \/ Current(p)'
      PROVE  CopiesCurrent' /\ ExactUnlessRaced'
  <2>1. ExactUnlessRaced'
    BY <1>1 DEF ExactUnlessRaced, AlertKey, RunKey
  <2>2. ASSUME NEW p \in Op, Saving(p)', Live(copy[p].alert)', OpKey(p)' \notin overlapped'
        PROVE  Current(p)'
    <3>1. CASE Saving(p) /\ pc'[p] = pc[p] /\ copy'[p] = copy[p] /\ dirty'[p] = dirty[p]
      <4>1. Live(copy[p].alert) /\ OpKey(p) \notin overlapped
        BY <1>1, <2>2, <3>1 DEF Live, OpKey, AlertKey, RunKey
      <4>2. Current(p)
        BY <3>1, <4>1 DEF CopiesCurrent
      <4>3. QED
        BY <1>1, <3>1, <4>2 DEF Current, Extra
    <3>2. QED
      BY <1>1, <2>2, <3>1
  <2>3. QED
    BY <2>1, <2>2 DEF CopiesCurrent
<1>2. CASE Silent
  BY <1>1, <1>2 DEF Silent, Open, Saving
<1>3. ASSUME NEW r \in Run, FindActive(r) PROVE CopiesCurrent' /\ ExactUnlessRaced'
  <2>1. PICK a \in ActiveAlerts(RunKey(r)) :
            copy' = [copy EXCEPT ![r] =
                        [alert |-> a, hits |-> hits[a] + 1, status |-> status[a]]]
    BY <1>3 DEF FindActive
  <2>2. /\ a \in Run /\ Live(a) /\ AlertKey(a) = RunKey(r) /\ OpKey(r)' = RunKey(r)
        /\ copy'[r] = [alert |-> a, hits |-> hits[a] + 1, status |-> status[a]]
    BY <2>1 DEF ActiveAlerts, Active, Live, OpKey, RunKey
  <2>3. /\ UNCHANGED <<status, hits, counted>> /\ pc' = [pc EXCEPT ![r] = "reload"]
        /\ \A p \in Op \ {r} : pc'[p] = pc[p] /\ copy'[p] = copy[p] /\ dirty'[p] = dirty[p]
    BY <1>3, <2>1 DEF FindActive, table
  <2>4. OpKey(r)' \notin overlapped' => Current(r)'
    <3>1. SUFFICES ASSUME RunKey(r) \notin overlapped' PROVE Current(r)'
      BY <2>2
    <3>2. hits[a] = Cardinality(counted[a])
      BY <2>2, <3>1 DEF ExactUnlessRaced, Live
    <3>3. QED
      BY <2>2, <2>3, <3>2 DEF Current, Extra
  <2>5. QED
    BY <1>1, <2>3, <2>4 DEF Saving
<1>4. ASSUME NEW r \in Run, FindNone(r) PROVE CopiesCurrent' /\ ExactUnlessRaced'
  BY <1>1, <1>4 DEF FindNone, table, memory, Saving
<1>5. ASSUME NEW r \in Run, InsertRow(r) PROVE CopiesCurrent' /\ ExactUnlessRaced'
  <2>1. /\ pc[r] = "insert" /\ pc' = [pc EXCEPT ![r] = "ack"] /\ UNCHANGED <<copy, dirty>>
        /\ status' = [status EXCEPT ![r] = "OPEN"] /\ hits' = [hits EXCEPT ![r] = 1]
        /\ counted' = [counted EXCEPT ![r] = {r}]
    BY <1>5 DEF InsertRow, Insert, memory
  <2>2. Cardinality({r}) = 1
    BY FS_Singleton
  <2>3. ExactUnlessRaced'
    <3>1. ASSUME NEW a \in Run, status'[a] # "absent", AlertKey(a) \notin overlapped'
          PROVE  hits'[a] = Cardinality(counted'[a])
      <4>1. CASE a = r BY <2>1, <2>2, <4>1
      <4>2. CASE a # r BY <2>1, <3>1, <4>2 DEF ExactUnlessRaced
      <4>3. QED
        BY <4>1, <4>2
    <3>2. QED
      BY <3>1 DEF ExactUnlessRaced, AlertKey, RunKey
  <2>4. ASSUME NEW p \in Op, Saving(p)', Live(copy[p].alert)', OpKey(p)' \notin overlapped'
        PROVE  Current(p)'
    <3>1. Saving(p) /\ pc'[p] = pc[p] /\ copy[p].alert \in Run /\ copy[p].alert # r
      BY <2>1, <2>4 DEF Saving, Rows, Past
    <3>2. Live(copy[p].alert) /\ OpKey(p) \notin overlapped
      BY <2>1, <2>4, <3>1 DEF Live, OpKey, AlertKey, RunKey
    <3>3. Current(p)
      BY <3>1, <3>2 DEF CopiesCurrent
    <3>4. QED
      BY <2>1, <3>1, <3>3 DEF Current, Extra
  <2>5. QED
    BY <2>3, <2>4 DEF CopiesCurrent
<1>6. ASSUME NEW o \in Op, Reload(o) PROVE CopiesCurrent' /\ ExactUnlessRaced'
  <2> DEFINE a == copy[o].alert
  <2>1. /\ Saving(o) /\ pc' = [pc EXCEPT ![o] = "update"] /\ copy' = copy /\ a \in Run
        /\ \A p \in Op \ {o} : dirty'[p] = dirty[p]
        /\ copy[o].hits # hits[a] => "hits" \in dirty'[o]
        /\ UNCHANGED <<status, hits, counted>>
    BY <1>6 DEF Reload, table, Saving
  <2>2. Live(a)' /\ OpKey(o)' \notin overlapped' => Current(o)'
    <3>1. SUFFICES ASSUME Live(a)', OpKey(o)' \notin overlapped' PROVE Current(o)'
      OBVIOUS
    <3>2. Live(a) /\ OpKey(o) \notin overlapped
      BY <2>1, <3>1 DEF Live, OpKey, AlertKey, RunKey
    <3>3. Current(o) /\ OpKey(o) = AlertKey(a)
      BY <2>1, <3>2, SavingKey DEF CopiesCurrent
    <3>4. hits[a] = Cardinality(counted[a]) /\ hits[a] \in Nat
      BY <2>1, <3>2, <3>3 DEF ExactUnlessRaced, Live
    <3>5. o \in Run => "hits" \in dirty'[o]
      BY <2>1, <3>3, <3>4 DEF Current, Extra
    <3>6. QED
      BY <2>1, <3>3, <3>5 DEF Current, Extra
  <2>3. QED
    BY <1>1, <2>1, <2>2 DEF Saving
<1>7. ASSUME NEW o \in Op, Update(o) PROVE CopiesCurrent' /\ ExactUnlessRaced'
  <2> DEFINE a == copy[o].alert
  <2>0. UpdateOf(o, a)
    BY <1>7, UpdateEffect
  <2>1. OpKey(o) = AlertKey(a) /\ Open(o)
    BY <2>0, SavingKey DEF UpdateOf
  <2>2. ASSUME Live(a), AlertKey(a) \notin overlapped
        PROVE  Current(o) /\ hits[a] = Cardinality(counted[a]) /\ hits[a] \in Nat
    BY <2>0, <2>1, <2>2 DEF CopiesCurrent, ExactUnlessRaced, Live, UpdateOf
  <2>3. ASSUME NEW p \in Op, Saving(p)', Live(copy[p].alert)', OpKey(p)' \notin overlapped'
        PROVE  Current(p)'
    <3>1. /\ Saving(p) /\ pc'[p] = pc[p] /\ copy'[p] = copy[p] /\ dirty'[p] = dirty[p] /\ p # o
          /\ copy[p].alert \in Run
      BY <2>0, <2>3 DEF UpdateOf, Open, Saving
    <3>2. OpKey(p) = OpKey(p)' /\ OpKey(p) \notin overlapped
      BY <2>0, <2>3, <3>1 DEF UpdateOf, OpKey, AlertKey, RunKey
    <3>3. OpKey(p) = AlertKey(copy[p].alert) /\ Open(p) /\ OpKey(p) \in Key
      BY <3>1, SavingKey
    <3>4. copy[p].alert # a
      <4>1. SUFFICES ASSUME copy[p].alert = a PROVE FALSE
        OBVIOUS
      <4>2. o \in OpenOn(OpKey(p)) /\ p \in OpenOn(OpKey(p))
        BY <2>1, <3>3, <4>1 DEF OpenOn, Open, AlertKey, RunKey
      <4>3. QED
        BY <3>1, <3>2, <3>3, <4>2 DEF Alone
    <3>5. /\ status'[copy[p].alert] = status[copy[p].alert]
          /\ counted'[copy[p].alert] = counted[copy[p].alert]
      BY <2>0, <3>1, <3>4 DEF UpdateOf
    <3>6. Current(p)
      BY <2>3, <3>1, <3>2, <3>5 DEF CopiesCurrent, Live
    <3>7. QED
      BY <3>1, <3>5, <3>6 DEF Current, Extra
  <2>4. ASSUME NEW b \in Run, status'[b] # "absent", AlertKey(b) \notin overlapped'
        PROVE  hits'[b] = Cardinality(counted'[b])
    <3>0. overlapped' = overlapped
      BY <2>0 DEF UpdateOf
    <3>1. CASE b # a \/ status[a] = "absent"
      <4>1. hits'[b] = hits[b] /\ status'[b] = status[b] /\ counted'[b] = counted[b]
        BY <2>0, <3>1 DEF UpdateOf
      <4>2. QED
        BY <2>4, <3>0, <4>1 DEF ExactUnlessRaced
    <3>2. CASE b = a /\ status[a] # "absent" /\ o \in Run
      <4>1. Current(o) /\ AlertKey(a) \notin overlapped
        BY <2>2, <2>4, <3>0, <3>2 DEF Live, AlertKey, RunKey
      <4>2. hits'[a] = Cardinality(counted[a]) + 1 /\ counted'[a] = counted[a] \cup {o}
        BY <2>0, <3>2, <4>1 DEF UpdateOf, Current, Extra
      <4>3. o \notin counted[a] /\ a \in Run
        BY <2>0 DEF UpdateOf
      <4>4. Cardinality(counted[a] \cup {o}) = Cardinality(counted[a]) + 1
        BY <4>3, Counts
      <4>5. QED
        BY <3>2, <4>2, <4>4
    <3>3. CASE b = a /\ status[a] # "absent" /\ o \notin Run
      <4>1. Current(o) /\ hits[a] = Cardinality(counted[a]) /\ hits[a] \in Nat
        BY <2>2, <2>4, <3>0, <3>3 DEF Live, AlertKey, RunKey
      <4>2. copy[o].hits = hits[a]
        BY <3>3, <4>1 DEF Current, Extra
      <4>3. QED
        BY <2>0, <3>3, <4>1, <4>2 DEF UpdateOf
    <3>4. QED
      BY <3>1, <3>2, <3>3
  <2>5. QED
    BY <2>3, <2>4 DEF CopiesCurrent, ExactUnlessRaced, AlertKey, RunKey
<1>8. ASSUME NEW q \in Req, RequestStatus(q) PROVE CopiesCurrent' /\ ExactUnlessRaced'
  <2>1. PICK a \in Run, s \in Status :
            /\ status[a] # "absent"
            /\ copy' = [copy EXCEPT ![q] = [alert |-> a, hits |-> hits[a], status |-> s]]
    BY <1>8 DEF RequestStatus
  <2>2. /\ UNCHANGED <<status, hits, counted>> /\ pc' = [pc EXCEPT ![q] = "reload"]
        /\ copy'[q] = [alert |-> a, hits |-> hits[a], status |-> s] /\ q \notin Run
        /\ \A p \in Op \ {q} : pc'[p] = pc[p] /\ copy'[p] = copy[p] /\ dirty'[p] = dirty[p]
    BY <1>8, <2>1 DEF RequestStatus, table
  <2>3. OpKey(q)' \notin overlapped' => Current(q)'
    <3>1. SUFFICES ASSUME AlertKey(a) \notin overlapped' PROVE Current(q)'
      BY <2>2 DEF OpKey, AlertKey, RunKey
    <3>2. hits[a] = Cardinality(counted[a]) /\ hits[a] \in Nat
      BY <2>1, <3>1 DEF ExactUnlessRaced
    <3>3. QED
      BY <2>2, <3>2 DEF Current, Extra
  <2>4. QED
    BY <1>1, <2>2, <2>3 DEF Saving
<1>9. ASSUME NEW u \in Rule, DeleteRule(u) PROVE CopiesCurrent' /\ ExactUnlessRaced'
  <2>1. /\ UNCHANGED <<pc, copy, dirty, overlapped>>
        /\ \A a \in Run : IF RuleOf[AlertKey(a)] = u
                          THEN status'[a] = "absent"
                          ELSE /\ status'[a] = status[a] /\ hits'[a] = hits[a]
                               /\ counted'[a] = counted[a]
    BY <1>9 DEF DeleteRule, memory, history
  <2>2. ASSUME NEW b \in Run, status'[b] # "absent", AlertKey(b) \notin overlapped'
        PROVE  hits'[b] = Cardinality(counted'[b])
    BY <2>1, <2>2 DEF ExactUnlessRaced
  <2>3. ASSUME NEW p \in Op, Saving(p)', Live(copy[p].alert)', OpKey(p)' \notin overlapped'
        PROVE  Current(p)'
    <3>1. Saving(p) /\ copy[p].alert \in Run /\ status'[copy[p].alert] # "absent"
      BY <2>1, <2>3 DEF Saving, Live
    <3>2. /\ status'[copy[p].alert] = status[copy[p].alert]
          /\ counted'[copy[p].alert] = counted[copy[p].alert]
      BY <2>1, <3>1
    <3>3. Current(p)
      BY <2>1, <2>3, <3>1, <3>2 DEF CopiesCurrent, Live, OpKey, AlertKey, RunKey
    <3>4. QED
      BY <2>1, <3>2, <3>3 DEF Current, Extra
  <2>4. QED
    BY <2>2, <2>3 DEF CopiesCurrent, ExactUnlessRaced, AlertKey, RunKey
<1>10. QED
  BY <1>2, <1>3, <1>4, <1>5, <1>6, <1>7, <1>8, <1>9, StepForms

\* A handler that found no active alert inserts the only one, unless its key is
\* raced, beside those that are reopened.
LEMMA UniqueKeeps ==
    ASSUME TypeOK, TypeOK', Rows, Requests, Alone, overlapped \subseteq overlapped',
           NoneFound, UniqueUnlessRaced, [Next]_vars
    PROVE  NoneFound' /\ UniqueUnlessRaced'
<1> USE Operations DEF TypeOK
\* Steps that make no alert active, except those that are then reopened.
<1>1. ASSUME reopened \subseteq reopened',
             \A k \in Key : ActiveAlerts(k)' \subseteq ActiveAlerts(k) \cup reopened',
             \A r \in Run : pc'[r] = "insert" /\ RunKey(r) \notin overlapped' =>
                /\ pc[r] = "insert" \/ ActiveAlerts(RunKey(r)) = {}
                /\ ActiveAlerts(RunKey(r))' \subseteq ActiveAlerts(RunKey(r))
      PROVE  NoneFound' /\ UniqueUnlessRaced'
  <2>1. UniqueUnlessRaced'
    BY <1>1 DEF UniqueUnlessRaced
  <2>2. ASSUME NEW r \in Run, pc'[r] = "insert", RunKey(r) \notin overlapped'
        PROVE  ActiveAlerts(RunKey(r))' = {}
    <3>1. ActiveAlerts(RunKey(r)) = {}
      BY <1>1, <2>2 DEF NoneFound
    <3>2. QED
      BY <1>1, <2>2, <3>1
  <2>3. QED
    BY <2>1, <2>2 DEF NoneFound, RunKey
<1>2. ASSUME UNCHANGED <<status, reopened>>,
             \A r \in Run : pc'[r] = "insert" =>
                pc[r] = "insert" \/ ActiveAlerts(RunKey(r)) = {}
      PROVE  NoneFound' /\ UniqueUnlessRaced'
  <2>1. /\ \A k \in Key : ActiveAlerts(k)' \subseteq ActiveAlerts(k)
        /\ \A r \in Run : ActiveAlerts(RunKey(r))' \subseteq ActiveAlerts(RunKey(r))
    BY <1>2 DEF ActiveAlerts, AlertKey, RunKey
  <2>2. QED
    BY <1>1, <1>2, <2>1
<1>3. CASE Silent
  BY <1>2, <1>3 DEF Silent, Open
<1>4. ASSUME NEW r \in Run, FindActive(r) PROVE NoneFound' /\ UniqueUnlessRaced'
  BY <1>2, <1>4 DEF FindActive, table
<1>5. ASSUME NEW r \in Run, FindNone(r) PROVE NoneFound' /\ UniqueUnlessRaced'
  BY <1>2, <1>5 DEF FindNone, table
<1>6. ASSUME NEW r \in Run, InsertRow(r) PROVE NoneFound' /\ UniqueUnlessRaced'
  <2>1. /\ pc[r] = "insert" /\ pc' = [pc EXCEPT ![r] = "ack"] /\ UNCHANGED history
        /\ status' = [status EXCEPT ![r] = "OPEN"]
    BY <1>6 DEF InsertRow, Insert
  <2>2. \A k \in Key : ActiveAlerts(k)' \subseteq ActiveAlerts(k) \cup {r}
    BY <2>1 DEF ActiveAlerts, AlertKey, RunKey
  <2>3. \A k \in Key : k # RunKey(r) => ActiveAlerts(k)' \subseteq ActiveAlerts(k)
    BY <2>1 DEF ActiveAlerts, AlertKey, RunKey
  <2>4. ASSUME NEW k \in Key \ overlapped', NEW a \in ActiveAlerts(k)' \ reopened',
               NEW b \in ActiveAlerts(k)' \ reopened'
        PROVE  a = b
    <3>1. k \notin overlapped /\ reopened' = reopened
      BY <2>1 DEF history
    <3>2. CASE k = RunKey(r)
      <4>1. ActiveAlerts(k) = {}
        BY <2>1, <3>1, <3>2 DEF NoneFound
      <4>2. QED
        BY <2>2, <2>4, <4>1
    <3>3. CASE k # RunKey(r)
      BY <2>3, <2>4, <3>1, <3>3 DEF UniqueUnlessRaced
    <3>4. QED
      BY <3>2, <3>3
  <2>5. ASSUME NEW x \in Run, pc'[x] = "insert", RunKey(x) \notin overlapped'
        PROVE  ActiveAlerts(RunKey(x))' = {}
    <3>1. pc[x] = "insert" /\ x # r /\ RunKey(x) \notin overlapped
      BY <2>1, <2>5 DEF history
    <3>2. ActiveAlerts(RunKey(x)) = {}
      BY <3>1 DEF NoneFound
    <3>3. RunKey(x) # RunKey(r)
      <4>1. SUFFICES ASSUME RunKey(x) = RunKey(r) PROVE FALSE
        OBVIOUS
      <4>2. x \in OpenOn(RunKey(r)) /\ r \in OpenOn(RunKey(r))
        BY <2>1, <3>1, <4>1 DEF OpenOn, OpKey
      <4>3. QED
        BY <3>1, <4>1, <4>2 DEF Alone
    <3>4. ActiveAlerts(RunKey(x))' = {}
      BY <2>1, <3>2, <3>3 DEF ActiveAlerts, AlertKey, RunKey
    <3>5. QED
      BY <3>4
  <2>6. QED
    BY <2>4, <2>5 DEF NoneFound, UniqueUnlessRaced, RunKey
<1>7. ASSUME NEW o \in Op, Reload(o) PROVE NoneFound' /\ UniqueUnlessRaced'
  BY <1>2, <1>7 DEF Reload, table, history
<1>8. ASSUME NEW o \in Op, Update(o) PROVE NoneFound' /\ UniqueUnlessRaced'
  <2> DEFINE a == copy[o].alert
  <2>0. UpdateOf(o, a)
    BY <1>8, UpdateEffect
  <2>1. a \in Run /\ \A b \in Run : b # a => status'[b] = status[b]
    BY <2>0 DEF UpdateOf
  <2>2. reopened' = IF status[a] \notin Active /\ status'[a] \in Active
                    THEN reopened \cup {a} ELSE reopened
    BY <1>8 DEF Update
  <2>3. \A k \in Key : ActiveAlerts(k)' \subseteq ActiveAlerts(k) \cup reopened'
    BY <2>1, <2>2 DEF ActiveAlerts, AlertKey, RunKey
  <2>4. ASSUME NEW r \in Run, pc'[r] = "insert", RunKey(r) \notin overlapped'
        PROVE  pc[r] = "insert" /\ ActiveAlerts(RunKey(r))' \subseteq ActiveAlerts(RunKey(r))
    <3>1. pc[r] = "insert" /\ r # o /\ RunKey(r) \notin overlapped
      BY <2>0, <2>4 DEF UpdateOf, Open
    <3>2. AlertKey(a) # RunKey(r)
      <4>1. SUFFICES ASSUME AlertKey(a) = RunKey(r) PROVE FALSE
        OBVIOUS
      <4>2. OpKey(o) = RunKey(r) /\ Open(o)
        BY <2>0, <4>1, SavingKey DEF UpdateOf
      <4>3. r \in OpenOn(RunKey(r)) /\ o \in OpenOn(RunKey(r))
        BY <3>1, <4>2 DEF OpenOn, OpKey, Open
      <4>4. QED
        BY <3>1, <4>3 DEF Alone
    <3>3. ActiveAlerts(RunKey(r))' \subseteq ActiveAlerts(RunKey(r))
      BY <2>1, <3>2 DEF ActiveAlerts, AlertKey, RunKey
    <3>4. QED
      BY <3>1, <3>3
  <2>5. reopened \subseteq reopened'
    BY <2>2
  <2>6. QED
    BY <1>1, <2>3, <2>4, <2>5
<1>9. ASSUME NEW q \in Req, RequestStatus(q) PROVE NoneFound' /\ UniqueUnlessRaced'
  BY <1>2, <1>9 DEF RequestStatus, table
<1>10. ASSUME NEW u \in Rule, DeleteRule(u) PROVE NoneFound' /\ UniqueUnlessRaced'
  <2>1. /\ UNCHANGED <<pc, reopened>>
        /\ \A a \in Run : status'[a] = "absent" \/ status'[a] = status[a]
    BY <1>10 DEF DeleteRule, history
  <2>2. /\ \A k \in Key : ActiveAlerts(k)' \subseteq ActiveAlerts(k)
        /\ \A r \in Run : ActiveAlerts(RunKey(r))' \subseteq ActiveAlerts(RunKey(r))
    BY <2>1 DEF ActiveAlerts, Active, AlertKey, RunKey
  <2>3. QED
    BY <1>1, <2>1, <2>2
<1>11. QED
  BY <1>3, <1>4, <1>5, <1>6, <1>7, <1>8, <1>9, <1>10, StepForms

\* A handler keeps the status it found in memory.
LEMMA FoundKeeps ==
    ASSUME TypeOK, TypeOK', Requests, Rows, FoundActive, [Next]_vars
    PROVE  FoundActive'
<1> USE Operations DEF TypeOK
<1>1. SUFFICES ASSUME NEW r \in Run, Saving(r)' PROVE copy'[r].status \in Active
  BY DEF FoundActive
<1>2. ASSUME Saving(r), copy'[r] = copy[r] PROVE copy'[r].status \in Active
  BY <1>2 DEF FoundActive
<1>3. CASE Silent
  BY <1>1, <1>2, <1>3 DEF Silent, Open, Saving
<1>4. ASSUME NEW x \in Run, FindActive(x) PROVE copy'[r].status \in Active
  <2>1. PICK a \in ActiveAlerts(RunKey(x)) :
            copy' = [copy EXCEPT ![x] =
                        [alert |-> a, hits |-> hits[a] + 1, status |-> status[a]]]
    BY <1>4 DEF FindActive
  <2>2. pc' = [pc EXCEPT ![x] = "reload"] /\ status[a] \in Active
    BY <1>4 DEF FindActive, ActiveAlerts
  <2>3. CASE r = x
    BY <2>1, <2>2, <2>3
  <2>4. CASE r # x
    BY <1>1, <1>2, <2>1, <2>2, <2>4 DEF Saving
  <2>5. QED
    BY <2>3, <2>4
<1>5. ASSUME NEW x \in Run, FindNone(x) \/ InsertRow(x) PROVE copy'[r].status \in Active
  <2>1. pc'[r] \in {"reload", "update"} => pc'[r] = pc[r] /\ copy'[r] = copy[r]
    BY <1>5 DEF FindNone, InsertRow, Insert, memory
  <2>2. QED
    BY <1>1, <1>2, <2>1 DEF Saving
<1>6. ASSUME NEW o \in Op, Reload(o) PROVE copy'[r].status \in Active
  <2>1. Saving(r) /\ copy'[r] = copy[r]
    BY <1>1, <1>6 DEF Reload, Saving
  <2>2. QED
    BY <1>2, <2>1
<1>7. ASSUME NEW o \in Op, Update(o) PROVE copy'[r].status \in Active
  <2>1. UpdateOf(o, copy[o].alert)
    BY <1>7, UpdateEffect
  <2>2. QED
    BY <1>1, <1>2, <2>1 DEF UpdateOf, Open, Saving
<1>8. ASSUME NEW q \in Req, RequestStatus(q) PROVE copy'[r].status \in Active
  <2>1. pc'[r] = pc[r] /\ copy'[r] = copy[r]
    BY <1>8 DEF RequestStatus
  <2>2. QED
    BY <1>1, <1>2, <2>1 DEF Saving
<1>9. ASSUME NEW u \in Rule, DeleteRule(u) PROVE copy'[r].status \in Active
  BY <1>1, <1>2, <1>9 DEF DeleteRule, memory, Saving
<1>10. QED
  BY <1>3, <1>4, <1>5, <1>6, <1>7, <1>8, <1>9, StepForms

-----------------------------------------------------------------------------
(* The theorems *)

Inv ==
    /\ TypeOK /\ Numbered /\ OneOutstandingDelivery
    /\ Requests /\ Rows /\ AcksAreSettled /\ AckedIsAccountedFor
    /\ CopiesNotAhead /\ HitsNeverOverstated
    /\ Alone /\ CopiesCurrent /\ ExactUnlessRaced
    /\ NoneFound /\ FoundActive /\ UniqueUnlessRaced

\* The inductive invariant holds in every reachable state.
LEMMA Invariant == Spec => []Inv
<1>1. Init /\ TypeOK => Inv
  <2> SUFFICES ASSUME Init, TypeOK PROVE Inv
    OBVIOUS
  <2> USE Operations DEF Init, InitWithout
  <2>1. Cardinality({}) = 0 /\ IsFiniteSet({})
    BY FS_EmptySet
  <2>2. Numbered /\ OneOutstandingDelivery /\ Requests /\ AcksAreSettled
    BY DEF Numbered, OneOutstandingDelivery, Requests, AcksAreSettled
  <2>3. Rows /\ AckedIsAccountedFor
    BY <2>1 DEF Rows, Live, Saving, AckedIsAccountedFor, Acked
  <2>4. CopiesNotAhead /\ CopiesCurrent /\ NoneFound /\ FoundActive
    BY DEF CopiesNotAhead, CopiesCurrent, NoneFound, FoundActive, Saving
  <2>5. HitsNeverOverstated
    BY <2>1 DEF HitsNeverOverstated
  <2>6. ExactUnlessRaced
    BY DEF ExactUnlessRaced
  <2>7. Alone /\ UniqueUnlessRaced
    BY DEF Alone, OpenOn, UniqueUnlessRaced, ActiveAlerts, Active
  <2>8. QED
    BY <2>2, <2>3, <2>4, <2>5, <2>6, <2>7 DEF Inv
<1>2. Inv /\ TypeOK' /\ [Next]_vars => Inv'
  <2> SUFFICES ASSUME Inv, TypeOK', [Next]_vars PROVE Inv'
    OBVIOUS
  <2>1. CopiesNotAhead' /\ HitsNeverOverstated'
    BY HitsKeep DEF Inv
  <2>2. Alone' /\ overlapped \subseteq overlapped'
    BY AloneKeeps DEF Inv
  <2>3. CopiesCurrent' /\ ExactUnlessRaced'
    BY <2>2, ExactKeeps DEF Inv
  <2>4. NoneFound' /\ UniqueUnlessRaced'
    BY <2>2, UniqueKeeps DEF Inv
  <2>9. FoundActive'
    BY FoundKeeps DEF Inv
  <2>5. CASE Next
    <3>1. Numbered' /\ OneOutstandingDelivery'
      BY <2>5, BrokerKeeps DEF Inv
    <3>2. Requests' /\ Rows'
      BY <2>5, RowsKeep DEF Inv
    <3>3. AcksAreSettled' /\ AckedIsAccountedFor'
      BY <2>5, AcksKeep DEF Inv
    <3>4. QED
      BY <2>1, <2>2, <2>3, <2>4, <2>9, <3>1, <3>2, <3>3 DEF Inv
  <2>6. CASE UNCHANGED vars
    <3> USE <2>6 DEF vars, broker, table, memory, history
    <3>1. Numbered' /\ OneOutstandingDelivery' /\ Requests'
      BY DEF Inv, Numbered, OneOutstandingDelivery, Requests
    <3>2. Rows'
      BY DEF Inv, Rows, Past, Live, Saving, AlertKey, RunKey
    <3>3. AcksAreSettled' /\ AckedIsAccountedFor'
      BY DEF Inv, AcksAreSettled, Settled, AckedIsAccountedFor, Acked, AlertKey, RunKey
    <3>4. QED
      BY <2>1, <2>2, <2>3, <2>4, <2>9, <3>1, <3>2, <3>3 DEF Inv
  <2>7. QED
    BY <2>5, <2>6
<1>3. QED
  BY <1>1, <1>2, TypeCorrect, PTL DEF Spec

\* AlertsService.processAlertEvent: without overlapping operations, a dedup key has
\* at most one active alert beside those that updateStatus reopened.
THEOREM Unique == Spec => []UniqueUnlessRaced
<1>1. Inv => UniqueUnlessRaced
  BY DEF Inv
<1>2. QED
  BY <1>1, Invariant, PTL

\* AlertsService.processAlertEvent: without overlapping operations, hitCount is
\* the number of deliveries that were saved.
THEOREM Exact == Spec => []ExactUnlessRaced
<1>1. Inv => ExactUnlessRaced
  BY DEF Inv
<1>2. QED
  BY <1>1, Invariant, PTL

\* AlertsService.processAlertEvent: whatever races there are, hitCount is never
\* more than the number of deliveries that were saved.
THEOREM NeverOverstated == Spec => []HitsNeverOverstated
<1>1. Inv => HitsNeverOverstated
  BY DEF Inv
<1>2. QED
  BY <1>1, Invariant, PTL

\* AlertsConsumer: an event that left the broker was saved, threw, lost its rule,
\* or was destroyed by a restart of the broker.
THEOREM AccountedFor == Spec => []AckedIsAccountedFor
<1>1. Inv => AckedIsAccountedFor
  BY DEF Inv
<1>2. QED
  BY <1>1, Invariant, PTL

\* AlertsConsumer: an event that is out has a run that has not ended.
THEOREM Outstanding == Spec => []OneOutstandingDelivery
<1>1. Inv => OneOutstandingDelivery
  BY DEF Inv
<1>2. QED
  BY <1>1, Invariant, PTL

\* AlertsService.updateStatus: only a request with that status, the deletion of
\* the rule, or an overlap changes the status of an alert.
THEOREM Decisions == Spec => DecisionsStick
<1>1. Inv /\ [Next]_vars =>
        [\A a \in Run :
            status[a] # "absent" /\ status'[a] # status[a] =>
                \/ status'[a] = "absent" /\ RuleOf[AlertKey(a)] \notin rules'
                \/ AlertKey(a) \in overlapped
                \/ \E q \in Req : /\ pc[q] = "update" /\ pc'[q] = "done"
                                  /\ copy[q].alert = a
                                  /\ status'[a] = copy[q].status]_vars
  <2> DEFINE Sticks(a) ==
        status[a] # "absent" /\ status'[a] # status[a] =>
            \/ status'[a] = "absent" /\ RuleOf[AlertKey(a)] \notin rules'
            \/ AlertKey(a) \in overlapped
            \/ \E q \in Req : /\ pc[q] = "update" /\ pc'[q] = "done"
                              /\ copy[q].alert = a /\ status'[a] = copy[q].status
  <2> SUFFICES ASSUME Inv, [Next]_vars, NEW a \in Run,
                      status[a] # "absent", status'[a] # status[a]
               PROVE  Sticks(a)
    OBVIOUS
  <2> USE Operations
  <2>0. TypeOK /\ Requests /\ Rows
    BY DEF Inv
  <2>1. CASE Silent
    BY <2>1 DEF Silent
  <2>2. ASSUME NEW r \in Run, FindActive(r) \/ FindNone(r) PROVE FALSE
    BY <2>2 DEF FindActive, FindNone, table
  <2>3. ASSUME NEW r \in Run, InsertRow(r) PROVE FALSE
    <3>1. pc[r] = "insert" /\ status' = [status EXCEPT ![r] = "OPEN"]
      BY <2>3 DEF InsertRow, Insert
    <3>2. a # r
      BY <2>0, <3>1 DEF Rows, Live, Past
    <3>3. QED
      BY <2>0, <3>1, <3>2 DEF TypeOK
  <2>4. ASSUME NEW o \in Op, Reload(o) PROVE FALSE
    BY <2>4 DEF Reload, table
  <2>5. ASSUME NEW o \in Op, Update(o) PROVE Sticks(a)
    <3>0. UpdateOf(o, copy[o].alert)
      BY <2>0, <2>5, UpdateEffect
    <3>1. a = copy[o].alert /\ pc[o] = "update" /\ Saving(o)
      BY <3>0 DEF UpdateOf
    <3>2. status'[a] = copy[o].status
      BY <3>0, <3>1 DEF UpdateOf
    <3>3. CASE o \in Req
      <4>1. pc' = [pc EXCEPT ![o] = "done"]
        BY <2>5, <3>3 DEF Update, After
      <4>2. QED
        BY <2>0, <3>1, <3>2, <3>3, <4>1 DEF TypeOK
    <3>4. CASE o \in Run
      <4>1. OpKey(o) = AlertKey(a)
        BY <2>0, <3>1, SavingKey
      <4>2. AlertKey(a) \notin overlapped => copy[o].status = status[a]
        BY <3>1, <3>4, <4>1 DEF Inv, CopiesCurrent, Current, Live
      <4>3. QED
        BY <3>2, <4>2
    <3>5. QED
      BY <3>3, <3>4
  <2>6. ASSUME NEW q \in Req, RequestStatus(q) PROVE FALSE
    BY <2>6 DEF RequestStatus, table
  <2>7. ASSUME NEW u \in Rule, DeleteRule(u) PROVE Sticks(a)
    BY <2>7 DEF DeleteRule
  <2>8. QED
    BY <2>0, <2>1, <2>2, <2>3, <2>4, <2>5, <2>6, <2>7, StepForms
<1>2. QED
  BY <1>1, Invariant, PTL DEF Spec, DecisionsStick

-----------------------------------------------------------------------------
(* Alerts implements AlertBook *)

\* Rules go by deletion only.
LEMMA RulesStay ==
    ASSUME [Next]_vars, ~\E u \in Rule : DeleteRule(u)
    PROVE  rules' = rules
<1> USE DEF vars, table
<1>1. ASSUME NEW m \in Msg, Publish(m) \/ Deliver(m) \/ LoseChannel(m) PROVE rules' = rules
  BY <1>1 DEF Publish, Deliver, LoseChannel
<1>2. ASSUME NEW r \in Run, RunStep(r) PROVE rules' = rules
  BY <1>2 DEF RunStep, KeyFails, FindActive, FindNone, Insert, Ack
<1>3. ASSUME NEW o \in Op, SaveStep(o) \/ DbFails(o) \/ Kill(o) PROVE rules' = rules
  BY <1>3 DEF SaveStep, Reload, ReloadGone, Update, DbFails, Kill
<1>4. ASSUME NEW q \in Req, RequestStatus(q) PROVE rules' = rules
  BY <1>4 DEF RequestStatus
<1>5. CASE BrokerRestarts
  BY <1>5 DEF BrokerRestarts
<1>6. QED
  BY <1>1, <1>2, <1>3, <1>4, <1>5 DEF Next

\* What the book sees of the counted runs.
Saves == [a \in Run |-> Cardinality(counted[a])]

\* An UPDATE on a key without overlap is a hit or a decision, and elsewhere a late
\* write; it is nothing at all on a row that is gone.
LEMMA BookUpdate ==
    ASSUME Inv, TypeOK', HitsNeverOverstated', rules' = rules, NEW o \in Op, Update(o)
    PROVE  Book!Next \/ UNCHANGED Book!vars
<1> DEFINE a == copy[o].alert
<1> USE Operations
<1>0. TypeOK /\ Rows /\ CopiesCurrent /\ FoundActive /\ ExactUnlessRaced /\ Requests
  BY DEF Inv
<1>1. UpdateOf(o, a)
  BY <1>0, UpdateEffect
<1>2. a \in Run /\ Saving(o) /\ OpKey(o) = AlertKey(a)
  BY <1>0, <1>1, SavingKey DEF UpdateOf
<1>3. reopened' = IF status[a] \notin Active /\ status'[a] \in Active
                  THEN reopened \cup {a} ELSE reopened
  BY DEF Update
<1>4. overlapped' = overlapped
  BY <1>1 DEF UpdateOf
<1>5. CASE status[a] = "absent"
  <2>1. UNCHANGED <<hits, status, counted>>
    BY <1>1, <1>5 DEF UpdateOf
  <2>2. reopened' = reopened
    BY <1>3, <1>5, <2>1 DEF Active
  <2>3. QED
    BY <1>4, <2>1, <2>2 DEF Book!vars
<1>6. CASE status[a] # "absent"
  <2> DEFINE s == status'[a]
             n == Cardinality(counted'[a])
             c == Cardinality(counted[a])
  <2>1. /\ hits' = [hits EXCEPT ![a] = hits'[a]]
        /\ status' = [status EXCEPT ![a] = s]
        /\ counted' = [counted EXCEPT ![a] = counted'[a]]
    BY <1>0, <1>1, <1>2 DEF UpdateOf, TypeOK
  <2>2. Saves' = [Saves EXCEPT ![a] = n] /\ Saves[a] = c
    <3>1. \A b \in Run : b # a => counted'[b] = counted[b]
      BY <1>1 DEF UpdateOf
    <3> HIDE DEF a
    <3>2. \A b \in Run : Saves'[b] = IF b = a THEN n ELSE Saves[b]
      BY <3>1 DEF Saves
    <3>3. Saves' = [b \in Run |-> Saves'[b]] /\ Saves = [b \in Run |-> Saves[b]] /\ Saves[a] = c
      BY <1>2 DEF Saves
    <3> HIDE DEF n, c
    <3>4. QED
      BY <1>2, <3>2, <3>3
  <2>3. c \in Nat /\ n = IF o \in Run THEN c + 1 ELSE c
    <3>1. o \in Run => counted'[a] = counted[a] \cup {o}
      BY <1>1, <1>6 DEF UpdateOf
    <3>2. o \notin Run => counted'[a] = counted[a]
      BY <1>1, <1>6 DEF UpdateOf
    <3>3. o \notin counted[a]
      BY <1>1 DEF UpdateOf
    <3>4. QED
      BY <1>0, <1>2, <3>1, <3>2, <3>3, Counts
  <2>4. s \in Status
    BY <1>0, <1>1, <1>2, <1>6 DEF UpdateOf, TypeOK, Entity
  <2>5. Book!Becomes(a, s)
    BY <1>2, <1>3, <2>1 DEF Book!Becomes, Book!Active, Active
  <2>6. CASE AlertKey(a) \in overlapped
    <3>1. hits'[a] \in 0..n
      BY <1>2 DEF HitsNeverOverstated, TypeOK
    <3>2. n \in {c, c + 1}
      BY <2>3
    <3>3. Book!LateWrite(a, s)
      BY <1>2, <1>4, <1>6, <2>1, <2>2, <2>5, <2>6, <3>1, <3>2 DEF Book!LateWrite, Saves
    <3>4. QED
      BY <1>2, <2>4, <3>3 DEF Book!Next, Book!Status, Book!Active, Status, Active
  <2>7. CASE AlertKey(a) \notin overlapped
    <3>1. Current(o)
      BY <1>0, <1>2, <1>6, <2>7 DEF CopiesCurrent, Live
    <3>2. hits[a] = c
      BY <1>0, <1>2, <1>6, <2>7 DEF ExactUnlessRaced
    <3>3. CASE o \in Run
      <4>1. copy[o].hits = c + 1 /\ "hits" \in dirty[o] /\ copy[o].status = status[a]
        BY <1>1, <3>1, <3>3 DEF Current, Extra, UpdateOf
      <4>2. hits'[a] = hits[a] + 1 /\ s = status[a] /\ n = c + 1
        BY <1>1, <1>6, <2>3, <3>2, <3>3, <4>1 DEF UpdateOf
      <4>3. status[a] \in Active
        BY <1>0, <1>2, <3>3, <4>1 DEF FoundActive
      <4>4. status' = status /\ reopened' = reopened
        BY <1>0, <1>2, <1>3, <2>1, <4>2, <4>3 DEF TypeOK
      <4>5. Book!Hit(a)
        BY <1>2, <1>4, <2>1, <2>2, <4>2, <4>3, <4>4 DEF Book!Hit, Book!Active, Active, Saves
      <4>6. QED
        BY <1>2, <4>5 DEF Book!Next
    <3>4. CASE o \notin Run
      <4>1. copy[o].hits = c
        BY <1>2, <2>3, <3>1, <3>4 DEF Current, Extra
      <4>2. hits'[a] = hits[a] /\ n = c
        BY <1>1, <1>6, <2>3, <3>2, <3>4, <4>1 DEF UpdateOf
      <4>3. hits' = hits
        BY <1>0, <1>2, <2>1, <4>2 DEF TypeOK
      <4>5. Saves' = Saves
        <5>1. Saves = [b \in Run |-> Saves[b]]
          BY DEF Saves
        <5> HIDE DEF n, c, a
        <5>2. QED
          BY <1>2, <2>2, <4>2, <5>1
      <4>4. Book!Decide(a, s)
        BY <1>4, <1>6, <2>5, <4>3, <4>5 DEF Book!Decide, Saves
      <4>6. QED
        BY <1>2, <2>4, <4>4 DEF Book!Next, Book!Status, Book!Active, Status, Active
    <3>5. QED
      BY <3>3, <3>4
  <2>8. QED
    BY <2>6, <2>7
<1>7. QED
  BY <1>5, <1>6

LEMMA BookStep ==
    ASSUME Inv, TypeOK', HitsNeverOverstated', [Next]_vars
    PROVE  Book!Next \/ UNCHANGED Book!vars
<1> USE Operations
<1>0. TypeOK /\ Requests /\ Rows /\ NoneFound
  BY DEF Inv
<1>1. ASSUME NEW u \in Rule, DeleteRule(u) PROVE Book!Next
  <2>1. /\ Saves' = [a \in Run |-> IF RuleOf[AlertKey(a)] = u THEN 0 ELSE Saves[a]]
    <3>1. counted' = [a \in Run |-> IF RuleOf[AlertKey(a)] = u THEN {} ELSE counted[a]]
      BY <1>1 DEF DeleteRule
    <3>2. Cardinality({}) = 0
      BY FS_EmptySet
    <3>3. QED
      BY <3>1, <3>2 DEF Saves
  <2>2. Book!DeleteRule(u)
    BY <1>1, <2>1 DEF DeleteRule, Book!DeleteRule, Saves, history
  <2>3. QED
    BY <2>2 DEF Book!Next
<1>2. SUFFICES ASSUME ~\E u \in Rule : DeleteRule(u) PROVE Book!Next \/ UNCHANGED Book!vars
  BY <1>1
<1>3. rules' = rules
  BY <1>2, RulesStay
<1>4. ASSUME UNCHANGED <<status, hits, counted, reopened>>, NEW k \in Key, Begin(k)
      PROVE  Book!Next \/ UNCHANGED Book!vars
  <2>1. CASE overlapped' = overlapped
    BY <1>3, <1>4, <2>1 DEF Book!vars
  <2>2. CASE overlapped' = overlapped \cup {k}
    <3>1. Book!Meet(k)
      BY <1>3, <1>4, <2>2 DEF Book!Meet
    <3>2. QED
      BY <1>4, <3>1 DEF Book!Next
  <2>3. QED
    BY <1>4, <2>1, <2>2 DEF Begin
<1>5. CASE Silent
  BY <1>3, <1>5 DEF Silent, Book!vars
<1>6. ASSUME NEW r \in Run, FindActive(r) \/ FindNone(r)
      PROVE  Book!Next \/ UNCHANGED Book!vars
  <2>1. UNCHANGED <<status, hits, counted, reopened>> /\ Begin(RunKey(r))
    BY <1>6 DEF FindActive, FindNone, table
  <2>2. QED
    BY <1>4, <2>1
<1>7. ASSUME NEW r \in Run, InsertRow(r) PROVE Book!Next
  <2>1. /\ pc[r] = "insert" /\ RuleOf[RunKey(r)] \in rules
        /\ status' = [status EXCEPT ![r] = "OPEN"] /\ hits' = [hits EXCEPT ![r] = 1]
        /\ counted' = [counted EXCEPT ![r] = {r}]
        /\ overlapped' = overlapped /\ reopened' = reopened
    BY <1>7 DEF InsertRow, Insert, history
  <2>2. status[r] = "absent"
    BY <1>0, <2>1 DEF Rows, Live, Past
  <2>3. RunKey(r) \in overlapped \/ \A b \in Run : AlertKey(b) = RunKey(r) => status[b] \notin Active
    BY <1>0, <2>1 DEF NoneFound, ActiveAlerts
  <2>4. Saves' = [Saves EXCEPT ![r] = 1]
    <3>1. Cardinality({r}) = 1
      BY FS_Singleton
    <3>2. QED
      BY <1>0, <2>1, <3>1 DEF Saves, TypeOK
  <2>5. Book!Open(r)
    BY <1>3, <2>1, <2>2, <2>3, <2>4 DEF Book!Open, Book!Active, Active, Saves, AlertKey
  <2>6. QED
    BY <2>5 DEF Book!Next
<1>8. ASSUME NEW o \in Op, Reload(o) PROVE UNCHANGED Book!vars
  BY <1>3, <1>8 DEF Reload, table, history, Book!vars
<1>9. ASSUME NEW o \in Op, Update(o) PROVE Book!Next \/ UNCHANGED Book!vars
  BY <1>3, <1>9, BookUpdate
<1>10. ASSUME NEW q \in Req, RequestStatus(q) PROVE Book!Next \/ UNCHANGED Book!vars
  <2>1. PICK a \in Run : Begin(AlertKey(a))
    BY <1>10 DEF RequestStatus
  <2>2. UNCHANGED <<status, hits, counted, reopened>> /\ AlertKey(a) \in Key
    BY <1>10 DEF RequestStatus, table, AlertKey
  <2>3. QED
    BY <1>4, <2>1, <2>2
<1>11. QED
  BY <1>0, <1>2, <1>5, <1>6, <1>7, <1>8, <1>9, <1>10, StepForms

\* AlertsService: its alerts are a book on which an event, a decision and the
\* deletion of a rule are one step each, unless operations on the dedup key overlap.
THEOREM BookKept == Spec => KeepsTheBook
<1>1. Init => Book!Init
  <2> SUFFICES ASSUME Init PROVE Book!Init
    OBVIOUS
  <2>1. Cardinality({}) = 0
    BY FS_EmptySet
  <2>2. QED
    BY <2>1 DEF Init, InitWithout, Book!Init
<1>2. Inv /\ Inv' /\ [Next]_vars => [Book!Next]_(Book!vars)
  BY BookStep DEF Inv
<1>3. QED
  BY <1>1, <1>2, Invariant, PTL DEF Spec, KeepsTheBook, Book!Spec

-----------------------------------------------------------------------------
(* What the book promises *)

\* The types of the variables of the book, which its counts need.
BookType ==
    /\ status \in [Run -> Book!Status \cup {"absent"}]
    /\ hits \in [Run -> Nat]
    /\ Saves \in [Run -> Nat]

\* The book by itself, whatever implements it: an event opens an alert only where
\* there is none, and hits are lost only on keys on which operations met.
THEOREM BookPromises == Book!Spec => [](Book!OneActive /\ Book!HitsCounted)
<1> DEFINE BookInv == BookType /\ Book!OneActive /\ Book!HitsCounted
<1> USE DEF Book!Active, Book!Status
<1>1. Book!Init => BookInv
  BY DEF Book!Init, BookType, Saves, Book!OneActive, Book!HitsCounted
<1>2. BookInv /\ [Book!Next]_(Book!vars) => BookInv'
  <2> SUFFICES ASSUME BookInv, [Book!Next]_(Book!vars) PROVE BookInv'
    OBVIOUS
  <2> USE DEF BookType, Saves, Book!OneActive, Book!HitsCounted
  <2>0. \A b \in Run : hits[b] <= Saves[b] /\ (AlertKey(b) \notin overlapped => hits[b] = Saves[b])
    OBVIOUS
  <2>1. ASSUME NEW a \in Run, Book!Open(a) PROVE BookInv'
    <3>1. /\ status' = [status EXCEPT ![a] = "OPEN"]
          /\ hits' = [hits EXCEPT ![a] = 1] /\ Saves' = [Saves EXCEPT ![a] = 1]
          /\ overlapped' = overlapped /\ reopened' = reopened
          /\ AlertKey(a) \in overlapped \/
                \A b \in Run : AlertKey(b) = AlertKey(a) => status[b] \notin Book!Active
      BY <2>1 DEF Book!Open
    <3> HIDE DEF Saves
    <3>2. BookType'
      BY <3>1
    <3>3. Book!OneActive'
      BY <3>1
    <3>4. \A b \in Run : hits'[b] <= Saves'[b] /\ (AlertKey(b) \notin overlapped' => hits'[b] = Saves'[b])
      BY <3>1, <2>0
    <3> QED
      BY <3>2, <3>3, <3>4 DEF Saves
  <2>2. ASSUME NEW a \in Run, Book!Hit(a) PROVE BookInv'
    <3>1. /\ status' = status
          /\ hits' = [hits EXCEPT ![a] = @ + 1] /\ Saves' = [Saves EXCEPT ![a] = @ + 1]
          /\ overlapped' = overlapped /\ reopened' = reopened
      BY <2>2 DEF Book!Hit
    <3> HIDE DEF Saves
    <3>2. BookType' /\ Book!OneActive'
      BY <3>1
    <3>3. \A b \in Run : hits'[b] <= Saves'[b] /\ (AlertKey(b) \notin overlapped' => hits'[b] = Saves'[b])
      BY <3>1, <2>0
    <3> QED
      BY <3>2, <3>3 DEF Saves
  <2>3. ASSUME NEW a \in Run, NEW s \in Book!Status, Book!Decide(a, s) PROVE BookInv'
    BY <2>3 DEF Book!Decide, Book!Becomes
  <2>4. ASSUME NEW a \in Run, NEW s \in Book!Status, Book!LateWrite(a, s) PROVE BookInv'
    <3>1. PICK n \in {Saves[a], Saves[a] + 1} :
              /\ Saves' = [Saves EXCEPT ![a] = n]
              /\ \E h \in 0..n : hits' = [hits EXCEPT ![a] = h]
      BY <2>4 DEF Book!LateWrite
    <3>2. PICK h \in 0..n : hits' = [hits EXCEPT ![a] = h]
      BY <3>1
    <3>3. /\ status' = [status EXCEPT ![a] = s] /\ overlapped' = overlapped
          /\ AlertKey(a) \in overlapped /\ reopened \subseteq reopened'
      BY <2>4 DEF Book!LateWrite, Book!Becomes
    <3> HIDE DEF Saves
    <3>4. BookType'
      BY <3>1, <3>2, <3>3
    <3>5. Book!OneActive'
      BY <3>3
    <3>6. \A b \in Run : hits'[b] <= Saves'[b] /\ (AlertKey(b) \notin overlapped' => hits'[b] = Saves'[b])
      BY <3>1, <3>2, <3>3, <2>0
    <3> QED
      BY <3>4, <3>5, <3>6 DEF Saves
  <2>5. ASSUME NEW k \in Key, Book!Meet(k) PROVE BookInv'
    BY <2>5 DEF Book!Meet
  <2>6. ASSUME NEW u \in Rule, Book!DeleteRule(u) PROVE BookInv'
    BY <2>6 DEF Book!DeleteRule
  <2>7. CASE UNCHANGED Book!vars
    BY <2>7 DEF Book!vars
  <2> QED
    BY <2>1, <2>2, <2>3, <2>4, <2>5, <2>6, <2>7 DEF Book!Next
<1>3. BookInv => Book!OneActive /\ Book!HitsCounted
  OBVIOUS
<1> QED
  BY <1>1, <1>2, <1>3, PTL DEF Book!Spec
=============================================================================
