---------------------------- MODULE Transactions ----------------------------
(***************************************************************************)
(* The transaction side of the service (TransactionsService): a submitted  *)
(* transaction is stored, then the rules are evaluated, then an alert      *)
(* event is published for each rule that fired, and the request is         *)
(* answered whatever happened after the store.                             *)
(*                                                                         *)
(* The rule modelled is a velocity rule, the kind whose evaluation depends *)
(* on other requests: it fires if the account has at least Threshold       *)
(* transactions in its window, by a query on the transactions table.       *)
(* Requests run concurrently, interleaved at each await, and analysts      *)
(* block and void transactions (update) while they do.                     *)
(***************************************************************************)
EXTENDS Operators, FiniteSets

CONSTANTS
    Tx,             \* submitted transactions
    Queued,         \* those submitted to the 'transactions' queue, not by POST
    Account,
    AccountOf,      \* the account of each transaction
    Recent,         \* those dated inside the window of the rule, and not deleted
    Patch,          \* PATCH requests
    NoTx,           \* the transaction an operation holds before it read one
    Threshold,      \* the count at which the rule fires
    MaxFailures     \* bound: failing calls and dying processes

Op == Tx \cup Patch

ASSUME ConstantsAssumption ==
    /\ Queued \subseteq Tx
    /\ AccountOf \in [Tx -> Account]
    /\ Recent \subseteq Tx
    /\ Tx \cap Patch = {}
    /\ NoTx \notin Tx
    /\ Threshold \in Nat \ {0}
    /\ MaxFailures \in Nat

Flag == {"blocked", "voided"}

VARIABLES
    stored,     \* rows of the transactions table
    flags,      \* the flags set on each row
    pc,         \* where each submission and each PATCH is
    seen,       \* the rows the history query of each evaluation counted
    fired,      \* transactions on which the rule fired
    outbox,     \* alert events given to the client of the alerts queue
    published,  \* alert events in the broker
    copy,       \* what a PATCH holds: the entity read and the flags its body names
    dirty,      \* the columns its UPDATE will write
    last,       \* ghost: the recent transaction stored last, by account
    failed,     \* ghost: submissions whose evaluation failed or died
    everVoided, \* ghost: transactions that were ever voided
    overlapped, \* ghost: transactions with two PATCHes open at once
    failures

memory == <<copy, dirty>>
ghosts == <<last, failed, everVoided, overlapped>>
vars == <<stored, flags, pc, seen, fired, outbox, published, memory, ghosts, failures>>

-----------------------------------------------------------------------------
Goto(o, l) == pc' = [pc EXCEPT ![o] = l]

\* What a PATCH holds before it has read, and after it has ended.
NoEntity == [tx |-> NoTx, flags |-> {}, named |-> {}]

\* The PATCH that held the entity is over.
Release(p) ==
    /\ Goto(p, "done")
    /\ copy' = [copy EXCEPT ![p] = NoEntity]
    /\ dirty' = [dirty EXCEPT ![p] = {}]

\* A failing call, within the bound.
Failure ==
    /\ failures < MaxFailures
    /\ failures' = failures + 1

\* Nothing has happened, and what is in off never will.
InitWithout(off) ==
    /\ stored = {}
    /\ flags = [t \in Tx |-> {}]
    /\ pc = [o \in Op |-> IF o \in off THEN "done" ELSE "idle"]
    /\ seen = [t \in Tx |-> {}]
    /\ fired = {}
    /\ outbox = {}
    /\ published = {}
    /\ copy = [p \in Patch |-> NoEntity]
    /\ dirty = [p \in Patch |-> {}]
    /\ last = [c \in Account |-> NoTx]
    /\ failed = {}
    /\ everVoided = {}
    /\ overlapped = {}
    /\ failures = 0

Init == InitWithout({})

-----------------------------------------------------------------------------
(* createAndEvaluate *)

\* create(): the INSERT, before anything is evaluated. The caller may submit it
\* voided.
Store(t) ==
    /\ pc[t] = "idle"
    /\ t \notin Queued
    /\ stored' = stored \cup {t}
    /\ \E f \in SUBSET Flag :
          /\ flags' = [flags EXCEPT ![t] = f]
          /\ everVoided' = IF "voided" \in f THEN everVoided \cup {t} ELSE everVoided
    /\ last' = IF t \in Recent THEN [last EXCEPT ![AccountOf[t]] = t] ELSE last
    /\ Goto(t, "rules")
    /\ UNCHANGED <<seen, fired, outbox, published, memory, failed, overlapped, failures>>

\* The INSERT fails: the request is answered with an error.
StoreFails(t) ==
    /\ pc[t] = "idle"
    /\ t \notin Queued
    /\ Failure
    /\ Goto(t, "done")
    /\ UNCHANGED <<stored, flags, seen, fired, outbox, published, memory, ghosts>>

\* A message of the 'transactions' queue: TransactionsConsumer is a provider of
\* its module and no controller, so that its pattern has no handler, and the
\* RabbitMQ server rejects the message without requeueing it.
Discard(t) ==
    /\ pc[t] = "idle"
    /\ t \in Queued
    /\ Goto(t, "done")
    /\ UNCHANGED <<stored, flags, seen, fired, outbox, published, memory, ghosts, failures>>

\* EngineService.evaluate has the rules of the organization.
GetRules(t) ==
    /\ pc[t] = "rules"
    /\ Goto(t, "history")
    /\ UNCHANGED <<stored, flags, seen, fired, outbox, published, memory, ghosts, failures>>

\* Fault: the stored transaction is counted once more, as the one at hand.
ReachedWithOneMore(rows) ==
    greaterThanOrEqual(<<"number", Cardinality(rows) + 1>>, <<"number", Threshold>>)

\* The condition of the rule: a count, by the operator countGreaterThanOrEqual.
Reached(rows) ==
    greaterThanOrEqual(<<"number", Cardinality(rows)>>, <<"number", Threshold>>)

\* Fault: the transaction under evaluation is left out of its own history.
CountOthers(t) ==
    /\ pc[t] = "history"
    /\ LET rows == {x \in stored \ {t} : /\ AccountOf[x] = AccountOf[t]
                                         /\ x \in Recent
                                         /\ "voided" \notin flags[x]}
       IN /\ seen' = [seen EXCEPT ![t] = rows]
          /\ fired' = IF Reached(rows) THEN fired \cup {t} ELSE fired
    /\ Goto(t, "publish")
    /\ UNCHANGED <<stored, flags, outbox, published, memory, ghosts, failures>>

\* Fault: blocked transactions are not counted.
CountUnblocked(t) ==
    /\ pc[t] = "history"
    /\ LET rows == {x \in stored : /\ AccountOf[x] = AccountOf[t]
                                   /\ x \in Recent
                                   /\ flags[x] = {}}
       IN /\ seen' = [seen EXCEPT ![t] = rows]
          /\ fired' = IF Reached(rows) THEN fired \cup {t} ELSE fired
    /\ Goto(t, "publish")
    /\ UNCHANGED <<stored, flags, outbox, published, memory, ghosts, failures>>

\* TransactionHistoryFact: the rows of the account, dated inside the window and
\* not voided, that are there at this moment; the rule fires at the threshold.
CountHistory(t) ==
    /\ pc[t] = "history"
    /\ LET rows == {x \in stored : /\ AccountOf[x] = AccountOf[t]
                                   /\ x \in Recent
                                   /\ "voided" \notin flags[x]}
       IN /\ seen' = [seen EXCEPT ![t] = rows]
          /\ fired' = IF Reached(rows) THEN fired \cup {t} ELSE fired
    /\ Goto(t, "publish")
    /\ UNCHANGED <<stored, flags, outbox, published, memory, ghosts, failures>>

\* Loading the rules or the query fails: evaluate() reports no event for the
\* rule, and the transaction stays stored.
EvaluationFails(t) ==
    /\ pc[t] \in {"rules", "history"}
    /\ Failure
    /\ failed' = failed \cup {t}
    /\ Goto(t, "publish")
    /\ UNCHANGED <<stored, flags, seen, fired, outbox, published, memory,
                   last, everVoided, overlapped>>

\* Fault: a failed evaluation is not turned into an answer.
PublishOnSuccess(t) ==
    /\ pc[t] = "publish"
    /\ t \notin failed
    /\ outbox' = IF t \in fired THEN outbox \cup {t} ELSE outbox
    /\ Goto(t, "done")
    /\ UNCHANGED <<stored, flags, seen, fired, published, memory, ghosts, failures>>

\* Fault: no event for a transaction that was submitted blocked or voided.
PublishUnflagged(t) ==
    /\ pc[t] = "publish"
    /\ outbox' = IF t \in fired /\ flags[t] = {} THEN outbox \cup {t} ELSE outbox
    /\ Goto(t, "done")
    /\ UNCHANGED <<stored, flags, seen, fired, published, memory, ghosts, failures>>

\* publishAlertEvents: emit() hands the event to the client and returns; the
\* request is answered without waiting for the broker.
PublishAndAnswer(t) ==
    /\ pc[t] = "publish"
    /\ outbox' = IF t \in fired THEN outbox \cup {t} ELSE outbox
    /\ Goto(t, "done")
    /\ UNCHANGED <<stored, flags, seen, fired, published, memory, ghosts, failures>>

\* The client writes the event to the alerts queue.
Flush(t) ==
    /\ t \in outbox
    /\ outbox' = outbox \ {t}
    /\ published' = published \cup {t}
    /\ UNCHANGED <<stored, flags, pc, seen, fired, memory, ghosts, failures>>

\* The event never reaches the broker, and nobody is told: the connection
\* breaks, or the process dies with what it has not written.
LoseEvent(t) ==
    /\ t \in outbox
    /\ Failure
    /\ outbox' = outbox \ {t}
    /\ UNCHANGED <<stored, flags, pc, seen, fired, published, memory, ghosts>>

\* The process that works on t dies, or the answer to its INSERT is lost.
Die(t) ==
    /\ pc[t] \notin {"idle", "done"}
    /\ Failure
    /\ Goto(t, "done")
    /\ failed' = failed \cup {t}
    /\ UNCHANGED <<stored, flags, seen, fired, outbox, published, memory,
                   last, everVoided, overlapped>>

-----------------------------------------------------------------------------
(* update: findOne, assign the flags of the body, save *)

OpenOn(t) == {p \in Patch : pc[p] \in {"reload", "update"} /\ copy[p].tx = t}

\* Fault: flags the body leaves out are cleared.
PatchFindClearing(p) ==
    /\ pc[p] = "idle"
    /\ \E t \in stored, on, off \in SUBSET Flag :
          /\ on \cap off = {}
          /\ copy' = [copy EXCEPT ![p] = [tx |-> t, named |-> on \cup off, flags |-> on]]
          /\ overlapped' = IF OpenOn(t) = {} THEN overlapped ELSE overlapped \cup {t}
    /\ Goto(p, "reload")
    /\ UNCHANGED <<stored, flags, seen, fired, outbox, published, dirty,
                   last, failed, everVoided, failures>>

\* Fault: a transaction that does not exist is not refused.
PatchFindUnchecked(p) ==
    /\ pc[p] = "idle"
    /\ Goto(p, "reload")
    /\ UNCHANGED <<stored, flags, seen, fired, outbox, published, memory, ghosts, failures>>

\* findOne, and the assignment of the flags the body names, to true or false.
PatchFind(p) ==
    /\ pc[p] = "idle"
    /\ \E t \in stored, on, off \in SUBSET Flag :
          /\ on \cap off = {}
          /\ copy' = [copy EXCEPT ![p] = [tx |-> t, named |-> on \cup off,
                                          flags |-> (flags[t] \cup on) \ off]]
          /\ overlapped' = IF OpenOn(t) = {} THEN overlapped ELSE overlapped \cup {t}
    /\ Goto(p, "reload")
    /\ UNCHANGED <<stored, flags, seen, fired, outbox, published, dirty,
                   last, failed, everVoided, failures>>

\* save(): the SELECT and the diff with the entity in memory.
PatchReload(p) ==
    /\ pc[p] = "reload"
    /\ dirty' = [dirty EXCEPT ![p] =
                    {f \in Flag : (f \in copy[p].flags) # (f \in flags[copy[p].tx])}]
    /\ Goto(p, "update")
    /\ UNCHANGED <<stored, flags, seen, fired, outbox, published, copy, ghosts, failures>>

\* save(): the UPDATE of the columns that differed.
PatchUpdate(p) ==
    /\ pc[p] = "update"
    /\ LET t == copy[p].tx
           new == (flags[t] \ dirty[p]) \cup (copy[p].flags \cap dirty[p])
       IN /\ flags' = [flags EXCEPT ![t] = new]
          /\ everVoided' = IF "voided" \in new THEN everVoided \cup {t} ELSE everVoided
    /\ Release(p)
    /\ UNCHANGED <<stored, seen, fired, outbox, published,
                   last, failed, overlapped, failures>>

\* A query of a PATCH fails, or its process dies.
PatchFails(p) ==
    /\ pc[p] \in {"reload", "update"}
    /\ Failure
    /\ Release(p)
    /\ UNCHANGED <<stored, flags, seen, fired, outbox, published, ghosts>>

-----------------------------------------------------------------------------
TxStep(t) ==
    \/ Store(t) \/ StoreFails(t) \/ Discard(t)
    \/ GetRules(t) \/ CountHistory(t) \/ EvaluationFails(t) \/ PublishAndAnswer(t)
PatchStep(p) == PatchReload(p) \/ PatchUpdate(p) \/ PatchFails(p)

Next ==
    \/ \E t \in Tx : TxStep(t) \/ Flush(t) \/ LoseEvent(t) \/ Die(t)
    \/ \E p \in Patch : PatchFind(p) \/ PatchStep(p)

Spec == Init /\ [][Next]_vars

\* The event loop resumes what waits for an answer and the client writes what
\* it was given. A submission that arrived is a step of the event loop too.
Fairness ==
    /\ \A t \in Tx : WF_vars(TxStep(t)) /\ WF_vars(Flush(t))
    /\ \A p \in Patch : WF_vars(PatchStep(p))

FairSpec == Spec /\ Fairness

-----------------------------------------------------------------------------
(* Properties *)

\* Every variable has its type, and a PATCH that is saving has read a row.
TypeOK ==
    /\ stored \subseteq Tx
    /\ flags \in [Tx -> SUBSET Flag]
    /\ pc \in [Op -> {"idle", "rules", "history", "publish", "reload", "update", "done"}]
    /\ seen \in [Tx -> SUBSET Tx]
    /\ fired \subseteq Tx
    /\ outbox \subseteq Tx
    /\ published \subseteq Tx
    /\ copy \in [Patch -> [tx : Tx \cup {NoTx}, flags : SUBSET Flag, named : SUBSET Flag]]
    /\ \A p \in Patch : pc[p] \in {"reload", "update"} => copy[p].tx \in Tx
    /\ dirty \in [Patch -> SUBSET Flag]
    /\ last \in [Account -> Tx \cup {NoTx}]
    /\ failed \subseteq Tx
    /\ everVoided \subseteq Tx
    /\ overlapped \subseteq Tx
    /\ failures \in 0..MaxFailures

RecentRows(c) == {x \in stored : AccountOf[x] = c /\ x \in Recent}

\* The rules were evaluated for t and the evaluation did not fail.
Evaluated(t) == pc[t] \in {"publish", "done"} /\ t \notin failed

\* Storing before evaluating makes concurrent submissions see each other: when
\* an account has reached the threshold, no row of it was ever voided and every
\* one was evaluated, the rule fired on at least one of them. No interleaving
\* of a burst slips through between the INSERTs and the counts.
BurstIsDetected ==
    \A c \in Account :
        /\ Cardinality(RecentRows(c)) >= Threshold
        /\ RecentRows(c) \cap everVoided = {}
        /\ \A t \in RecentRows(c) : Evaluated(t)
        => RecentRows(c) \cap fired # {}

\* Which one: the transaction of the account that was stored last has counted
\* every row that was never voided, so a voided row is all it can have missed.
LastSeesAll ==
    \A c \in Account : last[c] # NoTx /\ Evaluated(last[c]) =>
        /\ RecentRows(c) \ everVoided \subseteq seen[last[c]]
        /\ Cardinality(seen[last[c]]) >= Threshold => last[c] \in fired

\* An operator and its negation split the pairs of values a condition may give them:
\* NegationsSplit. It does not depend on the state and is asked of the first ones.
OperatorsSplit == (\E off \in SUBSET Op : InitWithout(off)) => NegationsSplit

\* The rule never fires below its threshold, whatever is submitted, blocked or
\* voided while it counts: when it fired on a transaction, its account has that
\* many rows in the window (rows are never deleted).
FiredIsJustified ==
    \A t \in fired : Cardinality(RecentRows(AccountOf[t])) >= Threshold

\* A PATCH changes a flag of a transaction only if its body names it, unless
\* PATCHes of the transaction overlapped: one that blocks it does not undo that
\* it was voided after the evaluation counted it.
FlagsChangeAsAsked ==
    [][\A t \in stored, f \in Flag :
          (f \in flags[t]) # (f \in flags'[t]) =>
              \/ t \in overlapped
              \/ \E p \in Patch : /\ pc[p] = "update" /\ pc'[p] = "done"
                                  /\ copy[p].tx = t /\ f \in copy[p].named]_vars

\* A stored transaction is answered, whatever fails in its evaluation.
StoredIsAnswered == \A t \in Tx : t \in stored ~> pc[t] = "done"

\* When the rule fires its alert event reaches the broker, unless something
\* fails: answering early does not forget it.
FiredIsPublished == \A t \in Tx : t \in fired ~> t \in published \/ failures > 0

\* ARCHITECTURE.md, "Processes messages from the transactions queue - Stores
\* transaction and evaluates rules": a message that was consumed is stored,
\* unless a call failed.
ConsumedIsStored ==
    \A t \in Queued : pc[t] = "done" => t \in stored \/ failures > 0
=============================================================================
