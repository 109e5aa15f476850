------------------------------ MODULE RuleCache ------------------------------
(***************************************************************************)
(* The rule sets the engine evaluates: the rules, template and overrides   *)
(* in PostgreSQL, their copy in Redis (RuleCacheService), the evaluations  *)
(* that read the copy or fill it (EngineService.getCachedRules), and the   *)
(* CRUD services that change the tables and then invalidate the copy.      *)
(*                                                                         *)
(* Several instances of the service share the database and Redis. Data are *)
(* version numbers: one for the rule rows of an organization, one for its  *)
(* override, one for the template, which all organizations share. Every    *)
(* await is a point where others run: an evaluation is get, read rules,    *)
(* read template, read override, set; a write is save, DEL, PUBLISH.       *)
(***************************************************************************)
EXTENDS Naturals, FiniteSets, EffectiveConfig

CONSTANTS
    Org,            \* organizations, each with one override of the template
    Instance,       \* processes of the service
    Eval,           \* evaluation slots: one evaluation after another in each
    Write,          \* CRUD requests
    At,             \* the instance that runs each evaluation slot and request
    MaxFailures,    \* bound: failing calls to PostgreSQL, Redis or pub/sub
    MaxCrashes      \* bound: restarts of an instance

Op == Eval \cup Write

ASSUME ConstantsAssumption ==
    /\ At \in [Op -> Instance]
    /\ Eval \cap Write = {}
    /\ MaxFailures \in Nat
    /\ MaxCrashes \in Nat

\* What a rule set was computed from. "linked": some enabled rule inherits from
\* the template. "raced" is a ghost: a DEL came between the reads and now.
Config == [rules : Nat, linked : BOOLEAN, tpl : Nat, ovr : Nat, raced : BOOLEAN]
NoConfig == [rules |-> 0, linked |-> FALSE, tpl |-> 0, ovr |-> 0, raced |-> FALSE]

VARIABLES
    rules,      \* version of the rule rows of each organization
    linked,     \* whether an enabled rule of the organization has the template
    ovr,        \* version of the override of each organization
    tpl,        \* version of the template
    tplLive,    \* whether the template row exists
    cached,     \* organizations with an entry in Redis
    entry,      \* what the entry was computed from
    mail,       \* PUBLISHed invalidations not yet handled: <<request, instance>>
    connected,  \* isConnected of each instance
    pc,         \* where each evaluation and request is
    org,        \* the organization it is for
    load,       \* what an evaluation has read from the database so far
    lost,       \* ghost: organizations with an invalidation that was not done
    failures,
    crashes

database == <<rules, linked, ovr, tpl, tplLive>>
redis == <<cached, entry>>
bounds == <<failures, crashes>>
vars == <<database, redis, mail, connected, pc, org, load, lost, bounds>>

-----------------------------------------------------------------------------
\* The evaluations that have read rules and may still write them to Redis.
Loading(e) == pc[e] \in {"template", "override", "set"}

\* DEL of the key of o, by the writer or by a subscriber.
Del(o) ==
    /\ cached' = cached \ {o}
    /\ entry' = [entry EXCEPT ![o] = NoConfig]
    /\ load' = [e \in Eval |-> IF Loading(e) /\ org[e] = o
                               THEN [load[e] EXCEPT !.raced = TRUE]
                               ELSE load[e]]
    /\ lost' = lost \ {o}

Goto(x, l) == pc' = [pc EXCEPT ![x] = l]

\* The evaluation is over: it goes on with the rules it has, or with none.
Finish(e) ==
    /\ Goto(e, "idle")
    /\ load' = [load EXCEPT ![e] = NoConfig]

Init ==
    /\ rules = [o \in Org |-> 0]
    /\ linked \in [Org -> BOOLEAN]
    /\ ovr = [o \in Org |-> 0]
    /\ tpl = 0
    /\ tplLive = TRUE
    /\ cached = {}
    /\ entry = [o \in Org |-> NoConfig]
    /\ mail = {}
    /\ connected \in [Instance -> BOOLEAN]
    /\ pc = [x \in Op |-> "idle"]
    /\ org \in [Op -> Org]
    /\ load = [e \in Eval |-> NoConfig]
    /\ lost = {}
    /\ failures = 0
    /\ crashes = 0

-----------------------------------------------------------------------------
(* Writes *)

\* Fault: no event is emitted after the save.
SaveRulesSilently(w) ==
    /\ pc[w] = "idle"
    /\ rules' = [rules EXCEPT ![org[w]] = @ + 1]
    /\ \E l \in BOOLEAN : /\ l => tplLive
                          /\ linked' = [linked EXCEPT ![org[w]] = l]
    /\ Goto(w, "done")
    /\ UNCHANGED <<ovr, tpl, tplLive, redis, mail, connected, org, load, lost, bounds>>

\* RulesService.create, update, remove: the rows of an organization change. A
\* rule may come to inherit from the template only while the template exists.
SaveRules(w) ==
    /\ pc[w] = "idle"
    /\ rules' = [rules EXCEPT ![org[w]] = @ + 1]
    /\ \E l \in BOOLEAN : /\ l => tplLive
                          /\ linked' = [linked EXCEPT ![org[w]] = l]
    /\ Goto(w, "emit")
    /\ UNCHANGED <<ovr, tpl, tplLive, redis, mail, connected, org, load, lost, bounds>>

\* TemplateOverridesService.create, update, remove.
SaveOverride(w) ==
    /\ pc[w] = "idle"
    /\ tplLive
    /\ ovr' = [ovr EXCEPT ![org[w]] = @ + 1]
    /\ Goto(w, "emit")
    /\ UNCHANGED <<rules, linked, tpl, tplLive, redis, mail, connected, org, load, lost, bounds>>

\* RuleTemplatesService.update: no event is emitted.
SaveTemplate(w) ==
    /\ pc[w] = "idle"
    /\ tplLive
    /\ tpl' = tpl + 1
    /\ Goto(w, "done")
    /\ UNCHANGED <<rules, linked, ovr, tplLive, redis, mail, connected, org, load, lost, bounds>>

\* RuleTemplatesService.remove: the foreign keys unlink the rules and delete
\* the overrides of every organization; no event is emitted.
RemoveTemplate(w) ==
    /\ pc[w] = "idle"
    /\ tplLive
    /\ tplLive' = FALSE
    /\ tpl' = tpl + 1
    /\ linked' = [o \in Org |-> FALSE]
    /\ Goto(w, "done")
    /\ UNCHANGED <<rules, ovr, redis, mail, connected, org, load, lost, bounds>>

\* Fault: only the PUBLISH is done, the key is left to the subscribers.
InvalidateByMessage(w) ==
    /\ pc[w] = "emit"
    /\ connected[At[w]]
    /\ Goto(w, "publish")
    /\ UNCHANGED <<database, redis, load, lost, mail, connected, org, bounds>>

\* invalidate(): DEL on the shared Redis.
Invalidate(w) ==
    /\ pc[w] = "emit"
    /\ connected[At[w]]
    /\ Del(org[w])
    /\ Goto(w, "publish")
    /\ UNCHANGED <<database, mail, connected, org, bounds>>

\* invalidate() on an instance that never reached Redis: it returns.
InvalidateSkipped(w) ==
    /\ pc[w] = "emit"
    /\ ~connected[At[w]]
    /\ lost' = lost \cup {org[w]}
    /\ Goto(w, "done")
    /\ UNCHANGED <<database, redis, mail, connected, org, load, bounds>>

\* The answer to the save is lost, so that save() throws and nothing is emitted,
\* or the DEL fails, which is logged, and there is no PUBLISH either.
InvalidateFails(w) ==
    /\ pc[w] = "emit"
    /\ failures < MaxFailures
    /\ failures' = failures + 1
    /\ lost' = lost \cup {org[w]}
    /\ Goto(w, "done")
    /\ UNCHANGED <<database, redis, mail, connected, org, load, crashes>>

\* Fault: the message names the organization where the request is expected.
PublishMislabelled(w) ==
    /\ pc[w] = "publish"
    /\ mail' = mail \cup {<<org[w], i>> : i \in {j \in Instance : connected[j]}}
    /\ Goto(w, "done")
    /\ UNCHANGED <<database, redis, connected, org, load, lost, bounds>>

\* PUBLISH to every subscribed instance, the publisher included.
Publish(w) ==
    /\ pc[w] = "publish"
    /\ mail' = mail \cup {<<w, i>> : i \in {j \in Instance : connected[j]}}
    /\ Goto(w, "done")
    /\ UNCHANGED <<database, redis, connected, org, load, lost, bounds>>

PublishFails(w) ==
    /\ pc[w] = "publish"
    /\ failures < MaxFailures
    /\ failures' = failures + 1
    /\ Goto(w, "done")
    /\ UNCHANGED <<database, redis, mail, connected, org, load, lost, crashes>>

\* handleInvalidationMessage: each subscriber deletes the key once more.
HandleMessage(m) ==
    /\ m \in mail
    /\ mail' = mail \ {m}
    /\ Del(org[m[1]])
    /\ UNCHANGED <<database, connected, pc, org, bounds>>

\* Pub/sub delivers at most once, and the DEL of a subscriber may fail.
LoseMessage(m) ==
    /\ m \in mail
    /\ failures < MaxFailures
    /\ failures' = failures + 1
    /\ mail' = mail \ {m}
    /\ UNCHANGED <<database, redis, connected, pc, org, load, lost, crashes>>

-----------------------------------------------------------------------------
(* Evaluations: getCachedRules *)

\* evaluate() is called for some organization.
Start(e) ==
    /\ pc[e] = "idle"
    /\ \E o \in Org : org' = [org EXCEPT ![e] = o]
    /\ Goto(e, "get")
    /\ UNCHANGED <<database, redis, mail, connected, load, lost, bounds>>

\* GET finds an entry: the rules in it are evaluated.
Hit(e) ==
    /\ pc[e] = "get"
    /\ connected[At[e]]
    /\ org[e] \in cached
    /\ Finish(e)
    /\ UNCHANGED <<database, redis, mail, connected, org, lost, bounds>>

\* Fault: an instance without a connection waits for one.
MissConnected(e) ==
    /\ pc[e] = "get"
    /\ connected[At[e]] /\ org[e] \notin cached
    /\ Goto(e, "rules")
    /\ UNCHANGED <<database, redis, mail, connected, org, load, lost, bounds>>

\* get() returns null: no entry, or an instance without a connection.
Miss(e) ==
    /\ pc[e] = "get"
    /\ ~connected[At[e]] \/ org[e] \notin cached
    /\ Goto(e, "rules")
    /\ UNCHANGED <<database, redis, mail, connected, org, load, lost, bounds>>

\* GET fails: get() returns null as well.
GetFails(e) ==
    /\ pc[e] = "get"
    /\ connected[At[e]]
    /\ failures < MaxFailures
    /\ failures' = failures + 1
    /\ Goto(e, "rules")
    /\ UNCHANGED <<database, redis, mail, connected, org, load, lost, crashes>>

\* findEnabledByPriority. Without a rule that has a template nothing else is read.
ReadRules(e) ==
    /\ pc[e] = "rules"
    /\ load' = [load EXCEPT ![e] = [NoConfig EXCEPT !.rules = rules[org[e]],
                                                    !.linked = linked[org[e]],
                                                    !.tpl = tpl]]
    /\ Goto(e, IF linked[org[e]] THEN "template" ELSE "set")
    /\ UNCHANGED <<database, redis, mail, connected, org, lost, bounds>>

\* getMergedConfig: the template, by a query of its own.
ReadTemplate(e) ==
    /\ pc[e] = "template"
    /\ tplLive
    /\ load' = [load EXCEPT ![e].tpl = tpl]
    /\ Goto(e, "override")
    /\ UNCHANGED <<database, redis, mail, connected, org, lost, bounds>>

\* The template was removed after the rules were read: NotFoundException, which
\* evaluate() turns into the result without rules.
ReadTemplateGone(e) ==
    /\ pc[e] = "template"
    /\ ~tplLive
    /\ Finish(e)
    /\ UNCHANGED <<database, redis, mail, connected, org, lost, bounds>>

\* getMergedConfig: the override, by a third query.
ReadOverride(e) ==
    /\ pc[e] = "override"
    /\ load' = [load EXCEPT ![e].ovr = ovr[org[e]]]
    /\ Goto(e, "set")
    /\ UNCHANGED <<database, redis, mail, connected, org, lost, bounds>>

\* A query fails: evaluate() returns the result without rules.
ReadFails(e) ==
    /\ pc[e] \in {"rules", "template", "override"}
    /\ failures < MaxFailures
    /\ failures' = failures + 1
    /\ Finish(e)
    /\ UNCHANGED <<database, redis, mail, connected, org, lost, crashes>>

\* SETEX, whatever happened to the key or the tables since the reads.
Set(e) ==
    /\ pc[e] = "set"
    /\ connected[At[e]]
    /\ cached' = cached \cup {org[e]}
    /\ entry' = [entry EXCEPT ![org[e]] = load[e]]
    /\ Finish(e)
    /\ UNCHANGED <<database, mail, connected, org, lost, bounds>>

\* set() without a connection, or a SETEX that fails: the rules are used anyway.
SetSkipped(e) ==
    /\ pc[e] = "set"
    /\ \/ ~connected[At[e]] /\ UNCHANGED failures
       \/ failures < MaxFailures /\ failures' = failures + 1
    /\ Finish(e)
    /\ UNCHANGED <<database, redis, mail, connected, org, lost, crashes>>

-----------------------------------------------------------------------------
\* Fault: SET without a TTL.
ExpireNever(o) ==
    /\ o \in cached /\ o \notin cached
    /\ UNCHANGED vars

\* The TTL of the entry runs out, or Redis loses it.
Expire(o) ==
    /\ o \in cached
    /\ cached' = cached \ {o}
    /\ entry' = [entry EXCEPT ![o] = NoConfig]
    /\ UNCHANGED <<database, mail, connected, pc, org, load, lost, bounds>>

\* An instance dies with its evaluations, its requests and its subscription,
\* and starts again, with or without a connection to Redis (onModuleInit).
Crash(i) ==
    /\ crashes < MaxCrashes
    /\ crashes' = crashes + 1
    /\ pc' = [x \in Op |-> IF At[x] # i THEN pc[x]
                           ELSE IF x \in Eval THEN "idle"
                           ELSE IF pc[x] = "idle" THEN "idle" ELSE "done"]
    /\ load' = [e \in Eval |-> IF At[e] = i THEN NoConfig ELSE load[e]]
    /\ lost' = lost \cup {org[w] : w \in {v \in Write : At[v] = i /\ pc[v] = "emit"}}
    /\ mail' = {m \in mail : m[2] # i}
    /\ \E c \in BOOLEAN : connected' = [connected EXCEPT ![i] = c]
    /\ UNCHANGED <<database, redis, org, failures>>

-----------------------------------------------------------------------------
WriteStep(w) ==
    Invalidate(w) \/ InvalidateSkipped(w) \/ InvalidateFails(w) \/ Publish(w) \/ PublishFails(w)
EvalStep(e) ==
    \/ Hit(e) \/ Miss(e) \/ GetFails(e)
    \/ ReadRules(e) \/ ReadTemplate(e) \/ ReadTemplateGone(e) \/ ReadOverride(e)
    \/ ReadFails(e) \/ Set(e) \/ SetSkipped(e)

Next ==
    \/ \E w \in Write : SaveRules(w) \/ SaveOverride(w) \/ SaveTemplate(w) \/ RemoveTemplate(w)
    \/ \E w \in Write : WriteStep(w)
    \/ \E m \in Write \X Instance : HandleMessage(m) \/ LoseMessage(m)
    \/ \E e \in Eval : Start(e) \/ EvalStep(e)
    \/ \E o \in Org : Expire(o)
    \/ \E i \in Instance : Crash(i)

Spec == Init /\ [][Next]_vars

\* The event loop resumes what waits for an answer, and Redis expires what is
\* 300 seconds old. Nobody has to send requests, and nothing has to fail.
Fairness ==
    /\ \A w \in Write : WF_vars(WriteStep(w))
    /\ \A e \in Eval : WF_vars(EvalStep(e))
    /\ \A m \in Write \X Instance : WF_vars(HandleMessage(m))
    /\ \A o \in Org : WF_vars(Expire(o))

FairSpec == Spec /\ Fairness

-----------------------------------------------------------------------------
(* Properties *)

\* Every variable has its type.
TypeOK ==
    /\ rules \in [Org -> Nat]
    /\ linked \in [Org -> BOOLEAN]
    /\ ovr \in [Org -> Nat]
    /\ tpl \in Nat
    /\ tplLive \in BOOLEAN
    /\ cached \subseteq Org
    /\ entry \in [Org -> Config]
    /\ mail \subseteq Write \X Instance
    /\ connected \in [Instance -> BOOLEAN]
    /\ pc \in [Op -> {"idle", "get", "rules", "template", "override", "set",
                      "emit", "publish", "done"}]
    /\ org \in [Op -> Org]
    /\ load \in [Eval -> Config]
    /\ lost \subseteq Org
    /\ failures \in 0..MaxFailures
    /\ crashes \in 0..MaxCrashes

\* A rule set is stale if the rules of the organization, or the override its
\* template is merged with, were written after they were read for it.
Stale(c, o) == c.rules < rules[o] \/ (c.linked /\ c.ovr < ovr[o])

\* A write to the tables of o has not yet deleted its key.
Pending(o) == \E w \in Write : pc[w] = "emit" /\ org[w] = o

\* Redis serves a stale rule set only in three cases: the DEL of some write is
\* still to come, some DEL failed, was skipped or died with its process and
\* none has followed, or a slow evaluation SETs what it read before a DEL.
StaleIsExplained ==
    \A o \in cached : Stale(entry[o], o) =>
        entry[o].raced \/ Pending(o) \/ o \in lost

\* The same of a rule set that is still being read: what it has so far, without
\* the override until that is read, is stale only in these cases.
LoadStale(e) ==
    \/ load[e].rules < rules[org[e]]
    \/ pc[e] = "set" /\ load[e].linked /\ load[e].ovr < ovr[org[e]]
LoadIsExplained ==
    \A e \in Eval : Loading(e) /\ LoadStale(e) =>
        load[e].raced \/ Pending(org[e]) \/ org[e] \in lost

\* An evaluation always ends, in whatever way Redis, PostgreSQL or the removal
\* of a template fail it: the cache is optional and errors are not fatal.
EvaluationsEnd == \A e \in Eval : pc[e] # "idle" ~> pc[e] = "idle"

\* When the requests have ended, Redis sooner or later holds only what the
\* tables hold, the template included, for good: what no invalidation removed,
\* the TTL does, and no evaluation brings it back.
EventuallyCurrent ==
    <>[](\A o \in cached : /\ ~Stale(entry[o], o)
                           /\ entry[o].linked => entry[o].tpl = tpl)

\* What the cache holds of a rule is merged property by property, the last layer
\* first: MergedByLayers. It does not depend on the state and is asked of the first.
LastLayerDecides == Init => MergedByLayers

\* ARCHITECTURE.md, "Cache Invalidation": once the key was deleted after a
\* change to rules or overrides, and no DEL was lost, the entry is current.
CurrentOnceInvalidated ==
    \A o \in cached : ~Pending(o) /\ o \notin lost => ~Stale(entry[o], o)

\* ARCHITECTURE.md ADR-006, "Base template updates propagate": when no request
\* is under way and no race or loss hit the entry, it has the template as it is.
TemplateUpdatesPropagate ==
    \A o \in cached :
        /\ \A w \in Write : pc[w] \in {"idle", "done"}
        /\ entry[o].linked /\ ~entry[o].raced /\ o \notin lost
        => entry[o].tpl = tpl
=============================================================================
