--------------------------- MODULE RuleCacheProofs ---------------------------
(***************************************************************************)
(* Proofs about RuleCache, for any organizations, instances, evaluations   *)
(* and requests, and about the configs it holds, for objects of any depth. *)
(***************************************************************************)
EXTENDS RuleCache, FiniteSetTheorems, WellFoundedInduction, TLAPS

\* The actions of the writers and of the subscribers, and those of evaluations.
WriteAct(w) ==
    \/ SaveRules(w) \/ SaveOverride(w) \/ SaveTemplate(w) \/ RemoveTemplate(w)
    \/ WriteStep(w)

-----------------------------------------------------------------------------
\* RuleCache starts in states of its type.
LEMMA TypeCorrectInit == Init => TypeOK
  BY ConstantsAssumption DEF Init, TypeOK, Config, NoConfig, Op

\* RuleCache: every variable has its type in every reachable state, whatever
\* the services and Redis do.
THEOREM TypeCorrect == Spec => []TypeOK
<1> USE ConstantsAssumption DEF Op
<1>1. Init => TypeOK
  BY TypeCorrectInit
<1>2. TypeOK /\ [Next]_vars => TypeOK'
  <2> SUFFICES ASSUME TypeOK, [Next]_vars PROVE TypeOK'
    OBVIOUS
  <2> USE DEF TypeOK, database, redis, bounds, Goto
  <2>1. ASSUME NEW w \in Write, WriteAct(w) PROVE TypeOK'
    <3>1. CASE SaveRules(w) BY <3>1 DEF SaveRules
    <3>2. CASE SaveOverride(w) BY <3>2 DEF SaveOverride
    <3>3. CASE SaveTemplate(w) BY <3>3 DEF SaveTemplate
    <3>4. CASE RemoveTemplate(w)
      <4>1. tpl' \in Nat /\ linked' \in [Org -> BOOLEAN]
        BY <3>4 DEF RemoveTemplate
      <4>2. tplLive' \in BOOLEAN
        BY <3>4 DEF RemoveTemplate
      <4>3. pc' \in [Op -> {"idle", "get", "rules", "template", "override", "set",
                           "emit", "publish", "done"}]
        BY <3>4 DEF RemoveTemplate
      <4>4. UNCHANGED <<rules, ovr, redis, mail, connected, org, load, lost, bounds>>
        BY <3>4 DEF RemoveTemplate
      <4>5. QED
        BY <4>1, <4>2, <4>3, <4>4
    <3>5. CASE Invalidate(w) BY <3>5 DEF Invalidate, Del, Config, NoConfig
    <3>6. CASE InvalidateSkipped(w) BY <3>6 DEF InvalidateSkipped
    <3>7. CASE InvalidateFails(w) BY <3>7 DEF InvalidateFails
    <3>8. CASE Publish(w) BY <3>8 DEF Publish
    <3>9. CASE PublishFails(w) BY <3>9 DEF PublishFails
    <3>10. QED
      BY <2>1, <3>1, <3>2, <3>3, <3>4, <3>5, <3>6, <3>7, <3>8, <3>9
      DEF WriteAct, WriteStep
  <2>2. ASSUME NEW m \in Write \X Instance, HandleMessage(m) PROVE TypeOK'
    BY <2>2 DEF HandleMessage, Del, Config, NoConfig
  <2>3. ASSUME NEW m \in Write \X Instance, LoseMessage(m) PROVE TypeOK'
    BY <2>3 DEF LoseMessage
  <2>4. ASSUME NEW e \in Eval, Start(e) PROVE TypeOK'
    BY <2>4 DEF Start
  <2>5. ASSUME NEW e \in Eval, EvalStep(e) PROVE TypeOK'
    <3> USE DEF Finish, Config, NoConfig
    <3>1. CASE Hit(e) BY <3>1 DEF Hit
    <3>2. CASE Miss(e) BY <3>2 DEF Miss
    <3>3. CASE GetFails(e) BY <3>3 DEF GetFails
    <3>4. CASE ReadRules(e) BY <3>4 DEF ReadRules
    <3>5. CASE ReadTemplate(e) BY <3>5 DEF ReadTemplate
    <3>6. CASE ReadTemplateGone(e) BY <3>6 DEF ReadTemplateGone
    <3>7. CASE ReadOverride(e) BY <3>7 DEF ReadOverride
    <3>8. CASE ReadFails(e) BY <3>8 DEF ReadFails
    <3>9. CASE Set(e) BY <3>9 DEF Set
    <3>10. CASE SetSkipped(e) BY <3>10 DEF SetSkipped
    <3>11. QED
      BY <2>5, <3>1, <3>2, <3>3, <3>4, <3>5, <3>6, <3>7, <3>8, <3>9, <3>10
      DEF EvalStep
  <2>6. ASSUME NEW o \in Org, Expire(o) PROVE TypeOK'
    BY <2>6 DEF Expire, Config, NoConfig
  <2>7. ASSUME NEW i \in Instance, Crash(i) PROVE TypeOK'
    BY <2>7 DEF Crash, Config, NoConfig
  <2>8. CASE UNCHANGED vars
    BY <2>8 DEF vars
  <2>9. QED
    BY <2>1, <2>2, <2>3, <2>4, <2>5, <2>6, <2>7, <2>8 DEF Next, WriteAct
<1>3. QED
  BY <1>1, <1>2, PTL DEF Spec

-----------------------------------------------------------------------------
\* StaleIsExplained is not inductive alone: a SET copies what an evaluation has
\* read, so the same must be known of the evaluations in progress.
Inv == TypeOK /\ StaleIsExplained /\ LoadIsExplained

\* A step that changes neither the tables nor, where they remain, the entries
\* and what evaluations hold, and ends no write before its DEL, keeps both.
LEMMA Quiet ==
    ASSUME Inv,
           UNCHANGED <<rules, ovr>>,
           \A o \in cached' : o \in cached /\ entry'[o] = entry[o],
           lost \subseteq lost',
           \A w \in Write : pc[w] = "emit" => pc'[w] = "emit" /\ org'[w] = org[w],
           \A e \in Eval : Loading(e)' =>
               pc'[e] = pc[e] /\ org'[e] = org[e] /\ load'[e] = load[e]
    PROVE  StaleIsExplained' /\ LoadIsExplained'
  BY DEF Inv, StaleIsExplained, LoadIsExplained, Stale, LoadStale, Pending, Loading

\* A DEL of the key of c removes its entry and marks the evaluations that may
\* still SET what they read before.
LEMMA DelExplains ==
    ASSUME Inv, NEW c \in Org, Del(c), UNCHANGED <<rules, ovr, org>>,
           \A w \in Write : pc[w] = "emit" /\ org[w] # c => pc'[w] = "emit",
           \A e \in Eval : pc'[e] = pc[e]
    PROVE  StaleIsExplained' /\ LoadIsExplained'
<1> USE DEF Inv, TypeOK, Op, Del, Config
<1>1. ASSUME NEW o \in cached' PROVE o # c /\ o \in cached /\ entry'[o] = entry[o]
  BY <1>1
<1>2. StaleIsExplained'
  BY <1>1 DEF StaleIsExplained, Stale, Pending
<1>3. ASSUME NEW e \in Eval, Loading(e)', LoadStale(e)'
      PROVE  load'[e].raced \/ Pending(org[e])' \/ org[e] \in lost'
  <2>0. Loading(e) /\ LoadStale(e)
    BY <1>3 DEF Loading, LoadStale
  <2>1. CASE org[e] = c
    BY <2>0, <2>1
  <2>2. CASE org[e] # c
    <3>1. load'[e] = load[e]
      BY <2>2
    <3>2. load[e].raced \/ Pending(org[e]) \/ org[e] \in lost
      BY <2>0 DEF LoadIsExplained
    <3>3. Pending(org[e]) => Pending(org[e])'
      BY <2>2 DEF Pending
    <3>4. QED
      BY <2>2, <3>1, <3>2, <3>3
  <2>3. QED
    BY <2>1, <2>2
<1>4. QED
  BY <1>2, <1>3 DEF LoadIsExplained

\* A write of the tables of c leaves its request pending, which explains all
\* that becomes stale.
LEMMA SaveExplains ==
    ASSUME Inv, NEW w \in Write,
           pc' = [pc EXCEPT ![w] = "emit"],
           \A o \in Org : o # org[w] => rules'[o] = rules[o] /\ ovr'[o] = ovr[o],
           UNCHANGED <<cached, entry, org, load, lost>>
    PROVE  StaleIsExplained' /\ LoadIsExplained'
<1> USE ConstantsAssumption DEF Inv, TypeOK, Op
<1>1. \A o \in Org : Pending(o) \/ o = org[w] => Pending(o)'
  BY DEF Pending
<1>2. \A e \in Eval : pc'[e] = pc[e] /\ org[e] \in Org
  OBVIOUS
<1>3. StaleIsExplained'
  BY <1>1 DEF StaleIsExplained, Stale
<1>4. LoadIsExplained'
  BY <1>1, <1>2 DEF LoadIsExplained, LoadStale, Loading
<1>5. QED
  BY <1>3, <1>4

\* A request that ends without its DEL is remembered in lost.
LEMMA LossExplains ==
    ASSUME Inv, NEW w \in Write,
           pc' = [pc EXCEPT ![w] = "done"],
           lost' = lost \cup {org[w]},
           UNCHANGED <<rules, ovr, cached, entry, org, load>>
    PROVE  StaleIsExplained' /\ LoadIsExplained'
<1> USE ConstantsAssumption DEF Inv, TypeOK, Op
<1>1. \A o \in Org : Pending(o) => Pending(o)' \/ o \in lost'
  BY DEF Pending
<1>2. \A e \in Eval : pc'[e] = pc[e] /\ org[e] \in Org
  OBVIOUS
<1>3. StaleIsExplained'
  BY <1>1 DEF StaleIsExplained, Stale
<1>4. LoadIsExplained'
  BY <1>1, <1>2 DEF LoadIsExplained, LoadStale, Loading
<1>5. QED
  BY <1>3, <1>4

-----------------------------------------------------------------------------
\* Writers and subscribers keep the explanations.
LEMMA WritesExplain ==
    ASSUME Inv, NEW w \in Write, WriteAct(w)
    PROVE  StaleIsExplained' /\ LoadIsExplained'
<1> USE ConstantsAssumption
<1> USE DEF database, redis, bounds, Goto
<1>0. /\ w \in Op /\ w \notin Eval /\ pc \in [Op -> {"idle", "get", "rules", "template",
             "override", "set", "emit", "publish", "done"}] /\ org[w] \in Org
  BY DEF Op, Inv, TypeOK
<1>1. CASE SaveRules(w)
  BY <1>1, SaveExplains DEF SaveRules, Inv, TypeOK
<1>2. CASE SaveOverride(w)
  BY <1>2, SaveExplains DEF SaveOverride, Inv, TypeOK
<1>3. CASE SaveTemplate(w)
  BY <1>0, <1>3, Quiet DEF SaveTemplate, Loading, Op
<1>4. CASE RemoveTemplate(w)
  BY <1>0, <1>4, Quiet DEF RemoveTemplate, Loading, Op
<1>5. CASE Invalidate(w)
  BY <1>0, <1>5, DelExplains DEF Invalidate, Op
<1>6. CASE InvalidateSkipped(w)
  BY <1>6, LossExplains DEF InvalidateSkipped
<1>7. CASE InvalidateFails(w)
  BY <1>7, LossExplains DEF InvalidateFails
<1>8. CASE Publish(w)
  BY <1>0, <1>8, Quiet DEF Publish, Loading, Op
<1>9. CASE PublishFails(w)
  BY <1>0, <1>9, Quiet DEF PublishFails, Loading, Op
<1>10. QED
  BY <1>1, <1>2, <1>3, <1>4, <1>5, <1>6, <1>7, <1>8, <1>9
  DEF WriteAct, WriteStep

\* Evaluations keep them: what is read is current when it is read, and SET
\* carries the explanation of the rule set to the entry.
LEMMA EvaluationsExplain ==
    ASSUME Inv, NEW e \in Eval, EvalStep(e)
    PROVE  StaleIsExplained' /\ LoadIsExplained'
<1> USE ConstantsAssumption
<1> USE DEF database, redis, bounds, Goto, Finish
<1>0. /\ e \in Op /\ e \notin Write /\ pc \in [Op -> {"idle", "get", "rules", "template",
             "override", "set", "emit", "publish", "done"}]
      /\ org[e] \in Org /\ load \in [Eval -> Config]
      /\ rules \in [Org -> Nat] /\ ovr \in [Org -> Nat]
      /\ entry \in [Org -> Config] /\ cached \subseteq Org
  BY DEF Op, Inv, TypeOK
<1>1. CASE Hit(e)
  BY <1>0, <1>1, Quiet DEF Hit, Loading, Op
<1>2. CASE Miss(e)
  BY <1>0, <1>2, Quiet DEF Miss, Loading, Op
<1>3. CASE GetFails(e)
  BY <1>0, <1>3, Quiet DEF GetFails, Loading, Op
<1>6. CASE ReadTemplateGone(e)
  BY <1>0, <1>6, Quiet DEF ReadTemplateGone, Loading, Op
<1>8. CASE ReadFails(e)
  BY <1>0, <1>8, Quiet DEF ReadFails, Loading, Op
<1>10. CASE SetSkipped(e)
  BY <1>0, <1>10, Quiet DEF SetSkipped, Loading, Op
<1>4. CASE ReadRules(e)
  <2>1. load'[e].rules = rules[org[e]] /\ load'[e].ovr = 0
        /\ (pc'[e] = "set" => ~load'[e].linked)
    BY <1>0, <1>4 DEF ReadRules, NoConfig, Config
  <2>2. ~LoadStale(e)'
    BY <1>0, <1>4, <2>1 DEF ReadRules, LoadStale
  <2>3. \A d \in Eval \ {e} : load'[d] = load[d] /\ pc'[d] = pc[d]
    BY <1>0, <1>4 DEF ReadRules, Op
  <2>4. \A o : Pending(o) => Pending(o)'
    BY <1>0, <1>4 DEF ReadRules, Pending, Op
  <2>5. StaleIsExplained'
    BY <1>4, <2>4 DEF ReadRules, Inv, StaleIsExplained, Stale
  <2>6. LoadIsExplained'
    BY <1>4, <2>2, <2>3, <2>4 DEF ReadRules, Inv, LoadIsExplained, LoadStale, Loading
  <2>7. QED
    BY <2>5, <2>6
<1>5. CASE ReadTemplate(e)
  <2>1. /\ load'[e].rules = load[e].rules
        /\ load'[e].raced = load[e].raced
        /\ pc[e] = "template" /\ pc'[e] = "override"
    BY <1>0, <1>5 DEF ReadTemplate, Config
  <2>2. LoadStale(e)' => LoadStale(e) /\ Loading(e)
    BY <1>5, <2>1 DEF ReadTemplate, LoadStale, Loading
  <2>3. \A d \in Eval \ {e} : load'[d] = load[d] /\ pc'[d] = pc[d]
    BY <1>0, <1>5 DEF ReadTemplate, Op
  <2>4. \A o : Pending(o) => Pending(o)'
    BY <1>0, <1>5 DEF ReadTemplate, Pending, Op
  <2>5. StaleIsExplained'
    BY <1>5, <2>4 DEF ReadTemplate, Inv, StaleIsExplained, Stale
  <2>6. LoadIsExplained'
    BY <1>5, <2>1, <2>2, <2>3, <2>4
    DEF ReadTemplate, Inv, LoadIsExplained, LoadStale, Loading
  <2>7. QED
    BY <2>5, <2>6
<1>7. CASE ReadOverride(e)
  <2>1. /\ load'[e].rules = load[e].rules
        /\ load'[e].raced = load[e].raced
        /\ load'[e].ovr = ovr[org[e]]
        /\ pc[e] = "override" /\ pc'[e] = "set"
    BY <1>0, <1>7 DEF ReadOverride, Config
  <2>2. LoadStale(e)' => LoadStale(e) /\ Loading(e)
    BY <1>0, <1>7, <2>1 DEF ReadOverride, LoadStale, Loading
  <2>3. \A d \in Eval \ {e} : load'[d] = load[d] /\ pc'[d] = pc[d]
    BY <1>0, <1>7 DEF ReadOverride, Op
  <2>4. \A o : Pending(o) => Pending(o)'
    BY <1>0, <1>7 DEF ReadOverride, Pending, Op
  <2>5. StaleIsExplained'
    BY <1>7, <2>4 DEF ReadOverride, Inv, StaleIsExplained, Stale
  <2>6. LoadIsExplained'
    BY <1>7, <2>1, <2>2, <2>3, <2>4
    DEF ReadOverride, Inv, LoadIsExplained, LoadStale, Loading
  <2>7. QED
    BY <2>5, <2>6
<1>9. CASE Set(e)
  <2>1. \A o : Pending(o) => Pending(o)'
    BY <1>0, <1>9 DEF Set, Pending, Op
  <2>2. \A d \in Eval \ {e} : load'[d] = load[d] /\ pc'[d] = pc[d]
    BY <1>0, <1>9 DEF Set, Op
  <2>3. ~Loading(e)'
    BY <1>0, <1>9 DEF Set, Loading
  <2>4. LoadIsExplained'
    BY <1>9, <2>1, <2>2, <2>3 DEF Set, Inv, LoadIsExplained, LoadStale, Loading
  <2>5. ASSUME NEW o \in cached', Stale(entry[o], o)'
        PROVE  entry'[o].raced \/ Pending(o)' \/ o \in lost'
    <3>1. CASE o = org[e]
      <4>1. entry'[o] = load[e] /\ pc[e] = "set"
        BY <1>0, <1>9, <3>1 DEF Set
      <4>2. Loading(e) /\ LoadStale(e)
        BY <1>9, <2>5, <3>1, <4>1 DEF Set, Stale, LoadStale, Loading
      <4>3. load[e].raced \/ Pending(o) \/ o \in lost
        BY <3>1, <4>2 DEF Inv, LoadIsExplained
      <4>4. QED
        BY <1>9, <2>1, <4>1, <4>3 DEF Set
    <3>2. CASE o # org[e]
      <4>1. o \in cached /\ entry'[o] = entry[o]
        BY <1>0, <1>9, <2>5, <3>2 DEF Set
      <4>2. Stale(entry[o], o)
        BY <1>9, <2>5, <4>1 DEF Set, Stale
      <4>3. QED
        BY <1>9, <2>1, <4>1, <4>2 DEF Set, Inv, StaleIsExplained
    <3>3. QED
      BY <3>1, <3>2
  <2>6. QED
    BY <2>4, <2>5 DEF StaleIsExplained
<1>11. QED
  BY <1>1, <1>2, <1>3, <1>4, <1>5, <1>6, <1>7, <1>8, <1>9, <1>10 DEF EvalStep

\* A crash turns the pending requests of its instance into lost ones.
LEMMA CrashExplains ==
    ASSUME Inv, NEW i \in Instance, Crash(i)
    PROVE  StaleIsExplained' /\ LoadIsExplained'
<1> USE ConstantsAssumption DEF database, redis, Crash
<1>1. /\ \A x \in Op : At[x] # i => pc'[x] = pc[x]
      /\ \A e \in Eval : At[e] = i => pc'[e] = "idle"
      /\ \A e \in Eval : At[e] # i => load'[e] = load[e]
  BY DEF Op
<1>2. \A o : Pending(o) => Pending(o)' \/ o \in lost'
  BY <1>1 DEF Pending, Op
<1>3. StaleIsExplained'
  BY <1>2 DEF Inv, StaleIsExplained, Stale
<1>4. LoadIsExplained'
  BY <1>1, <1>2 DEF Inv, LoadIsExplained, LoadStale, Loading, Op
<1>5. QED
  BY <1>3, <1>4

-----------------------------------------------------------------------------
\* The inductive invariant holds initially and in every step.
LEMMA Invariant == Spec => []Inv
<1>1. Init => Inv
  <2>1. Init => TypeOK
    BY TypeCorrectInit
  <2>2. QED
    BY <2>1, ConstantsAssumption
    DEF Init, Inv, StaleIsExplained, LoadIsExplained, Loading, Op
<1>2. Inv /\ TypeOK' /\ [Next]_vars => Inv'
  <2> SUFFICES ASSUME Inv, TypeOK', [Next]_vars
               PROVE  StaleIsExplained' /\ LoadIsExplained'
    BY DEF Inv
  <2>1. ASSUME NEW w \in Write, WriteAct(w) PROVE StaleIsExplained' /\ LoadIsExplained'
    BY <2>1, WritesExplain
  <2>2. ASSUME NEW m \in Write \X Instance, HandleMessage(m)
        PROVE  StaleIsExplained' /\ LoadIsExplained'
    <3>1. org[m[1]] \in Org
      BY DEF Inv, TypeOK, Op
    <3>2. QED
      BY <2>2, <3>1, DelExplains DEF HandleMessage, database, bounds
  <2>3. ASSUME NEW m \in Write \X Instance, LoseMessage(m)
        PROVE  StaleIsExplained' /\ LoadIsExplained'
    BY <2>3, Quiet DEF LoseMessage, database, redis
  <2>4. ASSUME NEW e \in Eval, Start(e) PROVE StaleIsExplained' /\ LoadIsExplained'
    <3>1. /\ \A x \in Op \ {e} : pc'[x] = pc[x] /\ org'[x] = org[x]
          /\ pc'[e] = "get" /\ \A w \in Write : w \in Op \ {e}
      BY <2>4, ConstantsAssumption DEF Start, Goto, Inv, TypeOK, Op
    <3>2. QED
      BY <2>4, <3>1, Quiet DEF Start, database, redis, Loading, Op
  <2>5. ASSUME NEW e \in Eval, EvalStep(e) PROVE StaleIsExplained' /\ LoadIsExplained'
    BY <2>5, EvaluationsExplain
  <2>6. ASSUME NEW o \in Org, Expire(o) PROVE StaleIsExplained' /\ LoadIsExplained'
    BY <2>6, Quiet DEF Expire, database, Inv, TypeOK
  <2>7. ASSUME NEW i \in Instance, Crash(i) PROVE StaleIsExplained' /\ LoadIsExplained'
    BY <2>7, CrashExplains
  <2>8. CASE UNCHANGED vars
    BY <2>8, Quiet DEF vars, database, redis
  <2>9. QED
    BY <2>1, <2>2, <2>3, <2>4, <2>5, <2>6, <2>7, <2>8 DEF Next, WriteAct
<1>3. QED
  BY <1>1, <1>2, TypeCorrect, PTL DEF Spec

\* RuleCacheService: in every reachable state a stale rule set in Redis is due
\* to a DEL still to come, a DEL that was lost, or a SETEX of reads older than
\* a DEL, for any number of organizations, instances, requests and failures.
THEOREM StaleExplained == Spec => []StaleIsExplained
<1>1. Inv => StaleIsExplained
  BY DEF Inv
<1>2. QED
  BY <1>1, Invariant, PTL

\* EngineService.getCachedRules: in every reachable state a load in memory that
\* is behind the tables was overtaken by a DEL, or a DEL of its organization is
\* to come or was lost.
THEOREM LoadExplained == Spec => []LoadIsExplained
<1>1. Inv => LoadIsExplained
  BY DEF Inv
<1>2. QED
  BY <1>1, Invariant, PTL

-----------------------------------------------------------------------------
(* Configs of any depth *)

\* Induction up to N, for a set. The sets 0..n are well-founded under inclusion.
LEMMA Induction ==
    ASSUME NEW N \in Nat, NEW S \in SUBSET (0..N),
           0 \in S, \A n \in 1..N : n - 1 \in S => n \in S
    PROVE  S = 0..N
<1> DEFINE U == {0..n : n \in (0..N) \ S}
<1> SUFFICES ASSUME (0..N) \ S # {} PROVE FALSE
  OBVIOUS
<1>1. IsWellFoundedOn(StrictSubsetOrdering(Nat), FiniteSubsetsOf(Nat))
  BY FS_StrictSubsetOrderingWellFounded
<1>2. U \subseteq FiniteSubsetsOf(Nat)
  <2>1. \A n \in (0..N) \ S : IsFiniteSet(0..n) /\ 0..n \in SUBSET Nat
    BY FS_Interval
  <2> QED
    BY <2>1 DEF FiniteSubsetsOf
<1>3. PICK x \in U : \A y \in U : <<y, x>> \notin StrictSubsetOrdering(Nat)
  <2>1. U # {}
    OBVIOUS
  <2> HIDE DEF U
  <2> QED
    BY <1>1, <1>2, <2>1, WFMin
<1>4. PICK m \in (0..N) \ S : x = 0..m
  BY <1>3
<1>5. m \in 1..N /\ m - 1 \in (0..N) \ S
  OBVIOUS
<1>6. 0..(m - 1) \in U
  BY <1>5
<1>7. <<0..(m - 1), 0..m>> \in StrictSubsetOrdering(Nat)
  <2>1. 0..(m - 1) \subseteq 0..m /\ m \in 0..m /\ m \notin 0..(m - 1)
    BY <1>5
  <2>2. 0..(m - 1) \in SUBSET Nat /\ 0..m \in SUBSET Nat
    OBVIOUS
  <2> QED
    BY <2>1, <2>2 DEF StrictSubsetOrdering
<1> QED
  BY <1>3, <1>4, <1>6, <1>7

\* One level of objects on top of those of f.
Level(f, n) ==
    IF n = 0 THEN {} ELSE UNION {[D -> Leaf \cup f[n - 1]] : D \in SUBSET Names[n]}

\* Nested is the function its definition describes.
LEMMA NestedIs == Nested = [n \in 0..Depth |-> Level(Nested, n)]
<1> DEFINE S == {n \in 0..Depth : \E f : f = [m \in 0..n |-> Level(f, m)]}
<1>1. Depth \in Nat
  BY ConfigAssumption
<1>2. 0 \in S
  <2> DEFINE f == [m \in 0..0 |-> {}]
  <2>1. f = [m \in 0..0 |-> Level(f, m)]
    BY DEF Level
  <2> QED
    BY <2>1, <1>1
<1>3. ASSUME NEW n \in 1..Depth, n - 1 \in S PROVE n \in S
  <2>1. PICK f : f = [m \in 0..(n - 1) |-> Level(f, m)]
    BY <1>3
  <2> DEFINE g == [m \in 0..n |-> IF m = n THEN Level(f, n) ELSE f[m]]
  <2>2. ASSUME NEW m \in 0..n PROVE g[m] = Level(g, m)
    <3>1. m # 0 => m - 1 \in 0..n /\ m - 1 # n
      BY <1>1
    <3>2. Level(g, m) = Level(f, m)
      BY <3>1 DEF Level
    <3>3. m # n => m \in 0..(n - 1)
      BY <1>1
    <3> QED
      BY <2>1, <3>2, <3>3
  <2>3. g = [m \in 0..n |-> Level(g, m)]
    BY <2>2
  <2>4. n \in 0..Depth
    BY <1>1
  <2> HIDE DEF g
  <2> QED
    BY <2>3, <2>4
<1>4. S = 0..Depth
  <2>1. S \in SUBSET (0..Depth)
    OBVIOUS
  <2> HIDE DEF S
  <2> QED
    BY <1>1, <1>2, <1>3, <2>1, Induction
<1>5. \E f : f = [n \in 0..Depth |-> Level(f, n)]
  BY <1>1, <1>4
<1> QED
  BY <1>5 DEF Nested, Level

\* What an object of up to n levels is made of.
LEMMA Objects ==
    ASSUME NEW n \in 1..Depth
    PROVE  /\ n - 1 \in 0..Depth
           /\ \A c \in Nested[n] :
                  /\ c = [k \in DOMAIN c |-> c[k]]
                  /\ DOMAIN c \subseteq Names[n]
                  /\ \A k \in DOMAIN c : c[k] \in Leaf \cup Nested[n - 1]
           /\ \A D \in SUBSET Names[n] : [D -> Leaf \cup Nested[n - 1]] \subseteq Nested[n]
<1>1. Depth \in Nat
  BY ConfigAssumption
<1>2. Nested[n] = UNION {[D -> Leaf \cup Nested[n - 1]] : D \in SUBSET Names[n]}
  <2>1. n \in 0..Depth /\ n # 0
    BY <1>1
  <2>2. Nested[n] = Level(Nested, n)
    BY <2>1, NestedIs
  <2> QED
    BY <2>1, <2>2 DEF Level
<1> QED
  BY <1>1, <1>2

\* An object of fewer levels is one of n, and none is a leaf.
LEMMA Nests ==
    /\ Nested[0] = {}
    /\ \A n \in 1..Depth : Nested[n - 1] \subseteq Nested[n]
    /\ \A n \in 0..Depth : Nested[n] \subseteq Object
<1>1. Depth \in Nat
  BY ConfigAssumption
<1>2. Nested[0] = {}
  BY <1>1, NestedIs DEF Level
<1>3. \A n \in 1..Depth : Nested[n - 1] \subseteq Nested[n]
  <2> DEFINE S == {n \in 0..Depth : n # 0 => Nested[n - 1] \subseteq Nested[n]}
  <2>1. 0 \in S
    BY <1>1
  <2>2. ASSUME NEW n \in 1..Depth, n - 1 \in S PROVE n \in S
    <3>1. CASE n = 1
      BY <1>1, <1>2, <3>1
    <3>2. CASE n # 1
      <4>1. n - 1 \in 1..Depth /\ n \in 2..Depth
        BY <1>1, <3>2
      <4>2. Nested[(n - 1) - 1] \subseteq Nested[n - 1]
        BY <2>2, <4>1
      <4>3. Names[n - 1] \subseteq Names[n]
        BY <4>1, ConfigAssumption
      <4>4. ASSUME NEW c \in Nested[n - 1] PROVE c \in Nested[n]
        <5>1. /\ c = [k \in DOMAIN c |-> c[k]]
              /\ DOMAIN c \subseteq Names[n - 1]
              /\ \A k \in DOMAIN c : c[k] \in Leaf \cup Nested[(n - 1) - 1]
          BY <4>1, Objects
        <5>2. DOMAIN c \in SUBSET Names[n] /\ c \in [DOMAIN c -> Leaf \cup Nested[n - 1]]
          BY <4>2, <4>3, <5>1
        <5> QED
          BY <5>2, Objects
      <4> QED
        BY <4>4
    <3> QED
      BY <3>1, <3>2
  <2>3. S = 0..Depth
    <3>1. S \in SUBSET (0..Depth)
      OBVIOUS
    <3> HIDE DEF S
    <3> QED
      BY <1>1, <2>1, <2>2, <3>1, Induction
  <2> QED
    BY <1>1, <2>3
<1>4. \A n \in 0..Depth : Nested[n] \subseteq Object
  <2> DEFINE S == {n \in 0..Depth : Nested[Depth - n] \subseteq Object}
  <2>1. 0 \in S
    BY <1>1 DEF Object
  <2>2. ASSUME NEW n \in 1..Depth, n - 1 \in S PROVE n \in S
    <3>1. Depth - (n - 1) \in 1..Depth /\ (Depth - (n - 1)) - 1 = Depth - n
      BY <1>1
    <3>2. Nested[(Depth - (n - 1)) - 1] \subseteq Nested[Depth - (n - 1)]
      BY <1>3, <3>1
    <3> QED
      BY <2>2, <3>1, <3>2
  <2>3. S = 0..Depth
    <3>1. S \in SUBSET (0..Depth)
      OBVIOUS
    <3> HIDE DEF S
    <3> QED
      BY <1>1, <2>1, <2>2, <3>1, Induction
  <2>4. ASSUME NEW n \in 0..Depth PROVE Nested[n] \subseteq Object
    <3>1. Depth - n \in 0..Depth /\ Depth - (Depth - n) = n
      BY <1>1
    <3> QED
      BY <2>3, <3>1
  <2> QED
    BY <2>4
<1> QED
  BY <1>2, <1>3, <1>4

\* One step of deepMerge, with g for the nested objects.
MergeBy(g, p) ==
    [k \in DOMAIN p[1] \cup DOMAIN p[2] |->
        IF k \notin DOMAIN p[2] THEN p[1][k]
        ELSE IF k \in DOMAIN p[1] /\ IsObject(p[1][k]) /\ IsObject(p[2][k])
             THEN g[<<p[1][k], p[2][k]>>]
             ELSE p[2][k]]

\* The pairs that deepMerge descends into have fewer levels.
LEMMA Descends ==
    ASSUME NEW n \in 1..Depth, NEW p \in Nested[n] \X Nested[n],
           NEW k \in DOMAIN p[1] \cap DOMAIN p[2], IsObject(p[1][k]), IsObject(p[2][k])
    PROVE  <<p[1][k], p[2][k]>> \in Nested[n - 1] \X Nested[n - 1]
<1>1. p[1] \in Nested[n] /\ p[2] \in Nested[n]
  OBVIOUS
<1> QED
  BY <1>1, Objects DEF IsObject

\* merged is the function its definition describes.
LEMMA MergedIs == merged = [p \in Object \X Object |-> MergeBy(merged, p)]
<1> DEFINE S == {n \in 0..Depth :
                     \E g : g = [p \in Nested[n] \X Nested[n] |-> MergeBy(g, p)]}
<1>1. Depth \in Nat
  BY ConfigAssumption
<1>2. 0 \in S
  <2> DEFINE g == [p \in Nested[0] \X Nested[0] |-> 0]
  <2>1. Nested[0] \X Nested[0] = {}
    BY Nests
  <2>2. g = [p \in Nested[0] \X Nested[0] |-> MergeBy(g, p)]
    BY <2>1
  <2> HIDE DEF g
  <2> QED
    BY <2>2, <1>1
<1>3. ASSUME NEW n \in 1..Depth, n - 1 \in S PROVE n \in S
  <2>1. PICK f : f = [p \in Nested[n - 1] \X Nested[n - 1] |-> MergeBy(f, p)]
    BY <1>3
  <2> DEFINE g == [p \in Nested[n] \X Nested[n] |-> MergeBy(f, p)]
  <2>2. \A q \in Nested[n - 1] \X Nested[n - 1] : g[q] = f[q]
    <3>1. \A q \in Nested[n - 1] \X Nested[n - 1] : q \in Nested[n] \X Nested[n]
      BY Nests
    <3> QED
      BY <2>1, <3>1
  <2>3. ASSUME NEW p \in Nested[n] \X Nested[n] PROVE MergeBy(f, p) = MergeBy(g, p)
    <3> HIDE DEF g
    <3>1. \A k \in DOMAIN p[1] \cap DOMAIN p[2] : IsObject(p[1][k]) /\ IsObject(p[2][k])
              => g[<<p[1][k], p[2][k]>>] = f[<<p[1][k], p[2][k]>>]
      BY <2>2, Descends
    <3> QED
      BY <3>1 DEF MergeBy
  <2>4. g = [p \in Nested[n] \X Nested[n] |-> MergeBy(g, p)]
    BY <2>3, Zenon
  <2>5. n \in 0..Depth
    BY <1>1
  <2> HIDE DEF g
  <2> QED
    BY <2>4, <2>5
<1>4. S = 0..Depth
  <2>1. S \in SUBSET (0..Depth)
    OBVIOUS
  <2> HIDE DEF S
  <2> QED
    BY <1>1, <1>2, <1>3, <2>1, Induction
<1>5. \E g : g = [p \in Object \X Object |-> MergeBy(g, p)]
  <2>1. Depth \in S
    <3> HIDE DEF S
    <3> QED
      BY <1>1, <1>4
  <2>2. PICK g : g = [p \in Nested[Depth] \X Nested[Depth] |-> MergeBy(g, p)]
    BY <2>1
  <2> QED
    BY <2>2, Zenon DEF Object
<1> QED
  BY <1>5 DEF merged, MergeBy

\* Two objects of up to n levels are merged into one of up to n levels.
LEMMA MergedNests ==
    \A n \in 0..Depth : \A p \in Nested[n] \X Nested[n] : merged[p] \in Nested[n]
<1> DEFINE S == {n \in 0..Depth : \A p \in Nested[n] \X Nested[n] : merged[p] \in Nested[n]}
<1>1. Depth \in Nat
  BY ConfigAssumption
<1>2. 0 \in S
  BY <1>1, Nests
<1>3. ASSUME NEW n \in 1..Depth, n - 1 \in S PROVE n \in S
  <2>1. n \in 0..Depth
    BY <1>1
  <2>2. ASSUME NEW p \in Nested[n] \X Nested[n] PROVE merged[p] \in Nested[n]
    <3> DEFINE D == DOMAIN p[1] \cup DOMAIN p[2]
    <3>1. merged[p] = MergeBy(merged, p)
      BY <2>1, MergedIs, Nests
    <3>2. p[1] \in Nested[n] /\ p[2] \in Nested[n]
      OBVIOUS
    <3>3. D \in SUBSET Names[n]
      BY <3>2, Objects
    <3>4. /\ \A k \in DOMAIN p[1] : p[1][k] \in Leaf \cup Nested[n - 1]
          /\ \A k \in DOMAIN p[2] : p[2][k] \in Leaf \cup Nested[n - 1]
      BY <3>2, Objects
    <3>5. \A k \in DOMAIN p[1] \cap DOMAIN p[2] : IsObject(p[1][k]) /\ IsObject(p[2][k])
              => merged[<<p[1][k], p[2][k]>>] \in Nested[n - 1]
      BY <1>3, Descends
    <3>6. MergeBy(merged, p) \in [D -> Leaf \cup Nested[n - 1]]
      BY <3>4, <3>5 DEF MergeBy
    <3> QED
      BY <3>1, <3>3, <3>6, Objects
  <2> QED
    BY <2>1, <2>2
<1>4. S = 0..Depth
  <2>1. S \in SUBSET (0..Depth)
    OBVIOUS
  <2> HIDE DEF S
  <2> QED
    BY <1>1, <1>2, <1>3, <2>1, Induction
<1> QED
  BY <1>4

\* deepMerge of two objects, property by property.
LEMMA Merges ==
    ASSUME NEW t \in Object, NEW s \in Object
    PROVE  /\ deepMerge(t, s) \in Object
           /\ DOMAIN deepMerge(t, s) = DOMAIN t \cup DOMAIN s
           /\ \A k \in DOMAIN t \ DOMAIN s : deepMerge(t, s)[k] = t[k]
           /\ \A k \in DOMAIN s :
                  deepMerge(t, s)[k] =
                      IF k \in DOMAIN t /\ IsObject(t[k]) /\ IsObject(s[k])
                      THEN deepMerge(t[k], s[k]) ELSE s[k]
           /\ \A k \in DOMAIN t : t[k] \in Leaf \cup Object
<1>1. Depth \in 1..Depth /\ Depth \in 0..Depth /\ Depth - 1 \in 0..Depth
  BY ConfigAssumption
<1>2. merged[<<t, s>>] = MergeBy(merged, <<t, s>>)
  BY MergedIs
<1>3. merged[<<t, s>>] \in Object
  BY <1>1, MergedNests DEF Object
<1>4. \A k \in DOMAIN t : t[k] \in Leaf \cup Object
  BY <1>1, Objects, Nests DEF Object
<1> QED
  BY <1>2, <1>3, <1>4 DEF MergeBy, deepMerge

-----------------------------------------------------------------------------
(* Paths *)

\* One step of a walk from c along p, with f for the way so far.
Stride(c, p, f, i) ==
    IF i = 0 THEN IF c = None THEN <<"open", None>> ELSE <<"value", c>>
    ELSE IF f[i - 1][1] # "value" THEN f[i - 1]
    ELSE IF ~IsObject(f[i - 1][2]) THEN <<"cut", None>>
    ELSE IF p[i] \in DOMAIN f[i - 1][2] THEN <<"value", f[i - 1][2][p[i]]>>
    ELSE <<"open", None>>

\* Walk takes these steps.
LEMMA Strides ==
    ASSUME NEW c, NEW p, Len(p) \in Nat
    PROVE  \E f : /\ f = [i \in 0..Len(p) |-> Stride(c, p, f, i)]
                  /\ Walk(c, p) = f[Len(p)]
<1> DEFINE S == {n \in 0..Len(p) : \E f : f = [i \in 0..n |-> Stride(c, p, f, i)]}
<1>1. 0 \in S
  <2> DEFINE f == [i \in 0..0 |-> Stride(c, p, <<>>, 0)]
  <2>1. f = [i \in 0..0 |-> Stride(c, p, f, i)]
    BY DEF Stride
  <2> HIDE DEF f
  <2> QED
    BY <2>1
<1>2. ASSUME NEW n \in 1..Len(p), n - 1 \in S PROVE n \in S
  <2>1. PICK f : f = [i \in 0..(n - 1) |-> Stride(c, p, f, i)]
    BY <1>2
  <2> DEFINE g == [i \in 0..n |-> IF i = n THEN Stride(c, p, f, n) ELSE f[i]]
  <2>2. ASSUME NEW i \in 0..n PROVE g[i] = Stride(c, p, g, i)
    <3>1. i # 0 => g[i - 1] = f[i - 1]
      OBVIOUS
    <3>2. Stride(c, p, g, i) = Stride(c, p, f, i)
      <4> HIDE DEF g
      <4> QED
        BY <3>1 DEF Stride
    <3>3. i # n => i \in 0..(n - 1)
      OBVIOUS
    <3> QED
      BY <2>1, <3>2, <3>3
  <2>3. g = [i \in 0..n |-> Stride(c, p, g, i)]
    BY <2>2
  <2>4. n \in 0..Len(p)
    OBVIOUS
  <2> HIDE DEF g
  <2> QED
    BY <2>3, <2>4
<1>3. S = 0..Len(p)
  <2>1. S \in SUBSET (0..Len(p))
    OBVIOUS
  <2> HIDE DEF S
  <2> QED
    BY <1>1, <1>2, <2>1, Induction
<1>4. \E f : f = [i \in 0..Len(p) |-> Stride(c, p, f, i)]
  <2>1. Len(p) \in S
    <3> HIDE DEF S
    <3> QED
      BY <1>3
  <2> QED
    BY <2>1
<1> DEFINE at == CHOOSE f : f = [i \in 0..Len(p) |-> Stride(c, p, f, i)]
<1>5. at = [i \in 0..Len(p) |-> Stride(c, p, at, i)]
  BY <1>4, Zenon
<1>6. Walk(c, p) = at[Len(p)]
  BY DEF Walk, Stride
<1> HIDE DEF at
<1> QED
  BY <1>5, <1>6

\* Where the walks through a target, a source and what deepMerge makes of them are
\* at the same step of the same path.
Parallel(wt, ws, wm) ==
    \/ /\ ws[1] = "value" /\ IsObject(ws[2])
       /\ IF wt[1] = "value" /\ IsObject(wt[2])
          THEN /\ wt[2] \in Object /\ ws[2] \in Object
               /\ wm = <<"value", deepMerge(wt[2], ws[2])>>
          ELSE wm = ws
    \/ ws[1] = "value" /\ ~IsObject(ws[2]) /\ wm = ws
    \/ ws[1] = "cut" /\ wm = ws
    \/ ws[1] = "open" /\ (wm = wt \/ (wm[1] # "value" /\ wt[1] # "value"))

\* deepMerge keeps, at every path, what its source says of it, and what its target
\* says of it where the source says nothing.
LEMMA MergeDecides ==
    ASSUME NEW t \in Object, NEW s \in Object, NEW p, Len(p) \in Nat
    PROVE  ValueAt(deepMerge(t, s), p) = IF Speaks(s, p) THEN ValueAt(s, p) ELSE ValueAt(t, p)
<1> DEFINE m == deepMerge(t, s)
<1>1. m \in Object /\ \A c \in Object : c # None /\ IsObject(c)
  BY Merges, ConfigAssumption DEF IsObject
<1>2. PICK wt : wt = [i \in 0..Len(p) |-> Stride(t, p, wt, i)] /\ Walk(t, p) = wt[Len(p)]
  BY Strides
<1>3. PICK ws : ws = [i \in 0..Len(p) |-> Stride(s, p, ws, i)] /\ Walk(s, p) = ws[Len(p)]
  BY Strides
<1>4. PICK wm : wm = [i \in 0..Len(p) |-> Stride(m, p, wm, i)] /\ Walk(m, p) = wm[Len(p)]
  BY Strides
<1> DEFINE S == {i \in 0..Len(p) : Parallel(wt[i], ws[i], wm[i])}
<1>5. 0 \in S
  <2>1. wt[0] = <<"value", t>> /\ ws[0] = <<"value", s>> /\ wm[0] = <<"value", m>>
    BY <1>1, <1>2, <1>3, <1>4 DEF Stride
  <2> QED
    BY <2>1, <1>1 DEF Parallel
<1>6. ASSUME NEW i \in 1..Len(p), i - 1 \in S PROVE i \in S
  <2> DEFINE a == wt[i - 1]
             b == ws[i - 1]
             c == wm[i - 1]
  <2>0. i \in 0..Len(p) /\ i # 0
    OBVIOUS
  <2> SUFFICES Parallel(wt[i], ws[i], wm[i])
    BY <2>0
  <2>1. wt[i] = Stride(t, p, wt, i) /\ ws[i] = Stride(s, p, ws, i) /\ wm[i] = Stride(m, p, wm, i)
    <3> HIDE DEF S, m
    <3> QED
      BY <2>0, <1>2, <1>3, <1>4
  <2>2. Parallel(a, b, c)
    BY <1>6
  <2> HIDE DEF S, m
  <2>3. CASE b[1] = "value" /\ IsObject(b[2])
    <3>1. CASE a[1] = "value" /\ IsObject(a[2])
      <4>1. a[2] \in Object /\ b[2] \in Object /\ c = <<"value", deepMerge(a[2], b[2])>>
        BY <2>2, <2>3, <3>1 DEF Parallel
      <4>2. deepMerge(a[2], b[2]) \in Object
        BY <4>1, Merges
      <4>3. c[1] = "value" /\ IsObject(c[2]) /\ c[2] = deepMerge(a[2], b[2])
        BY <4>1, <4>2, <1>1
      <4> DEFINE d == deepMerge(a[2], b[2])
      <4>4. /\ DOMAIN d = DOMAIN a[2] \cup DOMAIN b[2]
            /\ p[i] \in DOMAIN a[2] \ DOMAIN b[2] => d[p[i]] = a[2][p[i]]
            /\ p[i] \in DOMAIN b[2] =>
                   d[p[i]] = IF p[i] \in DOMAIN a[2] /\ IsObject(a[2][p[i]]) /\ IsObject(b[2][p[i]])
                             THEN deepMerge(a[2][p[i]], b[2][p[i]]) ELSE b[2][p[i]]
        <5> DEFINE v == a[2]
                   w == b[2]
        <5>1. v \in Object /\ w \in Object
          BY <4>1
        <5> HIDE DEF v, w
        <5>2. /\ DOMAIN deepMerge(v, w) = DOMAIN v \cup DOMAIN w
              /\ \A k \in DOMAIN v \ DOMAIN w : deepMerge(v, w)[k] = v[k]
              /\ \A k \in DOMAIN w :
                     deepMerge(v, w)[k] =
                         IF k \in DOMAIN v /\ IsObject(v[k]) /\ IsObject(w[k])
                         THEN deepMerge(v[k], w[k]) ELSE w[k]
          BY <5>1, Merges
        <5> QED
          BY <5>2 DEF v, w
      <4> HIDE DEF a, b, c, d
      <4>5. CASE p[i] \notin DOMAIN b[2]
        <5>1. ws[i] = <<"open", None>>
          BY <2>1, <2>0, <2>3, <4>5 DEF Stride, b
        <5>2. wm[i] = wt[i]
          BY <2>1, <2>0, <3>1, <4>3, <4>5, <4>4 DEF Stride, a, b, c, d
        <5> QED
          BY <5>1, <5>2 DEF Parallel
      <4>6. CASE p[i] \in DOMAIN b[2]
        <5>1. ws[i] = <<"value", b[2][p[i]]>> /\ wm[i] = <<"value", c[2][p[i]]>>
          BY <2>1, <2>0, <2>3, <4>3, <4>6, <4>4 DEF Stride, a, b, c, d
        <5>2. CASE p[i] \in DOMAIN a[2] /\ IsObject(a[2][p[i]]) /\ IsObject(b[2][p[i]])
          <6>1. wt[i] = <<"value", a[2][p[i]]>>
            BY <2>1, <2>0, <3>1, <5>2 DEF Stride, a
          <6>2. a[2][p[i]] \in Object /\ b[2][p[i]] \in Object
            BY <4>1, <4>6, <5>2, Merges DEF IsObject
          <6>3. wm[i] = <<"value", deepMerge(a[2][p[i]], b[2][p[i]])>>
            BY <4>3, <4>6, <4>4, <5>1, <5>2 DEF d
          <6> QED
            BY <5>1, <5>2, <6>1, <6>2, <6>3 DEF Parallel
        <5>3. CASE ~(p[i] \in DOMAIN a[2] /\ IsObject(a[2][p[i]]) /\ IsObject(b[2][p[i]]))
          <6>1. wm[i] = ws[i]
            BY <4>3, <4>6, <4>4, <5>1, <5>3 DEF d
          <6>2. IsObject(b[2][p[i]]) => ~(wt[i][1] = "value" /\ IsObject(wt[i][2]))
            BY <2>1, <2>0, <3>1, <5>3 DEF Stride, a
          <6> QED
            BY <5>1, <6>1, <6>2 DEF Parallel
        <5> QED
          BY <5>2, <5>3
      <4> QED
        BY <4>5, <4>6
    <3>2. CASE ~(a[1] = "value" /\ IsObject(a[2]))
      <4>1. c = b
        BY <2>2, <2>3, <3>2 DEF Parallel
      <4>2. wm[i] = ws[i]
        BY <2>1, <2>0, <4>1 DEF Stride
      <4>3. wt[i][1] # "value"
        BY <2>1, <2>0, <3>2 DEF Stride
      <4>4. ws[i] = <<"open", None>> \/ ws[i][1] = "value"
        BY <2>1, <2>0, <2>3 DEF Stride
      <4> QED
        BY <4>2, <4>3, <4>4 DEF Parallel
    <3> QED
      BY <3>1, <3>2
  <2>4. CASE (b[1] = "value" /\ ~IsObject(b[2])) \/ b[1] = "cut"
    <3>1. c = b
      BY <2>2, <2>4 DEF Parallel
    <3>2. wm[i] = ws[i] /\ ws[i][1] = "cut"
      BY <2>1, <2>0, <2>4, <3>1 DEF Stride
    <3> QED
      BY <3>2 DEF Parallel
  <2>5. CASE b[1] = "open"
    <3>1. c = a \/ (c[1] # "value" /\ a[1] # "value")
      BY <2>2, <2>5 DEF Parallel
    <3>2. ws[i] = b
      BY <2>1, <2>0, <2>5 DEF Stride
    <3>3. CASE c = a
      <4>1. wm[i] = wt[i]
        BY <2>1, <2>0, <3>3 DEF Stride
      <4> QED
        BY <2>5, <3>2, <4>1 DEF Parallel
    <3>4. CASE c[1] # "value" /\ a[1] # "value"
      <4>1. wm[i] = c /\ wt[i] = a
        BY <2>1, <2>0, <3>4 DEF Stride
      <4> QED
        BY <2>5, <3>2, <3>4, <4>1 DEF Parallel
    <3> QED
      BY <3>1, <3>3, <3>4
  <2> QED
    BY <2>2, <2>3, <2>4, <2>5 DEF Parallel
<1>7. Parallel(Walk(t, p), Walk(s, p), Walk(m, p))
  <2>1. S = 0..Len(p)
    <3>1. S \in SUBSET (0..Len(p))
      OBVIOUS
    <3> HIDE DEF S
    <3> QED
      BY <1>5, <1>6, <3>1, Induction
  <2>2. Len(p) \in S
    <3> HIDE DEF S
    <3> QED
      BY <2>1
  <2> QED
    BY <2>2, <1>2, <1>3, <1>4
<1> HIDE DEF S, m
<1>8. ValueAt(m, p) = IF Speaks(s, p) THEN ValueAt(s, p) ELSE ValueAt(t, p)
  <2>1. \A a \in Object, b \in Object : IsObject(deepMerge(a, b))
    BY <1>1, Merges
  <2> QED
    BY <2>1, <1>1, <1>7 DEF Parallel, ValueAt, Shown, Speaks
<1> QED
  BY <1>8 DEF m

\* Without an override nothing is said of any path.
LEMMA NoneSilent == ASSUME NEW p, Len(p) \in Nat PROVE ~Speaks(None, p)
<1>1. PICK f : f = [i \in 0..Len(p) |-> Stride(None, p, f, i)] /\ Walk(None, p) = f[Len(p)]
  BY Strides
<1> DEFINE S == {i \in 0..Len(p) : f[i][1] = "open"}
<1>2. 0 \in S
  BY <1>1 DEF Stride
<1>3. ASSUME NEW i \in 1..Len(p), i - 1 \in S PROVE i \in S
  <2>1. i \in 0..Len(p) /\ i # 0
    OBVIOUS
  <2>2. f[i] = Stride(None, p, f, i)
    <3> HIDE DEF S
    <3> QED
      BY <1>1, <2>1
  <2> QED
    BY <1>3, <2>1, <2>2 DEF Stride
<1>4. S = 0..Len(p)
  <2>1. S \in SUBSET (0..Len(p))
    OBVIOUS
  <2> HIDE DEF S
  <2> QED
    BY <1>2, <1>3, <2>1, Induction
<1>5. Len(p) \in S
  <2> HIDE DEF S
  <2> QED
    BY <1>4
<1> QED
  BY <1>1, <1>5 DEF Speaks

\* The effective config says of every path what the last layer that has its say does.
LEMMA Layers == MergedByLayers
<1> SUFFICES ASSUME NEW t \in Object \cup {None}, NEW o \in Object \cup {None},
                    NEW r \in Object, NEW p \in Path
             PROVE  ValueAt(getEffectiveConfig(t, o, r), p) =
                        IF t = None \/ Speaks(r, p) THEN ValueAt(r, p)
                        ELSE IF Speaks(o, p) THEN ValueAt(o, p) ELSE ValueAt(t, p)
  BY DEF MergedByLayers
<1>1. Len(p) \in Nat
  BY ConfigAssumption DEF Path
<1>2. \A c \in Object : c # None
  BY ConfigAssumption
<1>3. CASE t = None
  BY <1>3 DEF getEffectiveConfig
<1>4. CASE t # None
  <2> DEFINE base == MergedConfig(t, o)
  <2>1. base \in Object
    BY <1>4, Merges DEF MergedConfig
  <2>2. ValueAt(base, p) = IF Speaks(o, p) THEN ValueAt(o, p) ELSE ValueAt(t, p)
    <3>1. CASE o = None
      BY <1>1, <3>1, NoneSilent DEF MergedConfig
    <3>2. CASE o # None
      BY <1>1, <1>4, <3>2, MergeDecides DEF MergedConfig
    <3> QED
      BY <3>1, <3>2
  <2>3. getEffectiveConfig(t, o, r) = deepMerge(base, r)
    BY <1>4 DEF getEffectiveConfig
  <2> HIDE DEF base
  <2>4. ValueAt(deepMerge(base, r), p) = IF Speaks(r, p) THEN ValueAt(r, p) ELSE ValueAt(base, p)
    BY <1>1, <2>1, MergeDecides
  <2> QED
    BY <1>4, <2>2, <2>3, <2>4
<1> QED
  BY <1>3, <1>4

\* deepMerge, for objects of any depth with any properties: a template, an override
\* and the config of a rule are merged property by property, and at every path the
\* last of them that has its say decides.
THEOREM LastLayerDecidesAlways == Spec => []LastLayerDecides
<1>1. LastLayerDecides
  BY Layers DEF LastLayerDecides
<1> QED
  BY <1>1, PTL
=============================================================================
