----------------------------- MODULE ListsProofs -----------------------------
(***************************************************************************)
(* Proofs about Lists, for any organizations, values and requests.         *)
(***************************************************************************)
EXTENDS Lists, FiniteSetTheorems, TLAPS

LEMMA Requests ==
    /\ Create \subseteq Op /\ Remove \subseteq Op /\ Lookup \subseteq Op
    /\ Create \cap Remove = {} /\ Create \cap Lookup = {} /\ Remove \cap Lookup = {}
BY ConstantsAssumption DEF Op

Answers == {"none", "created", "conflict", "error", "removed", "not found", "listed", "not listed"}

\* A request that is answered has ended, and no other request has moved.
LEMMA Answered ==
    ASSUME TypeOK, NEW x \in Op, NEW a \in Answers, Answer(x, a)
    PROVE  /\ pc' \in [Op -> {"idle", "insert", "delete", "done"}]
           /\ answer' \in [Op -> Answers]
           /\ pc'[x] = "done" /\ answer'[x] = a
           /\ \A y \in Op \ {x} : pc'[y] = pc[y] /\ answer'[y] = answer[y]
           /\ \A y \in Op : pc'[y] = "delete" => pc[y] = "delete"
BY DEF TypeOK, Answer, Answers

\* Lists: every variable keeps its type, and a DELETE that has found an entry
\* holds one that was there (ListsService.remove).
THEOREM TypeCorrect == Spec => []TypeOK
<1>1. Init => TypeOK
  BY ConstantsAssumption, Requests DEF Init, TypeOK
<1>2. TypeOK /\ [Next]_vars => TypeOK'
  <2> SUFFICES ASSUME TypeOK, [Next]_vars PROVE TypeOK'
    OBVIOUS
  <2> USE ConstantsAssumption, Requests DEF TypeOK, Answers
  <2>1. ASSUME NEW c \in Create, CreateStep(c) PROVE TypeOK'
    <3>1. CASE CreateRefused(c) BY <3>1, Answered DEF CreateRefused
    <3>2. CASE CreateFindNone(c)
      <4>1. pc' \in [Op -> {"idle", "insert", "delete", "done"}]
        BY <3>2 DEF CreateFindNone
      <4>2. \A x \in Remove : pc'[x] = pc[x]
        BY <3>2 DEF CreateFindNone
      <4>3. QED
        BY <3>2, <4>1, <4>2 DEF CreateFindNone
    <3>3. CASE CreateInsert(c)
      <4>1. PICK a \in {"created", "error"} : Answer(c, a)
        BY <3>3 DEF CreateInsert
      <4>2. rows \subseteq rows' /\ rows' \subseteq Create
        BY <3>3 DEF CreateInsert
      <4>3. QED
        BY <3>3, <4>1, <4>2, Answered DEF CreateInsert
    <3>4. CASE CreateFails(c)
      <4>1. rows \subseteq rows' /\ rows' \subseteq Create
        BY <3>4 DEF CreateFails
      <4>2. failed' \subseteq Op /\ removed' \subseteq Create
        BY <3>4 DEF CreateFails
      <4>3. Answer(c, "error") /\ UNCHANGED <<orgs, now, target>>
        BY <3>4 DEF CreateFails
      <4>4. pc' \in [Op -> {"idle", "insert", "delete", "done"}] /\ answer' \in [Op -> Answers]
        BY <4>3, Answered
      <4>5. \A y \in Remove : pc'[y] = "delete" => target'[y] \in rows' \cup removed'
        BY <3>4, <4>1, <4>3, Answered DEF CreateFails
      <4>6. QED
        BY <3>4, <4>1, <4>2, <4>3, <4>4, <4>5 DEF CreateFails
    <3>5. QED
      BY <2>1, <3>1, <3>2, <3>3, <3>4 DEF CreateStep
  <2>2. ASSUME NEW x \in Remove, RemoveStep(x) PROVE TypeOK'
    <3>1. CASE RemoveFind(x)
      <4>1. PICK r \in rows : target' = [target EXCEPT ![x] = r]
        BY <3>1 DEF RemoveFind
      <4>2. /\ pc' \in [Op -> {"idle", "insert", "delete", "done"}]
            /\ target' \in [Remove -> Create \cup {NoEntry}]
        BY <3>1, <4>1 DEF RemoveFind
      <4>3. \A y \in Remove : pc'[y] = "delete" => target'[y] \in rows \cup removed
        BY <3>1, <4>1 DEF RemoveFind
      <4>4. QED
        BY <3>1, <4>2, <4>3 DEF RemoveFind
    <3>2. CASE RemoveNotFound(x) BY <3>2, Answered DEF RemoveNotFound
    <3>3. CASE RemoveDelete(x)
      <4>1. rows' \cup removed' = rows \cup removed
        BY <3>3 DEF RemoveDelete
      <4>2. QED
        BY <3>3, <4>1, Answered DEF RemoveDelete
    <3>4. CASE RemoveFails(x)
      <4>1. rows' \cup removed' = rows \cup removed
        BY <3>4 DEF RemoveFails
      <4>2. failed' \subseteq Op /\ removed' \subseteq Create
        BY <3>4 DEF RemoveFails
      <4>3. Answer(x, "error") /\ UNCHANGED <<orgs, now, target>>
        BY <3>4 DEF RemoveFails
      <4>4. pc' \in [Op -> {"idle", "insert", "delete", "done"}] /\ answer' \in [Op -> Answers]
        BY <4>3, Answered
      <4>5. \A y \in Remove : pc'[y] = "delete" => target'[y] \in rows' \cup removed'
        BY <3>4, <4>1, <4>3, Answered DEF RemoveFails
      <4>6. QED
        BY <3>4, <4>1, <4>2, <4>3, <4>4, <4>5 DEF RemoveFails
    <3>5. QED
      BY <2>2, <3>1, <3>2, <3>3, <3>4 DEF RemoveStep
  <2>3. ASSUME NEW o \in Org, RemoveOrganization(o) PROVE TypeOK'
    BY <2>3 DEF RemoveOrganization
  <2>4. ASSUME NEW l \in Lookup, Look(l) PROVE TypeOK'
    <3>1. PICK a \in {"listed", "not listed"} : Answer(l, a)
      BY <2>4 DEF Look
    <3>2. QED
      BY <2>4, <3>1, Answered DEF Look
  <2>5. CASE Tick
    <3>1. now' \in 0..MaxTime
      <4>1. now \in Nat /\ now < MaxTime /\ now' = now + 1 /\ MaxTime \in Nat
        <5>1. MaxTime \in Nat
          BY ConstantsAssumption
        <5>2. now \in 0..MaxTime
          OBVIOUS
        <5>3. now < MaxTime /\ now' = now + 1
          BY <2>5 DEF Tick
        <5>4. QED
          BY ONLY <5>1, <5>2, <5>3
      <4>2. QED
        BY ONLY <4>1
    <3>2. UNCHANGED <<orgs, rows, pc, answer, target, failed, removed>>
      BY <2>5 DEF Tick
    <3>3. (\A x \in Remove : pc[x] = "delete" => target[x] \in rows \cup removed)'
      BY <3>2
    <3>4. QED
      BY <3>1, <3>2, <3>3
  <2>6. CASE UNCHANGED vars
    BY <2>6 DEF vars
  <2>7. QED
    BY <2>1, <2>2, <2>3, <2>4, <2>5, <2>6 DEF Next
<1>3. QED
  BY <1>1, <1>2, PTL DEF Spec

-----------------------------------------------------------------------------
\* What ExactlyOneCreated rests on: the index, that a row is of a POST that has
\* ended and can never be inserted again, and that the index refuses a POST of an
\* existing organization for an entry that was there.
Same(r, c) == OrgOf[r] = OrgOf[c] /\ ValueOf[r] = ValueOf[c]
Indexed == \A r, s \in rows : Same(r, s) => r = s
Ended ==
    /\ \A c \in rows \cup removed : pc[c] = "done"
    /\ \A c \in Create : pc[c] = "done" => answer[c] \in {"created", "conflict", "error"}
ErrorsHaveCause ==
    \A c \in Create : answer[c] = "error" /\ OrgOf[c] \in orgs =>
        c \in failed \/ \E r \in (rows \cup removed) \ {c} : Same(r, c)

Inv == TypeOK /\ Indexed /\ Ended /\ ErrorsHaveCause /\ AnswersMatchRows /\ RefusedWithCause

\* A step that ends no POST and only moves rows to removed keeps everything.
LEMMA Quiet ==
    ASSUME Inv,
           orgs' \subseteq orgs, failed \subseteq failed', rows' \subseteq rows,
           removed' \subseteq rows \cup removed, rows \cup removed \subseteq rows' \cup removed',
           \A c \in Create : pc'[c] = pc[c] /\ answer'[c] = answer[c]
    PROVE  Indexed' /\ Ended' /\ ErrorsHaveCause' /\ AnswersMatchRows' /\ RefusedWithCause'
<1> USE DEF Inv, TypeOK
<1>1. Indexed' /\ Ended'
  BY DEF Indexed, Ended, Same
<1>2. ErrorsHaveCause'
  BY DEF ErrorsHaveCause, Same
<1>3. AnswersMatchRows' /\ RefusedWithCause'
  BY DEF AnswersMatchRows, RefusedWithCause
<1>4. QED
  BY <1>1, <1>2, <1>3

\* A POST that ends, with its row inserted or not, keeps everything: its row is
\* the only one of its value, and its answer has its reason.
LEMMA PostEnds ==
    ASSUME Inv, NEW c \in Create, pc[c] # "done", NEW a \in {"created", "conflict", "error"},
           Answer(c, a),
           UNCHANGED <<orgs, removed>>, failed \subseteq failed',
           \/ /\ rows' = rows \cup {c} /\ Equal(c) = {}
              /\ a = "created" \/ c \in failed'
           \/ /\ rows' = rows /\ a # "created"
              /\ c \in failed' \/ Equal(c) # {} \/ (a = "error" /\ OrgOf[c] \notin orgs)
    PROVE  Indexed' /\ Ended' /\ ErrorsHaveCause' /\ (a # "conflict" \/ Equal(c) # {} =>
               AnswersMatchRows' /\ RefusedWithCause')
<1> USE DEF Inv, TypeOK, Op, Answer
<1>1. c \notin rows \cup removed
  BY DEF Ended
<1>2. rows \subseteq rows' /\ rows' \subseteq rows \cup {c} /\ rows \subseteq Create
  OBVIOUS
<1>3. \A d \in Create : /\ d # c => pc'[d] = pc[d] /\ answer'[d] = answer[d]
                        /\ d = c => pc'[d] = "done" /\ answer'[d] = a
  OBVIOUS
<1>4. Indexed'
  BY <1>2 DEF Indexed, Same, Equal, Entries
<1>5. Ended'
  BY <1>2, <1>3 DEF Ended
<1>6. ErrorsHaveCause'
  <2> SUFFICES ASSUME NEW d \in Create, answer'[d] = "error", OrgOf[d] \in orgs, d \notin failed'
               PROVE  \E r \in (rows' \cup removed) \ {d} : Same(r, d)
    BY DEF ErrorsHaveCause, Same
  <2>1. CASE d = c
    <3>1. PICK r \in Equal(c) : TRUE
      BY <2>1, <1>3
    <3>2. r \in rows /\ r # c /\ Same(r, c)
      BY <1>1 DEF Equal, Entries, Same
    <3>3. QED
      BY <3>2, <2>1, <1>2
  <2>2. CASE d # c
    <3>1. PICK r \in (rows \cup removed) \ {d} : Same(r, d)
      BY <2>2, <1>3 DEF ErrorsHaveCause
    <3>2. QED
      BY <3>1, <1>2
  <2>3. QED
    BY <2>1, <2>2
<1>7. AnswersMatchRows'
  BY <1>1, <1>2, <1>3 DEF AnswersMatchRows
<1>8. a # "conflict" \/ Equal(c) # {} => RefusedWithCause'
  <2> SUFFICES ASSUME a # "conflict" \/ Equal(c) # {}, NEW d \in Create, answer'[d] = "conflict"
               PROVE  \E r \in (rows' \cup removed) \ {d} : Same(r, d)
    BY DEF RefusedWithCause, Same
  <2>1. CASE d = c
    <3>1. PICK r \in Equal(c) : TRUE
      BY <2>1, <1>3
    <3>2. r \in rows /\ r # c /\ Same(r, c)
      BY <1>1 DEF Equal, Entries, Same
    <3>3. QED
      BY <3>2, <2>1, <1>2
  <2>2. CASE d # c
    <3>1. PICK r \in (rows \cup removed) \ {d} : Same(r, d)
      BY <2>2, <1>3 DEF RefusedWithCause, Same
    <3>2. QED
      BY <3>1, <1>2
  <2>3. QED
    BY <2>1, <2>2
<1>9. QED
  BY <1>4, <1>5, <1>6, <1>7, <1>8

\* The inductive invariant.
LEMMA Invariant == Spec => []Inv
<1>1. Init => Indexed /\ Ended /\ ErrorsHaveCause /\ AnswersMatchRows /\ RefusedWithCause
  BY ConstantsAssumption
  DEF Init, Op, Indexed, Ended, ErrorsHaveCause, AnswersMatchRows, RefusedWithCause
<1>2. Inv /\ TypeOK' /\ [Next]_vars => Inv'
  <2> SUFFICES ASSUME Inv, TypeOK', [Next]_vars PROVE Inv'
    OBVIOUS
  <2> DEFINE Kept == Indexed' /\ Ended' /\ ErrorsHaveCause' /\ AnswersMatchRows' /\ RefusedWithCause'
  <2> SUFFICES Kept
    BY DEF Inv
  <2>1. ASSUME NEW c \in Create, CreateStep(c) PROVE Kept
    <3>1. CASE CreateRefused(c)
      BY <3>1, PostEnds DEF CreateRefused
    <3>2. CASE CreateFindNone(c)
      <4>1. c \notin rows \cup removed /\ TypeOK
        BY <3>2 DEF CreateFindNone, Inv, Ended
      <4>2. pc'[c] # "done" /\ \A d \in Create \ {c} : pc'[d] = pc[d]
        <5>1. pc' = [pc EXCEPT ![c] = "insert"] /\ pc \in [Op -> {"idle", "insert", "delete", "done"}]
          BY <3>2, <4>1 DEF CreateFindNone, TypeOK
        <5>2. QED
          BY <5>1, Requests
      <4>3. Ended'
        BY <3>2, <4>1, <4>2 DEF CreateFindNone, TypeOK, Inv, Ended
      <4>4. Indexed' /\ ErrorsHaveCause' /\ AnswersMatchRows' /\ RefusedWithCause'
        BY <3>2 DEF CreateFindNone, Inv, Indexed, Same, ErrorsHaveCause, AnswersMatchRows,
                    RefusedWithCause
      <4>5. QED
        BY <4>3, <4>4
    <3>3. CASE CreateInsert(c)
      BY <3>3, PostEnds DEF CreateInsert
    <3>4. CASE CreateFails(c)
      <4>1. \/ rows' = rows
            \/ rows' = rows \cup {c} /\ Equal(c) = {}
        BY <3>4 DEF CreateFails
      <4>2. QED
        BY <3>4, <4>1, PostEnds DEF CreateFails
    <3>5. QED
      BY <2>1, <3>1, <3>2, <3>3, <3>4 DEF CreateStep
  <2>2. ASSUME NEW x \in Remove, RemoveStep(x) PROVE Kept
    <3> USE Requests DEF Inv
    <3>1. CASE RemoveFind(x)
      <4>1. \A c \in Create : c \in Op /\ c # x
        BY Requests
      <4>2. pc' = [pc EXCEPT ![x] = "delete"] /\ answer' = answer /\ pc \in [Op -> {"idle", "insert", "delete", "done"}]
        BY <3>1 DEF RemoveFind, TypeOK
      <4>3. \A c \in Create : pc'[c] = pc[c] /\ answer'[c] = answer[c]
        BY <4>1, <4>2
      <4>4. QED
        BY <3>1, <4>3, Quiet DEF RemoveFind
    <3>2. CASE RemoveNotFound(x)
      BY <3>2, Answered, Quiet DEF RemoveNotFound, Answers
    <3>3. CASE RemoveDelete(x)
      BY <3>3, Answered, Quiet DEF RemoveDelete, Answers
    <3>4. CASE RemoveFails(x)
      BY <3>4, Answered, Quiet DEF RemoveFails, Answers
    <3>5. QED
      BY <2>2, <3>1, <3>2, <3>3, <3>4 DEF RemoveStep
  <2>3. ASSUME NEW o \in Org, RemoveOrganization(o) PROVE Kept
    BY <2>3, Quiet DEF RemoveOrganization
  <2>4. ASSUME NEW l \in Lookup, Look(l) PROVE Kept
    <3>1. PICK a \in {"listed", "not listed"} : Answer(l, a)
      BY <2>4 DEF Look
    <3>2. \A c \in Create : c \in Op \ {l}
      BY Requests
    <3>3. l \in Op /\ a \in Answers /\ TypeOK
      BY Requests DEF Inv, Answers
    <3>4. \A c \in Create : pc'[c] = pc[c] /\ answer'[c] = answer[c]
      BY <3>1, <3>2, <3>3, Answered
    <3>5. QED
      BY <2>4, <3>4, Quiet DEF Look
  <2>5. CASE Tick
    BY <2>5, Quiet DEF Tick
  <2>6. CASE UNCHANGED vars
    BY <2>6, Quiet DEF vars
  <2>7. QED
    BY <2>1, <2>2, <2>3, <2>4, <2>5, <2>6 DEF Next
<1>3. QED
  BY <1>1, <1>2, TypeCorrect, PTL DEF Spec, Inv

-----------------------------------------------------------------------------
\* ListsService.create: a POST answered with 201 has its row until it is removed.
THEOREM AnswersMatch == Spec => []AnswersMatchRows
<1>1. Inv => AnswersMatchRows
  BY DEF Inv
<1>2. QED
  BY <1>1, Invariant, PTL

\* ListsService.create: no POST is refused as a duplicate of an entry its
\* organization never had.
THEOREM Refusals == Spec => []RefusedWithCause
<1>1. Inv => RefusedWithCause
  BY DEF Inv
<1>2. QED
  BY <1>1, Invariant, PTL

\* ListsService.create: of the POSTs of one value exactly one is answered with
\* 201, however they interleave, when nothing fails and nothing is removed.
THEOREM OneCreated == Spec => []ExactlyOneCreated
<1>1. Inv => ExactlyOneCreated
  <2> SUFFICES ASSUME Inv, NEW o \in orgs, NEW v \in Value,
                      {c \in Create : OrgOf[c] = o /\ ValueOf[c] = v} # {},
                      {c \in Create : OrgOf[c] = o /\ ValueOf[c] = v}
                          \cap (failed \cup removed) = {},
                      \A c \in {d \in Create : OrgOf[d] = o /\ ValueOf[d] = v} : pc[c] = "done"
               PROVE  Cardinality({c \in {d \in Create : OrgOf[d] = o /\ ValueOf[d] = v} :
                                     answer[c] = "created"}) = 1
    BY DEF ExactlyOneCreated
  <2> DEFINE posts == {c \in Create : OrgOf[c] = o /\ ValueOf[c] = v}
  <2>1. \A c \in posts : answer[c] = "created" <=> c \in rows
    BY DEF Inv, AnswersMatchRows
  <2>2. \A c, d \in posts : c \in rows /\ d \in rows => c = d
    BY DEF Inv, Indexed, Same
  <2>3. \E c \in posts : c \in rows
    <3>1. PICK c \in posts : TRUE
      OBVIOUS
    <3>2. answer[c] \in {"created", "conflict", "error"}
      BY DEF Inv, Ended
    <3>3. CASE answer[c] = "created"
      BY <2>1, <3>3
    <3>4. CASE answer[c] # "created"
      <4>1. PICK r \in rows \cup removed : OrgOf[r] = OrgOf[c] /\ ValueOf[r] = ValueOf[c]
        BY <3>2, <3>4 DEF Inv, RefusedWithCause, ErrorsHaveCause, Same
      <4>2. r \in posts
        BY <4>1 DEF Inv, TypeOK
      <4>3. QED
        BY <4>1, <4>2
    <3>5. QED
      BY <3>3, <3>4
  <2>4. PICK c \in posts : c \in rows
    BY <2>3
  <2>5. {d \in posts : answer[d] = "created"} = {c}
    BY <2>1, <2>2, <2>4
  <2>6. QED
    BY <2>5, FS_Singleton
<1>2. QED
  BY <1>1, Invariant, PTL

\* What TenantsAreApart rests on: a request is answered once, when it ends, and a
\* DELETE holds an entry of its own organization.
AnsweredOnce == \A x \in Op : pc[x] # "done" => answer[x] = "none"
HoldsOwn == \A x \in Remove : target[x] # NoEntry => OrgOf[target[x]] = OrgOf[x]

LEMMA Own == Spec => [](TypeOK /\ AnsweredOnce /\ HoldsOwn)
<1>1. Init => AnsweredOnce /\ HoldsOwn
  BY DEF Init, AnsweredOnce, HoldsOwn
<1>2. TypeOK /\ TypeOK' /\ AnsweredOnce /\ HoldsOwn /\ [Next]_vars => (AnsweredOnce /\ HoldsOwn)'
  <2> SUFFICES ASSUME TypeOK, TypeOK', AnsweredOnce, HoldsOwn, [Next]_vars
               PROVE  AnsweredOnce' /\ HoldsOwn'
    OBVIOUS
  <2>1. \/ \E x \in Op, a \in Answers : Answer(x, a)
        \/ \E x \in Op : pc[x] # "done" /\ answer' = answer
                         /\ (pc' = [pc EXCEPT ![x] = "insert"] \/ pc' = [pc EXCEPT ![x] = "delete"])
        \/ UNCHANGED <<pc, answer>>
    BY Requests DEF Next, CreateStep, CreateRefused, CreateFindNone, CreateInsert, CreateFails,
         RemoveStep, RemoveFind, RemoveNotFound, RemoveDelete, RemoveFails, RemoveOrganization,
         Look, Tick, vars, Answers
  <2>2. AnsweredOnce'
    <3>1. CASE \E x \in Op, a \in Answers : Answer(x, a)
      BY <3>1, Answered DEF AnsweredOnce
    <3>2. CASE \E x \in Op : pc[x] # "done" /\ answer' = answer
                  /\ (pc' = [pc EXCEPT ![x] = "insert"] \/ pc' = [pc EXCEPT ![x] = "delete"])
      BY <3>2 DEF AnsweredOnce, TypeOK
    <3>3. CASE UNCHANGED <<pc, answer>>
      BY <3>3 DEF AnsweredOnce
    <3>4. QED
      BY <2>1, <3>1, <3>2, <3>3
  <2>3. \/ UNCHANGED target
        \/ \E x \in Remove, r \in rows : OrgOf[r] = OrgOf[x] /\ target' = [target EXCEPT ![x] = r]
    BY DEF Next, CreateStep, CreateRefused, CreateFindNone, CreateInsert, CreateFails,
         RemoveStep, RemoveFind, RemoveNotFound, RemoveDelete, RemoveFails, RemoveOrganization,
         Look, Tick, vars
  <2>4. HoldsOwn'
    BY <2>3 DEF HoldsOwn, TypeOK
  <2>5. QED
    BY <2>2, <2>4
<1>3. QED
  BY <1>1, <1>2, TypeCorrect, PTL DEF Spec

\* ListsService and OrganizationsService: the entries of an organization change
\* only by a request of that organization or by its deletion.
THEOREM Tenants == Spec => TenantsAreApart
<1> DEFINE Theirs(r) == \/ OrgOf[r] \in orgs \ orgs'
                        \/ \E x \in Create \cup Remove :
                              OrgOf[x] = OrgOf[r] /\ answer'[x] # answer[x]
<1>1. TypeOK /\ AnsweredOnce /\ HoldsOwn /\ [Next]_vars =>
        \A r \in Create : (r \in rows) # (r \in rows') => Theirs(r)
  <2> SUFFICES ASSUME TypeOK, AnsweredOnce, HoldsOwn, [Next]_vars,
                      NEW r \in Create, (r \in rows) # (r \in rows')
               PROVE  Theirs(r)
    OBVIOUS
  <2>1. CASE \E c \in Create : CreateStep(c)
    <3>1. PICK c \in Create : CreateStep(c)
      BY <2>1
    <3>2. r = c /\ pc[c] # "done" /\ \E a \in Answers \ {"none"} : Answer(c, a)
      <4>1. CASE CreateInsert(c) \/ CreateFails(c)
        <5>1. r = c
          BY <4>1 DEF CreateInsert, CreateFails
        <5>2. pc[c] # "done"
          BY <4>1 DEF CreateInsert, CreateFails
        <5>3. Answer(c, "created") \/ Answer(c, "error")
          BY <4>1 DEF CreateInsert, CreateFails
        <5>4. QED
          BY <5>1, <5>2, <5>3 DEF Answers
      <4>2. CASE CreateRefused(c) \/ CreateFindNone(c)
        BY <4>2 DEF CreateRefused, CreateFindNone
      <4>3. QED
        BY <3>1, <4>1, <4>2 DEF CreateStep
    <3>3. answer'[c] # answer[c]
      <4>1. PICK a \in Answers \ {"none"} : Answer(c, a)
        BY <3>2
      <4>2. c \in Op /\ answer'[c] = a
        BY <4>1, Answered, Requests
      <4>3. QED
        BY <3>2, <4>2 DEF AnsweredOnce
    <3>4. QED
      BY <3>2, <3>3
  <2>2. CASE \E x \in Remove : RemoveStep(x)
    <3>1. PICK x \in Remove : RemoveStep(x)
      BY <2>2
    <3>2. r = target[x] /\ pc[x] # "done" /\ \E a \in Answers \ {"none"} : Answer(x, a)
      <4>1. CASE RemoveDelete(x) \/ RemoveFails(x)
        <5>1. r = target[x]
          BY <4>1 DEF RemoveDelete, RemoveFails
        <5>2. pc[x] # "done"
          BY <4>1 DEF RemoveDelete, RemoveFails
        <5>3. Answer(x, "removed") \/ Answer(x, "error")
          BY <4>1 DEF RemoveDelete, RemoveFails
        <5>4. QED
          BY <5>1, <5>2, <5>3 DEF Answers
      <4>2. CASE RemoveFind(x) \/ RemoveNotFound(x)
        BY <4>2 DEF RemoveFind, RemoveNotFound
      <4>3. QED
        BY <3>1, <4>1, <4>2 DEF RemoveStep
    <3>3. answer'[x] # answer[x]
      <4>1. PICK a \in Answers \ {"none"} : Answer(x, a)
        BY <3>2
      <4>2. x \in Op /\ answer'[x] = a
        BY <4>1, Answered, Requests
      <4>3. QED
        BY <3>2, <4>2 DEF AnsweredOnce
    <3>4. OrgOf[r] = OrgOf[x]
      BY <3>2, ConstantsAssumption DEF HoldsOwn
    <3>5. QED
      BY <3>3, <3>4
  <2>3. CASE \E o \in Org : RemoveOrganization(o)
    BY <2>3 DEF RemoveOrganization
  <2>4. CASE (\E l \in Lookup : Look(l)) \/ Tick \/ UNCHANGED vars
    BY <2>4 DEF Look, Tick, vars
  <2>5. QED
    BY <2>1, <2>2, <2>3, <2>4 DEF Next
<1>2. TypeOK /\ AnsweredOnce /\ HoldsOwn /\ [Next]_vars =>
        [\A r \in Create : (r \in rows) # (r \in rows') => Theirs(r)]_vars
  BY <1>1
<1>3. QED
  BY <1>2, Own, PTL DEF Spec, TenantsAreApart

-----------------------------------------------------------------------------
\* An answer to a POST is an answer of the registry, and the index is its slots.
LEMMA Replies ==
    ASSUME TypeOK, AnsweredOnce, NEW c \in Create, pc[c] # "done",
           NEW a \in {"created", "conflict", "error"}, Answer(c, a)
    PROVE  R!Answer(c, ReplyOf[a])
<1> DEFINE old == [d \in Create |-> ReplyOf[answer[d]]]
           new == [d \in Create |-> ReplyOf[answer'[d]]]
<1>1. answer[c] = "none"
  BY Requests DEF AnsweredOnce
<1>2. answer'[c] = a /\ \A d \in Create \ {c} : answer'[d] = answer[d]
  BY Requests, Answered DEF Answers
<1>3. old[c] = "none"
  BY <1>1 DEF ReplyOf
<1>4. new = [old EXCEPT ![c] = ReplyOf[a]]
  BY <1>2
<1>5. QED
  BY <1>3, <1>4 DEF R!Answer

LEMMA FreeSlot == ASSUME TypeOK, NEW c \in Create PROVE Equal(c) = {} <=> R!Free(c)
BY DEF TypeOK, Equal, Entries, R!Free

\* ListsService.create: the search and the INSERT it makes one after the other,
\* with the index of the table, are as good as one atomic step.
THEOREM CreatesAreAtomic == Spec => CreatesAtOnce
<1>1. Init => R!Init
  BY Requests DEF Init, R!Init, ReplyOf
<1>2. TypeOK /\ AnsweredOnce /\ [Next]_vars => [R!Next]_(R!vars)
  <2> SUFFICES ASSUME TypeOK, AnsweredOnce, [Next]_vars
               PROVE  R!Next \/ UNCHANGED R!vars
    OBVIOUS
  <2>1. ASSUME NEW c \in Create, CreateStep(c) PROVE R!Next \/ UNCHANGED R!vars
    <3>1. CASE CreateRefused(c)
      <4>1. R!Answer(c, "refused")
        BY <3>1, Replies DEF CreateRefused, ReplyOf
      <4>2. ~R!Free(c) /\ UNCHANGED <<rows, removed>>
        BY <3>1, FreeSlot DEF CreateRefused
      <4>3. QED
        BY <4>1, <4>2 DEF R!Refuse, R!Next
    <3>2. CASE CreateFindNone(c)
      BY <3>2 DEF CreateFindNone, R!vars
    <3>3. CASE CreateInsert(c) /\ OrgOf[c] \in orgs /\ Equal(c) = {}
      <4>1. R!Answer(c, "taken")
        BY <3>3, Replies DEF CreateInsert, ReplyOf
      <4>2. R!Free(c) /\ rows' = rows \cup {c} /\ UNCHANGED removed
        BY <3>3, FreeSlot DEF CreateInsert
      <4>3. QED
        BY <4>1, <4>2 DEF R!Insert, R!Take, R!Next
    <3>4. CASE CreateInsert(c) /\ ~(OrgOf[c] \in orgs /\ Equal(c) = {})
      <4>1. R!Answer(c, "error")
        BY <3>4, Replies DEF CreateInsert, ReplyOf
      <4>2. UNCHANGED <<rows, removed>>
        BY <3>4 DEF CreateInsert
      <4>3. QED
        BY <4>1, <4>2 DEF R!Fail, R!Next
    <3>5. CASE CreateFails(c)
      <4>1. R!Answer(c, "error")
        BY <3>5, Replies DEF CreateFails, ReplyOf
      <4>2. UNCHANGED removed /\ (UNCHANGED rows \/ (R!Free(c) /\ rows' = rows \cup {c}))
        BY <3>5, FreeSlot DEF CreateFails
      <4>3. QED
        BY <4>1, <4>2 DEF R!Insert, R!Fail, R!Next
    <3>6. QED
      BY <2>1, <3>1, <3>2, <3>3, <3>4, <3>5 DEF CreateStep
  <2>2. ASSUME rows' \subseteq rows, (rows \cup removed)' = rows \cup removed,
               \A c \in Create : answer'[c] = answer[c]
        PROVE  R!Next
    BY <2>2 DEF R!Drop, R!Next
  <2>3. ASSUME NEW x \in Remove \cup Lookup, NEW a \in Answers, Answer(x, a)
        PROVE  \A c \in Create : answer'[c] = answer[c]
    BY <2>3, Requests, Answered
  <2>4. CASE \E x \in Remove : RemoveStep(x)
    <3>1. PICK x \in Remove : RemoveStep(x)
      BY <2>4
    <3>2. rows' \subseteq rows /\ (rows \cup removed)' = rows \cup removed
      BY <3>1 DEF RemoveStep, RemoveFind, RemoveNotFound, RemoveDelete, RemoveFails
    <3>3. UNCHANGED answer \/ \E a \in Answers : Answer(x, a)
      BY <3>1 DEF RemoveStep, RemoveFind, RemoveNotFound, RemoveDelete, RemoveFails, Answers
    <3>4. QED
      BY <3>2, <3>3, <2>2, <2>3
  <2>5. CASE \E l \in Lookup : Look(l)
    <3>1. PICK l \in Lookup : Look(l)
      BY <2>5
    <3>2. UNCHANGED <<rows, removed>> /\ \E a \in Answers : Answer(l, a)
      BY <3>1 DEF Look, Answers
    <3>3. QED
      BY <3>2, <2>2, <2>3
  <2>6. CASE (\E o \in Org : RemoveOrganization(o)) \/ Tick \/ UNCHANGED vars
    BY <2>6, <2>2 DEF RemoveOrganization, Tick, vars
  <2>7. QED
    BY <2>1, <2>4, <2>5, <2>6 DEF Next
<1>3. QED
  BY <1>1, <1>2, Own, PTL DEF Spec, CreatesAtOnce, R!Spec
=============================================================================
