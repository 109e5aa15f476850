---------------------------- MODULE CatalogProofs ----------------------------
(***************************************************************************)
(* Proofs about Catalog, for any rows, requests and organizations.         *)
(***************************************************************************)
EXTENDS Catalog, TLAPS

LEMMA Parts ==
    /\ Rule \subseteq Owned /\ Override \subseteq Owned /\ Template \subseteq Named /\ Org \subseteq Named
    /\ Owned \subseteq Row /\ Named \subseteq Row /\ Row \subseteq Op /\ Request \subseteq Op
    /\ Patch \subseteq Request /\ Delete \subseteq Request
    /\ Owned \cup Named = Row /\ Rule \cup Override = Owned
    /\ Rule \cap Override = {} /\ Owned \cap Named = {} /\ Row \cap Request = {}
    /\ Patch \cap Delete = {}
BY ConstantsAssumption DEF Owned, Named, Row, Request, Op

Pcs == {"idle", "search", "post", "reload", "update", "insert", "delete", "done"}
Answers == {"none", "ok", "notfound", "conflict", "error"}
Saving == {"reload", "update", "insert"}

\* A request that is answered has ended and holds nothing; the others have not moved.
LEMMA Answering ==
    ASSUME TypeOK, NEW o \in Op, NEW a \in Answers, Answer(o, a)
    PROVE  /\ pc' \in [Op -> Pcs] /\ pc'[o] = "done"
           /\ answer' \in [Op -> Answers] /\ answer'[o] = a
           /\ \A y \in Op \ {o} : pc'[y] = pc[y] /\ answer'[y] = answer[y]
           /\ copy' \in [Request -> Entity]
           /\ \A q \in Request \ {o} : copy'[q] = copy[q]
           /\ plan' \in [Patch -> Value]
           /\ \A p \in Patch \ {o} : plan'[p] = plan[p]
<1> USE DEF TypeOK, Answer, Goto, Pcs, Answers
<1>1. NoEntity \in Entity
  BY DEF NoEntity, Entity, Link
<1>2. Absent \in Value
  BY DEF Value
<1>3. QED
  BY <1>1, <1>2

\* However a write ends, its request is answered and the failures stay bounded.
LEMMA Ending ==
    ASSUME TypeOK, NEW o \in Op, Written(o) \/ Errs(o) \/ Refused(o)
    PROVE  (\E a \in {"ok", "error"} : Answer(o, a)) /\ failures' \in 0..MaxFailures
<1>1. failures \in 0..MaxFailures /\ MaxFailures \in Nat
  BY ConstantsAssumption DEF TypeOK
<1>2. failures' = failures \/ (failures < MaxFailures /\ failures' = failures + 1)
  BY DEF Written, Errs, Refused
<1>3. failures' \in 0..MaxFailures
  BY ONLY <1>1, <1>2
<1>4. QED
  BY <1>3 DEF Written, Errs, Refused

-----------------------------------------------------------------------------
\* What a request holds while it is under way: a row that was there, its own
\* where the row has an organization; and a PATCH saves a value of the row's kind.
Was(x) == Live(x) \/ x \in removed
Holds ==
    \A q \in Request : pc[q] \in Saving \cup {"delete"} =>
        /\ Was(copy[q].id)
        /\ copy[q].id \in Owned => OrgOf[copy[q].id] = OrgOf[q]
Fits(x, w) ==
    /\ x \in Rule => w \in Link
    /\ x \in Override => w = TemplateOf[x]
    /\ x \in Named => w \in Name
Keeps ==
    \A p \in Patch : pc[p] \in Saving =>
        /\ Fits(copy[p].id, Saved(copy[p]))
        /\ plan[p] \in {Absent, Saved(copy[p])}
Idle == \A p \in Patch : pc[p] \notin Saving => plan[p] = Absent
\* A request is answered once; the POST of a row that was ever there has ended.
AnsweredOnce == \A o \in Op : pc[o] # "done" => answer[o] = "none"
WasPosted == \A x \in Row : Was(x) => pc[x] = "done"

Shape == TypeOK /\ Holds /\ Keeps /\ Idle /\ AnsweredOnce /\ WasPosted

\* What an answer keeps, whatever it does to the rows.
LEMMA AnswerKeeps ==
    ASSUME Shape, NEW o \in Op, NEW a \in Answers, pc[o] # "done", Answer(o, a),
           \A x \in Row : Was(x) => Was(x)'
    PROVE  Holds' /\ Keeps' /\ Idle' /\ AnsweredOnce'
<1> USE Parts DEF Shape
<1>1. Holds'
  <2> SUFFICES ASSUME NEW q \in Request, pc'[q] \in Saving \cup {"delete"}
               PROVE  /\ row'[copy'[q].id] # Absent \/ copy'[q].id \in removed'
                      /\ copy'[q].id \in Owned => OrgOf[copy'[q].id] = OrgOf[q]
    BY DEF Holds, Was, Live
  <2>1. q # o /\ pc[q] = pc'[q] /\ copy'[q] = copy[q]
    BY Answering DEF Saving
  <2>2. copy[q].id \in Row
    BY <2>1 DEF TypeOK, Saving
  <2>3. QED
    BY <2>1, <2>2 DEF Holds, Was, Live
<1>2. Keeps'
  <2> SUFFICES ASSUME NEW p \in Patch, pc'[p] \in Saving
               PROVE  /\ Fits(copy'[p].id, Saved(copy'[p]))
                      /\ plan'[p] \in {Absent, Saved(copy'[p])}
    BY DEF Keeps, Fits, Saved
  <2>1. p # o
    BY Answering DEF Saving
  <2>2. pc'[p] = pc[p] /\ copy'[p] = copy[p] /\ plan'[p] = plan[p]
    BY <2>1, Answering
  <2>3. QED
    BY <2>2 DEF Keeps
<1>3. AnsweredOnce'
  BY Answering DEF AnsweredOnce
<1>4. Idle'
  <2>1. o \in Patch => plan'[o] = Absent
    BY DEF Answer
  <2>2. QED
    BY <2>1, Answering DEF Idle
<1>5. QED
  BY <1>1, <1>2, <1>3, <1>4

\* ... and, if every row is one that was there, its own or the one it holds, the rest.
LEMMA AnswerShape ==
    ASSUME Shape, NEW o \in Op, NEW a \in Answers, pc[o] # "done", Answer(o, a),
           row' \in [Row -> Value],
           \A x \in Row : row'[x] # row[x] =>
              (row'[x] = Absent /\ x \in removed') \/ Fits(x, row'[x]),
           removed \subseteq removed',
           removed' \subseteq Row, caught' \subseteq Row, overlapped' = overlapped,
           failures' \in 0..MaxFailures,
           \A x \in Row : row'[x] # Absent \/ x \in removed' =>
              \/ Was(x) \/ x = o
              \/ o \in Patch /\ pc[o] \in Saving /\ x = copy[o].id
    PROVE  Shape'
<1> USE Parts DEF Shape
<1>0. \A x \in Row : Was(x) => Was(x)'
  BY ConstantsAssumption DEF Was, Live, Fits, Link
<1>1. Holds' /\ Keeps' /\ Idle' /\ AnsweredOnce'
  BY <1>0, AnswerKeeps
<1>2. TypeOK'
  <2>1. /\ \A r \in Rule : row'[r] \in Link \cup {Absent}
        /\ \A v \in Override : row'[v] \in {TemplateOf[v], Absent}
        /\ \A t \in Named : row'[t] \in Name \cup {Absent}
    BY DEF TypeOK, Fits
  <2>2. /\ pc' \in [Op -> Pcs] /\ answer' \in [Op -> Answers]
        /\ copy' \in [Request -> Entity] /\ plan' \in [Patch -> Value]
    BY Answering
  <2>3. \A q \in Request : pc'[q] \notin {"idle", "done"} => copy'[q].id \in Row
    BY Answering DEF TypeOK
  <2>4. QED
    BY <2>1, <2>2, <2>3 DEF TypeOK, Pcs, Answers
<1>3. WasPosted'
  <2> SUFFICES ASSUME NEW x \in Row, row'[x] # Absent \/ x \in removed'
               PROVE  pc'[x] = "done"
    BY DEF WasPosted, Was, Live
  <2>1. CASE Was(x)
    <3>1. pc[x] = "done" /\ x \in Op \ {o}
      BY <2>1 DEF WasPosted
    <3>2. QED
      BY <2>1, <3>1, Answering DEF WasPosted
  <2>2. CASE x = o
    BY <2>2, Answering
  <2>3. CASE o \in Patch /\ pc[o] \in Saving /\ x = copy[o].id
    <3>1. pc[x] = "done"
      BY <2>3 DEF Holds, WasPosted
    <3>2. x \in Op \ {o}
      BY <2>3
    <3>3. QED
      BY <3>1, <3>2, Answering
  <2>4. QED
    BY <2>1, <2>2, <2>3
<1>4. QED
  BY <1>1, <1>2, <1>3

-----------------------------------------------------------------------------
\* A step that answers nobody moves one request, and no row.
Moves(o, l) ==
    /\ pc[o] # "done" /\ Goto(o, l)
    /\ UNCHANGED <<row, answer, gone, failures>>

LEMMA MoveShape ==
    ASSUME Shape, NEW o \in Op, NEW l \in Pcs \ {"idle", "done"}, Moves(o, l),
           o \in Patch => l \in Saving,
           copy' \in [Request -> Entity], plan' \in [Patch -> Value], overlapped' \subseteq Row,
           \A q \in Request \ {o} : copy'[q] = copy[q],
           \A p \in Patch \ {o} : plan'[p] = plan[p],
           o \in Request =>
              /\ copy'[o].id \in Row
              /\ Was(copy'[o].id) \/ (pc[o] \in Saving \cup {"delete"} /\ copy'[o] = copy[o])
              /\ copy'[o].id \in Owned => OrgOf[copy'[o].id] = OrgOf[o],
           o \in Patch =>
              /\ Fits(copy'[o].id, Saved(copy'[o]))
              /\ plan'[o] \in {Absent, Saved(copy'[o])}
    PROVE  Shape'
<1> USE Parts DEF Shape, Moves, Goto, gone
<1>1. /\ pc' \in [Op -> Pcs] /\ pc'[o] = l
      /\ \A y \in Op \ {o} : pc'[y] = pc[y]
  BY DEF TypeOK, Pcs
<1>2. TypeOK'
  BY <1>1 DEF TypeOK, Pcs
<1>3. \A q \in Request : pc'[q] \in Saving \cup {"delete"} =>
        /\ Was(copy'[q].id)
        /\ copy'[q].id \in Row
        /\ copy'[q].id \in Owned => OrgOf[copy'[q].id] = OrgOf[q]
  <2> SUFFICES ASSUME NEW q \in Request, pc'[q] \in Saving \cup {"delete"}
               PROVE  /\ Was(copy'[q].id)
                      /\ copy'[q].id \in Row
                      /\ copy'[q].id \in Owned => OrgOf[copy'[q].id] = OrgOf[q]
    OBVIOUS
  <2>1. CASE q = o
    BY <2>1 DEF Holds
  <2>2. CASE q # o
    BY <2>2, <1>1 DEF Holds, TypeOK, Saving
  <2>3. QED
    BY <2>1, <2>2
<1>4. Holds'
  BY <1>1, <1>3 DEF Holds, Was, Live
<1>5. Keeps'
  <2> SUFFICES ASSUME NEW p \in Patch, pc'[p] \in Saving
               PROVE  /\ Fits(copy'[p].id, Saved(copy'[p]))
                      /\ plan'[p] \in {Absent, Saved(copy'[p])}
    BY DEF Keeps, Fits, Saved
  <2>1. CASE p # o
    <3>1. pc'[p] = pc[p] /\ copy'[p] = copy[p] /\ plan'[p] = plan[p]
      BY <2>1, <1>1
    <3>2. QED
      BY <3>1 DEF Keeps
  <2>2. QED
    BY <2>1
<1>6. AnsweredOnce' /\ WasPosted'
  BY <1>1 DEF AnsweredOnce, WasPosted, Was, Live
<1>7. Idle'
  BY <1>1 DEF Idle
<1>8. QED
  BY <1>2, <1>4, <1>5, <1>6, <1>7

LEMMA ShapeInit == Init => Shape
<1> SUFFICES ASSUME Init PROVE Shape
  OBVIOUS
<1> USE ConstantsAssumption, Parts DEF Init, InitWithout
<1>1. row \in [Row -> Value]
  BY DEF Value, Link
<1>2. /\ \A r \in Rule : row[r] \in Link \cup {Absent}
      /\ \A v \in Override : row[v] \in {TemplateOf[v], Absent}
      /\ \A t \in Named : row[t] \in Name \cup {Absent}
  BY DEF Link
<1>3. NoEntity \in Entity /\ Absent \in Value
  BY DEF NoEntity, Entity, Link, Value
<1>4. copy \in [Request -> Entity] /\ plan \in [Patch -> Value] /\ failures \in 0..MaxFailures
  BY <1>3
<1>5. \A q \in Op : pc[q] \in {"idle", "done"} /\ answer[q] \in {"none", "ok"}
  OBVIOUS
<1>6. TypeOK
  BY <1>1, <1>2, <1>4, <1>5 DEF TypeOK
<1>7. Holds /\ Keeps /\ Idle /\ AnsweredOnce
  BY <1>5 DEF Holds, Keeps, Idle, AnsweredOnce, Saving
<1>8. WasPosted
  BY DEF WasPosted, Was, Live
<1>9. QED
  BY <1>6, <1>7, <1>8 DEF Shape

\* What the findOne of a PATCH that asks for value w does when it selects row x.
Found(x, w) == [id |-> x, loaded |-> IF x \in Owned THEN row[x] ELSE None, value |-> w]
FindsIn(p, x, w) ==
    /\ Visible(p, x)
    /\ copy' = [copy EXCEPT ![p] = Found(x, w)]
    /\ overlapped' = IF OpenOn(x) = {} THEN overlapped ELSE overlapped \cup {x}

LEMMA ShapeStep == Shape /\ [Next]_vars => Shape'
<1> SUFFICES ASSUME Shape, [Next]_vars PROVE Shape'
  OBVIOUS
<1> USE Parts DEF Answers, Pcs
<1>0. TypeOK
  BY DEF Shape
<1>1. ASSUME NEW x \in Row, PostRow(x) PROVE Shape'
  <2>1. PICK w \in IF x \in Rule THEN Template \cup {None} ELSE Name :
          IF Admitted(x, w)
          THEN row' = [row EXCEPT ![x] = w] /\ Written(x)
          ELSE Refused(x)
    BY <1>1 DEF PostRow
  <2>2. /\ x \in Rule \cup Named /\ x \in Op /\ pc[x] # "done" /\ UNCHANGED <<gone, overlapped>>
        /\ (\E a \in {"ok", "error"} : Answer(x, a)) /\ failures' \in 0..MaxFailures
    BY <1>0, <1>1, Ending DEF PostRow
  <2>3. w \in Value /\ Fits(x, w)
    BY <2>1, <2>2 DEF Value, Link, Fits
  <2>4. CASE row' = [row EXCEPT ![x] = w]
    <3>1. row' \in [Row -> Value] /\ row'[x] = w /\ \A y \in Row \ {x} : row'[y] = row[y]
      BY <2>3, <2>4, <1>0 DEF TypeOK
    <3>2. QED
      BY <2>2, <2>3, <3>1, <1>0, AnswerShape DEF TypeOK, gone, Was, Live
  <2>5. CASE UNCHANGED row
    BY <2>2, <2>5, <1>0, AnswerShape DEF TypeOK, gone, Was, Live
  <2>6. QED
    BY <2>1, <2>4, <2>5 DEF Refused
<1>2. ASSUME NEW v \in Override, PostOverride(v) \/ SearchOverride(v) PROVE Shape'
  <2>1. v \in Op /\ v \notin Request /\ pc[v] # "done"
    BY <1>2 DEF PostOverride, SearchOverride
  <2>2. UNCHANGED <<row, gone, overlapped, failures>>
    BY <1>2 DEF PostOverride, SearchOverride
  <2>3. CASE \E a \in Answers : Answer(v, a)
    BY <2>1, <2>2, <2>3, <1>0, AnswerShape DEF TypeOK, gone, Was, Live
  <2>4. CASE \E l \in {"search", "post"} : Goto(v, l) /\ UNCHANGED <<answer, copy, plan>>
    BY <2>1, <2>2, <2>4, <1>0, MoveShape DEF TypeOK, Moves
  <2>5. QED
    BY <1>2, <2>3, <2>4 DEF PostOverride, SearchOverride
<1>3. ASSUME NEW v \in Override, InsertOverride(v) PROVE Shape'
  <2>1. /\ v \in Op /\ pc[v] # "done" /\ UNCHANGED <<gone, overlapped>>
        /\ (\E a \in {"ok", "error"} : Answer(v, a)) /\ failures' \in 0..MaxFailures
    BY <1>0, <1>3, Ending DEF InsertOverride
  <2>2. CASE row' = [row EXCEPT ![v] = TemplateOf[v]]
    <3>1. TemplateOf[v] \in Value /\ Fits(v, TemplateOf[v])
      BY ConstantsAssumption DEF Value, Link, Fits
    <3>2. row' \in [Row -> Value] /\ row'[v] = TemplateOf[v] /\ \A y \in Row \ {v} : row'[y] = row[y]
      BY <2>2, <3>1, <1>0 DEF TypeOK
    <3>3. QED
      BY <2>1, <3>1, <3>2, <1>0, AnswerShape DEF TypeOK, gone, Was, Live
  <2>3. CASE UNCHANGED row
    BY <2>1, <2>3, <1>0, AnswerShape DEF TypeOK, gone, Was, Live
  <2>4. QED
    BY <1>3, <2>2, <2>3 DEF InsertOverride, Refused
<1>4. ASSUME NEW p \in Patch, PatchFind(p) PROVE Shape'
  <2>0. PICK x \in Row : \E w \in Asked(x) : FindsIn(p, x, w)
    BY <1>4 DEF PatchFind, FindsIn, Found
  <2>1. PICK w \in Asked(x) : FindsIn(p, x, w)
    BY <2>0
  <2>2. Moves(p, "reload") /\ UNCHANGED plan
    BY <1>4 DEF PatchFind, Moves
  <2> DEFINE c == Found(x, w)
  <2> USE DEF FindsIn, Found
  <2>3. c \in Entity /\ Fits(x, Saved(c))
    <3>1. CASE x \in Rule
      <4>1. row[x] \in Link /\ w \in Link
        BY <2>1, <3>1, <1>0 DEF Visible, Live, TypeOK, Asked, Link
      <4>2. QED
        BY <3>1, <4>1 DEF Entity, Fits, Saved
    <3>2. CASE x \in Override
      <4>1. row[x] = TemplateOf[x] /\ w = row[x] /\ TemplateOf[x] \in Template
        BY <2>1, <3>2, <1>0, ConstantsAssumption DEF Visible, Live, TypeOK, Asked
      <4>2. QED
        BY <3>2, <4>1, ConstantsAssumption DEF Entity, Fits, Saved, Link
    <3>3. CASE x \in Named
      <4>1. w \in Name
        BY <2>1, <3>3, <1>0 DEF Visible, Live, TypeOK, Asked
      <4>2. QED
        BY <3>3, <4>1 DEF Entity, Fits, Saved, Link
    <3>4. QED
      BY <3>1, <3>2, <3>3
  <2>4. copy' \in [Request -> Entity] /\ copy'[p] = c /\ \A q \in Request \ {p} : copy'[q] = copy[q]
    BY <2>1, <2>3, <1>0 DEF TypeOK
  <2>5. overlapped' \subseteq Row /\ plan \in [Patch -> Value] /\ overlapped' = overlapped'
    BY <2>1, <1>0 DEF TypeOK
  <2>6. plan[p] = Absent
    BY <1>4 DEF PatchFind, Shape, Idle, Saving
  <2>7. QED
    BY <2>1, <2>2, <2>3, <2>4, <2>5, <2>6, MoveShape DEF Visible, Was, Saving
<1>5. ASSUME NEW p \in Patch, PatchReload(p) PROVE Shape'
  <2>1. PICK l \in {"update", "insert"} : Goto(p, l)
    BY <1>5 DEF PatchReload
  <2>2. Moves(p, l) /\ UNCHANGED <<copy, overlapped>> /\ pc[p] = "reload"
    BY <1>5, <2>1 DEF PatchReload, Moves
  <2>3. copy[p].id \in Row /\ copy[p] \in Entity
    BY <2>2, <1>0 DEF TypeOK
  <2>4. Saved(copy[p]) \in Value /\ Absent \in Value
    BY <2>3 DEF Saved, Entity, Value
  <2>5. UNCHANGED plan \/ \E w \in {Absent, Saved(copy[p])} : plan' = [plan EXCEPT ![p] = w]
    BY <1>5 DEF PatchReload
  <2>6. /\ plan' \in [Patch -> Value] /\ \A q \in Patch \ {p} : plan'[q] = plan[q]
        /\ plan'[p] \in {plan[p], Absent, Saved(copy[p])}
    BY <2>4, <2>5, <1>0 DEF TypeOK
  <2>7. /\ Fits(copy[p].id, Saved(copy[p])) /\ plan[p] \in {Absent, Saved(copy[p])}
        /\ copy[p].id \in Owned => OrgOf[copy[p].id] = OrgOf[p]
    BY <2>2 DEF Shape, Keeps, Holds, Saving
  <2>8. QED
    BY <2>2, <2>3, <2>6, <2>7, <1>0, MoveShape DEF TypeOK, Saving
<1>6. ASSUME NEW p \in Patch, PatchUpdate(p) \/ PatchInsert(p) PROVE Shape'
  <2> DEFINE x == copy[p].id
  <2>1. /\ p \in Op /\ pc[p] \in {"update", "insert"} /\ pc[p] \in Saving
        /\ UNCHANGED <<gone, overlapped>>
    BY <1>6 DEF PatchUpdate, PatchInsert, Saving
  <2>0. (\E a \in {"ok", "error"} : Answer(p, a)) /\ failures' \in 0..MaxFailures
    <3>1. Written(p) \/ Refused(p) \/ (UNCHANGED failures /\ Answer(p, "ok"))
      BY <1>6 DEF PatchUpdate, PatchInsert
    <3>2. QED
      BY <2>1, <3>1, <1>0, Ending DEF TypeOK
  <2>2. x \in Row /\ copy[p] \in Entity
    BY <2>1, <1>0 DEF TypeOK
  <2>3. /\ Fits(x, Saved(copy[p])) /\ plan[p] \in {Absent, Saved(copy[p])}
    BY <2>1 DEF Shape, Keeps
  <2>4. Saved(copy[p]) \in Value
    BY <2>2 DEF Saved, Entity, Value
  <2>5. CASE UNCHANGED row
    BY <2>0, <2>1, <2>5, <1>0, AnswerShape DEF TypeOK, gone, Was, Live
  <2>6. CASE row' = [row EXCEPT ![x] = Saved(copy[p])]
    <3>1. row' \in [Row -> Value] /\ row'[x] = Saved(copy[p]) /\ \A y \in Row \ {x} : row'[y] = row[y]
      BY <2>2, <2>4, <2>6, <1>0 DEF TypeOK
    <3>2. QED
      BY <2>0, <2>1, <2>2, <2>3, <3>1, <1>0, AnswerShape DEF TypeOK, gone, Was, Live
  <2>7. QED
    BY <1>6, <2>3, <2>5, <2>6 DEF PatchUpdate, PatchInsert, Refused
<1>7. ASSUME NEW d \in Delete, DeleteFind(d) PROVE Shape'
  <2>1. PICK x \in Row : Visible(d, x) /\ copy' = [copy EXCEPT ![d].id = x]
    BY <1>7 DEF DeleteFind
  <2>2. Moves(d, "delete") /\ UNCHANGED <<plan, overlapped>>
    BY <1>7 DEF DeleteFind, Moves
  <2>3. copy[d] \in Entity
    BY <1>0 DEF TypeOK
  <2>4. /\ copy' \in [Request -> Entity] /\ copy'[d].id = x
        /\ \A q \in Request \ {d} : copy'[q] = copy[q]
    BY <2>1, <2>3, <1>0 DEF TypeOK, Entity
  <2>5. QED
    BY <2>1, <2>2, <2>4, <1>0, MoveShape DEF TypeOK, Visible, Was
<1>8. ASSUME NEW d \in Delete, DeleteRow(d) PROVE Shape'
  <2>1. /\ d \in Op /\ pc[d] # "done" /\ UNCHANGED overlapped
        /\ (\E a \in {"ok", "error"} : Answer(d, a)) /\ failures' \in 0..MaxFailures
    BY <1>0, <1>8, Ending DEF DeleteRow
  <2>2. /\ row' \in [Row -> Value]
        /\ \A y \in Row : row'[y] # row[y] => row'[y] = Absent \/ (y \in Rule /\ row'[y] = None)
    BY <1>8, <1>0 DEF DeleteRow, TypeOK, Value, Link
  <2>7. \A y \in Row : row'[y] # row[y] /\ row'[y] = Absent => y \in removed'
    BY <1>8 DEF DeleteRow, Live
  <2>3. \A y \in Row : row'[y] = None /\ y \in Rule => Fits(y, row'[y])
    BY DEF Fits, Link
  <2>4. removed \subseteq removed' /\ removed' \subseteq Row /\ caught' \subseteq Row
    BY <1>8, <1>0 DEF DeleteRow, TypeOK
  <2>5. \A y \in Row : row'[y] # Absent \/ y \in removed' => Was(y)
    <3>1. \A y \in Row : row[y] = Absent => row'[y] = Absent
      <4>1. copy[d].id \in Row /\ Absent \notin Row
        BY <1>8, <1>0, ConstantsAssumption DEF DeleteRow, TypeOK
      <4>2. QED
        BY <1>8, <4>1 DEF DeleteRow
    <3>2. QED
      BY <1>8, <3>1 DEF DeleteRow, Was, Live
  <2>6. QED
    BY <2>1, <2>2, <2>3, <2>4, <2>5, <2>7, <1>0, AnswerShape DEF TypeOK
<1>9. ASSUME NEW q \in Request, NotFound(q) PROVE Shape'
  BY <1>9, <1>0, AnswerShape DEF NotFound, TypeOK, gone, Was, Live
<1>10. ASSUME NEW o \in Op, Fails(o) PROVE Shape'
  <2>1. (\E a \in {"ok", "error"} : Answer(o, a)) /\ failures' \in 0..MaxFailures
    BY <1>10, <1>0, Ending DEF Fails
  <2>2. QED
    BY <1>10, <2>1, <1>0, AnswerShape DEF Fails, TypeOK, gone, Was, Live
<1>11. CASE UNCHANGED vars
  BY <1>11 DEF vars, gone, Shape, TypeOK, Holds, Keeps, Idle, Fits, Saved, AnsweredOnce, WasPosted, Was, Live
<1>12. QED
  BY <1>1, <1>2, <1>3, <1>4, <1>5, <1>6, <1>7, <1>8, <1>9, <1>10, <1>11
  DEF Next, PostStep, PatchStep, DeleteStep

LEMMA Shaped == Spec => []Shape
BY ShapeInit, ShapeStep, PTL DEF Spec

\* Catalog: every variable keeps its type (the four services, their update and
\* remove in two and three queries).
THEOREM CatalogTypeCorrect == Spec => []TypeOK
<1>1. Shape => TypeOK
  BY DEF Shape
<1>2. QED
  BY <1>1, Shaped, PTL

-----------------------------------------------------------------------------
(* The rows that are there *)

\* What a step does to the rows: nothing, one of them gets a value that the
\* indexes and keys admit, or a DELETE takes one away with what hangs on it.
Writes(x, w) == x \in Row /\ Fits(x, w) /\ Admitted(x, w) /\ row' = [row EXCEPT ![x] = w]
Removes(x) ==
    row' = [y \in Row |->
               IF y = x \/ (y \in Override /\ TemplateOf[y] = x) THEN Absent
               ELSE IF y \in Rule /\ row[y] = x THEN None ELSE row[y]]

LEMMA RowSteps ==
    Shape /\ [Next]_vars =>
        \/ UNCHANGED row
        \/ \E x \in Row, w \in Value : Writes(x, w)
        \/ \E x \in Row : Removes(x)
<1> SUFFICES ASSUME Shape, [Next]_vars,
                    ~ UNCHANGED row
             PROVE  (\E x \in Row, w \in Value : Writes(x, w)) \/ (\E x \in Row : Removes(x))
  OBVIOUS
<1> USE Parts DEF Shape
<1>1. ASSUME NEW x \in Row, PostRow(x) PROVE \E w \in Value : Writes(x, w)
  <2>1. PICK w \in IF x \in Rule THEN Template \cup {None} ELSE Name :
          Admitted(x, w) /\ row' = [row EXCEPT ![x] = w]
    BY <1>1 DEF PostRow, Refused
  <2>2. w \in Value /\ Fits(x, w)
    BY <1>1, <2>1 DEF PostRow, Value, Link, Fits
  <2>3. QED
    BY <2>1, <2>2 DEF Writes
<1>2. ASSUME NEW v \in Override, InsertOverride(v) PROVE \E w \in Value : Writes(v, w)
  <2>1. Admitted(v, TemplateOf[v]) /\ row' = [row EXCEPT ![v] = TemplateOf[v]]
    BY <1>2 DEF InsertOverride, Refused
  <2>2. TemplateOf[v] \in Value /\ Fits(v, TemplateOf[v])
    BY ConstantsAssumption DEF Value, Link, Fits
  <2>3. QED
    BY <2>1, <2>2 DEF Writes
<1>3. ASSUME NEW p \in Patch, PatchUpdate(p) \/ PatchInsert(p)
      PROVE  \E x \in Row, w \in Value : Writes(x, w)
  <2>1. pc[p] \in Saving /\ pc[p] \notin {"idle", "done"}
    BY <1>3 DEF PatchUpdate, PatchInsert, Saving
  <2>2. copy[p].id \in Row /\ copy[p] \in Entity
    BY <2>1 DEF TypeOK
  <2>3. /\ Fits(copy[p].id, Saved(copy[p])) /\ plan[p] \in {Absent, Saved(copy[p])}
    BY <2>1 DEF Keeps
  <2>4. Admitted(copy[p].id, Saved(copy[p])) /\ row' = [row EXCEPT ![copy[p].id] = Saved(copy[p])]
    BY <1>3, <2>3 DEF PatchUpdate, PatchInsert, Refused
  <2>5. Saved(copy[p]) \in Value
    BY <2>2 DEF Saved, Entity, Value
  <2>6. QED
    BY <2>2, <2>3, <2>4, <2>5 DEF Writes
<1>4. ASSUME NEW d \in Delete, DeleteRow(d) PROVE \E x \in Row : Removes(x)
  <2>1. copy[d].id \in Row
    BY <1>4 DEF DeleteRow, TypeOK
  <2>2. Removes(copy[d].id)
    BY <1>4 DEF DeleteRow, Removes
  <2>3. QED
    BY <2>1, <2>2
<1>5. QED
  BY <1>1, <1>2, <1>3, <1>4
  DEF Next, PostStep, PatchStep, DeleteStep, PostOverride, SearchOverride, PatchFind,
      PatchReload, DeleteFind, NotFound, Fails, vars

\* RulesService, TemplateOverridesService and RuleTemplatesService.remove, by the
\* keys of the two tables: the template that a row names is there.
LEMMA LinksExistStep == Shape /\ LinksExist /\ [Next]_vars => LinksExist'
<1> SUFFICES ASSUME Shape, LinksExist, [Next]_vars, NEW y \in Owned, row'[y] \in Template
             PROVE  row'[row'[y]] # Absent
  BY DEF LinksExist, Live
<1> USE Parts
<1>0. row \in [Row -> Value] /\ \A v \in Override : row[v] \in {TemplateOf[v], Absent}
  BY DEF Shape, TypeOK
<1>00. Absent \notin Template \cup Name \cup {None} /\ None \notin Template
  BY ConstantsAssumption
<1>1. ASSUME NEW x \in Row, NEW w \in Value, Writes(x, w) PROVE row'[row'[y]] # Absent
  <2>1. w # Absent
    BY <1>1, <1>00, ConstantsAssumption DEF Writes, Fits, Link
  <2>2. \A z \in Row : row[z] # Absent => row'[z] # Absent
    BY <1>0, <1>1, <2>1 DEF Writes
  <2>3. row[row'[y]] # Absent
    <3>1. CASE y = x
      BY <1>0, <1>00, <1>1, <3>1 DEF Writes, Admitted, LiveTemplate, Live
    <3>2. CASE y # x
      BY <1>0, <1>1, <3>2 DEF Writes, LinksExist, Live
    <3>3. QED
      BY <3>1, <3>2
  <2>4. QED
    BY <2>2, <2>3
<1>2. ASSUME NEW x \in Row, Removes(x) PROVE row'[row'[y]] # Absent
  <2>1. row'[y] = row[y] /\ row[y] # x
    BY <1>0, <1>00, <1>2 DEF Removes
  <2>2. row[row[y]] # Absent /\ row[y] \in Template /\ row[y] \in Row
    BY <2>1 DEF LinksExist, Live
  <2>3. row'[row[y]] = row[row[y]]
    BY <1>2, <2>1, <2>2 DEF Removes
  <2>4. QED
    BY <2>1, <2>2, <2>3
<1>3. QED
  BY <1>1, <1>2, RowSteps DEF LinksExist, Live

\* The index of the overrides.
OneEach == \A v \in Override : Live(v) => Equal(v) = {v}

LEMMA OneEachStep == Shape /\ OneEach /\ [Next]_vars => OneEach'
<1> SUFFICES ASSUME Shape, OneEach, [Next]_vars, NEW v \in Override, NEW u \in Override,
                    row'[v] # Absent, row'[u] # Absent,
                    OrgOf[u] = OrgOf[v], TemplateOf[u] = TemplateOf[v]
             PROVE  u = v
  BY DEF OneEach, Equal, Live
<1> USE Parts
<1>0. row \in [Row -> Value]
  BY DEF Shape, TypeOK
<1>1. CASE row[v] # Absent /\ row[u] # Absent
  BY <1>1 DEF OneEach, Equal, Live
<1>2. ASSUME NEW x \in Row, NEW w \in Value, Writes(x, w) PROVE u = v
  <2>1. x \in Override => Equal(x) \subseteq {x}
    BY <1>2 DEF Writes, Admitted
  <2>2. \A z \in Row : z # x => row'[z] = row[z]
    BY <1>0, <1>2 DEF Writes
  <2>3. CASE v = x
    BY <2>1, <2>2, <2>3 DEF Equal, Live
  <2>4. CASE u = x
    BY <2>1, <2>2, <2>4 DEF Equal, Live
  <2>5. QED
    BY <1>1, <2>2, <2>3, <2>4
<1>3. ASSUME NEW x \in Row, Removes(x) PROVE u = v
  <2>1. row'[v] = row[v] /\ row'[u] = row[u]
    BY <1>3 DEF Removes
  <2>2. QED
    BY <2>1, <1>1
<1>4. QED
  BY <1>1, <1>2, <1>3, RowSteps

LEMMA RowsSound == Spec => [](Shape /\ LinksExist /\ OneEach)
<1>1. Init => LinksExist /\ OneEach
  BY ConstantsAssumption, Parts DEF Init, InitWithout, LinksExist, OneEach, Live
<1>2. QED
  BY <1>1, ShapeInit, ShapeStep, LinksExistStep, OneEachStep, PTL DEF Spec

\* The foreign keys FK_rules_template and FK_template_overrides_template under
\* every interleaving of saves and removals: no row names a template that is gone.
THEOREM LinksAlwaysExist == Spec => []LinksExist
BY RowsSound, PTL

\* TemplateOverridesService.create and update: one override of a template for
\* each organization, also where the answer to an INSERT was lost.
THEOREM OneOverrideEach == Spec => []OneOverride
<1>1. Shape /\ OneEach => OneOverride
  BY DEF OneEach, OneOverride
<1>2. QED
  BY <1>1, RowsSound, PTL

-----------------------------------------------------------------------------
(* What is removed stays away *)

\* A row was there or had been caught by its removal if a PATCH is open on it.
Caught == \A x \in removed : Live(x) \/ OpenOn(x) # {} => x \in caught

\* A PATCH is open on a row that it found, and on no other.
LEMMA Opens ==
    ASSUME Shape, [Next]_vars, NEW x \in Row, OpenOn(x)' # {}
    PROVE  OpenOn(x) # {} \/ (Live(x) /\ UNCHANGED <<row, gone>>)
<1> USE Parts DEF Shape
<1>1. PICK p \in Patch : pc'[p] \in Saving /\ copy'[p].id = x
  BY DEF OpenOn, Saving
<1>2. ASSUME NEW o \in Op, NEW a \in Answers, Answer(o, a) PROVE OpenOn(x) # {}
  <2>1. p # o
    BY <1>1, <1>2, Answering DEF Saving
  <2>2. pc[p] = pc'[p] /\ copy[p] = copy'[p]
    BY <1>2, <2>1, Answering
  <2>3. QED
    BY <1>1, <2>2 DEF OpenOn, Saving
<1>3. ASSUME NEW o \in Op \ Patch, NEW l \in Pcs, Goto(o, l), copy'[p] = copy[p]
      PROVE  OpenOn(x) # {}
  <2>1. pc'[p] = pc[p]
    BY <1>3 DEF Goto, TypeOK
  <2>2. QED
    BY <1>1, <1>3, <2>1 DEF OpenOn, Saving
<1>4. ASSUME NEW v \in Override, PostStep(v) PROVE OpenOn(x) # {}
  <2>1. v \in Op \ Patch
    OBVIOUS
  <2>2. \/ \E a \in Answers : Answer(v, a)
        \/ \E l \in Pcs : Goto(v, l) /\ UNCHANGED copy
    BY <1>4 DEF PostStep, PostRow, PostOverride, SearchOverride, InsertOverride, Written, Errs, Refused, Answers, Pcs
  <2>3. QED
    BY <2>1, <2>2, <1>2, <1>3
<1>5. ASSUME NEW y \in Row, PostRow(y) PROVE OpenOn(x) # {}
  BY <1>5, <1>2 DEF PostRow, Written, Errs, Refused, Answers
<1>6. ASSUME NEW q \in Patch, PatchFind(q) PROVE OpenOn(x) # {} \/ (Live(x) /\ UNCHANGED <<row, gone>>)
  <2>0. PICK y \in Row : \E w \in Asked(y) : FindsIn(q, y, w)
    BY <1>6 DEF PatchFind, FindsIn, Found
  <2>1. PICK w \in Asked(y) : FindsIn(q, y, w)
    BY <2>0
  <2>2. UNCHANGED <<row, gone>> /\ pc' = [pc EXCEPT ![q] = "reload"]
    BY <1>6 DEF PatchFind, Goto
  <2>3. CASE p = q
    <3>1. copy'[p] = Found(y, w)
      BY <2>1, <2>3 DEF FindsIn, TypeOK
    <3>2. y = x
      BY <3>1, <1>1 DEF Found
    <3>3. QED
      BY <2>1, <2>2, <3>2 DEF FindsIn, Visible
  <2>4. CASE p # q
    <3>1. pc'[p] = pc[p] /\ copy'[p] = copy[p]
      BY <2>1, <2>2, <2>4 DEF FindsIn, TypeOK
    <3>2. QED
      BY <1>1, <3>1 DEF OpenOn, Saving
  <2>5. QED
    BY <2>3, <2>4
<1>7. ASSUME NEW q \in Patch, PatchReload(q) PROVE OpenOn(x) # {}
  <2>1. UNCHANGED copy /\ pc[q] = "reload" /\ \E l \in Pcs : Goto(q, l)
    BY <1>7 DEF PatchReload, Pcs
  <2>2. pc[p] \in Saving
    BY <1>1, <2>1 DEF Goto, TypeOK, Saving
  <2>3. QED
    BY <1>1, <2>1, <2>2 DEF OpenOn, Saving
<1>8. ASSUME NEW q \in Patch, PatchUpdate(q) \/ PatchInsert(q) PROVE OpenOn(x) # {}
  <2>1. \E a \in Answers : Answer(q, a)
    BY <1>8 DEF PatchUpdate, PatchInsert, Written, Errs, Refused, Answers
  <2>2. QED
    BY <2>1, <1>2
<1>9. ASSUME NEW d \in Delete, DeleteFind(d) PROVE OpenOn(x) # {}
  <2>1. p # d /\ d \in Op \ Patch
    OBVIOUS
  <2>2. copy'[p] = copy[p] /\ Goto(d, "delete")
    BY <1>9, <2>1 DEF DeleteFind, TypeOK
  <2>3. QED
    BY <2>1, <2>2, <1>3 DEF Pcs
<1>10. ASSUME NEW d \in Delete, DeleteRow(d) PROVE OpenOn(x) # {}
  BY <1>10, <1>2 DEF DeleteRow, Written, Errs, Answers
<1>11. ASSUME NEW o \in Op, Fails(o) \/ (o \in Request /\ NotFound(o)) PROVE OpenOn(x) # {}
  BY <1>11, <1>2 DEF Fails, Errs, NotFound, Answers
<1>12. CASE UNCHANGED vars
  BY <1>12 DEF vars, OpenOn
<1>13. QED
  BY <1>4, <1>5, <1>6, <1>7, <1>8, <1>9, <1>10, <1>11, <1>12
  DEF Next, PostStep, PatchStep, DeleteStep

\* What a step takes away and what it brings back.
LEMMA Removals ==
    ASSUME Shape, [Next]_vars
    PROVE  \/ /\ UNCHANGED gone
              /\ \A x \in removed : Live(x)' => Live(x) \/ OpenOn(x) # {}
           \/ /\ \A x \in Row : x \in removed' => x \in removed \/ (Live(x) /\ ~Live(x)')
              /\ \A x \in Row : Live(x) /\ ~Live(x)' /\ OpenOn(x) # {} => x \in caught'
              /\ caught \subseteq caught' /\ removed \subseteq Row
              /\ \A x \in Row : Live(x)' => Live(x)
<1> USE Parts DEF Shape
<1>0. TypeOK /\ \A x \in removed : pc[x] = "done"
  BY DEF WasPosted, Was, TypeOK
<1>1. ASSUME NEW x \in Row, PostRow(x) \/ (x \in Override /\ InsertOverride(x))
      PROVE  UNCHANGED gone /\ \A y \in removed : Live(y)' => Live(y)
  <2>1. x \notin removed /\ UNCHANGED gone
    BY <1>0, <1>1 DEF PostRow, InsertOverride
  <2>2. UNCHANGED row \/ \E w : row' = [row EXCEPT ![x] = w]
    BY <1>1 DEF PostRow, InsertOverride, Refused
  <2>3. \A y \in Row \ {x} : row'[y] = row[y]
    BY <2>2, <1>0 DEF TypeOK
  <2>4. QED
    BY <2>1, <2>3, <1>0 DEF TypeOK, Live
<1>2. ASSUME NEW p \in Patch, PatchUpdate(p) \/ PatchInsert(p)
      PROVE  UNCHANGED gone /\ \A y \in removed : Live(y)' => Live(y) \/ OpenOn(y) # {}
  <2>1. UNCHANGED gone
    BY <1>2 DEF PatchUpdate, PatchInsert
  <2>2. UNCHANGED row \/ \E w : row' = [row EXCEPT ![copy[p].id] = w]
    BY <1>2 DEF PatchUpdate, PatchInsert, Refused
  <2>3. p \in OpenOn(copy[p].id)
    BY <1>2 DEF PatchUpdate, PatchInsert, OpenOn
  <2>4. \A y \in Row : y # copy[p].id => row'[y] = row[y]
    BY <2>2, <1>0 DEF TypeOK
  <2>5. QED
    BY <2>1, <2>3, <2>4, <1>0 DEF TypeOK, Live
<1>3. ASSUME NEW d \in Delete, DeleteRow(d)
      PROVE  /\ \A x \in Row : x \in removed' => x \in removed \/ (Live(x) /\ ~Live(x)')
             /\ \A x \in Row : Live(x) /\ ~Live(x)' /\ OpenOn(x) # {} => x \in caught'
             /\ caught \subseteq caught' /\ removed \subseteq Row
             /\ \A x \in Row : Live(x)' => Live(x)
  <2>1. copy[d].id \in Row /\ Absent \notin Row
    BY <1>3, <1>0, ConstantsAssumption DEF DeleteRow, TypeOK
  <2>2. \A x \in Row : Live(x)' => Live(x)
    BY <1>3, <2>1 DEF DeleteRow, Live
  <2>3. QED
    BY <1>3, <1>0, <2>2 DEF DeleteRow, Live, TypeOK
<1>4. CASE UNCHANGED <<row, gone>>
  BY <1>4, <1>0 DEF Live
<1>5. QED
  BY <1>1, <1>2, <1>3, <1>4
  DEF Next, PostStep, PatchStep, DeleteStep, PostOverride, SearchOverride, PatchFind,
      PatchReload, DeleteFind, NotFound, Fails, vars

LEMMA CaughtStep == Shape /\ Caught /\ [Next]_vars => Caught'
<1> SUFFICES ASSUME Shape, Caught, [Next]_vars, NEW x \in removed',
                    Live(x)' \/ OpenOn(x)' # {}
             PROVE  x \in caught'
  BY DEF Caught
<1>0. removed \subseteq Row
  BY DEF Shape, TypeOK
<1>1. CASE /\ UNCHANGED gone
           /\ \A y \in removed : Live(y)' => Live(y) \/ OpenOn(y) # {}
  <2>1. x \in removed /\ x \in Row /\ caught' = caught
    BY <1>0, <1>1 DEF gone
  <2>2. Live(x) \/ OpenOn(x) # {}
    BY <1>1, <2>1, Opens
  <2>3. QED
    BY <2>1, <2>2 DEF Caught
<1>2. CASE /\ \A y \in Row : y \in removed' => y \in removed \/ (Live(y) /\ ~Live(y)')
           /\ \A y \in Row : Live(y) /\ ~Live(y)' /\ OpenOn(y) # {} => y \in caught'
           /\ caught \subseteq caught' /\ removed \subseteq Row
           /\ \A y \in Row : Live(y)' => Live(y)
  <2>1. x \in Row
    BY ShapeStep DEF Shape, TypeOK
  <2>2. Live(x) \/ OpenOn(x) # {}
    BY <1>2, <2>1, Opens
  <2>3. CASE Live(x) /\ ~Live(x)'
    <3>1. OpenOn(x) # {}
      BY <2>1, <2>3, Opens DEF Live
    <3>2. QED
      BY <1>2, <2>1, <2>3, <3>1
  <2>4. CASE x \in removed
    BY <1>2, <2>2, <2>4 DEF Caught
  <2>5. QED
    BY <1>2, <2>1, <2>3, <2>4
<1>3. QED
  BY <1>1, <1>2, Removals

\* RulesService.remove beside update, and the like: what was removed comes back by
\* a save that was under way only.
THEOREM Gone == Spec => []GoneStaysGone
<1>1. Init => Caught
  BY DEF Init, InitWithout, Caught
<1>2. Caught => GoneStaysGone
  BY DEF Caught, GoneStaysGone
<1>3. QED
  BY <1>1, <1>2, CaughtStep, Shaped, PTL DEF Spec

-----------------------------------------------------------------------------
\* The four services name the organization in every WHERE: a rule or override
\* changes with a request of its own organization, or with a removed template.
THEOREM TenantsApart == Spec => TenantsAreApart
<1> DEFINE Theirs(x) ==
        \/ \E o \in Owned \cup Request : /\ OrgOf[o] = OrgOf[x]
                                         /\ pc[o] # "done" /\ pc'[o] = "done"
        \/ \E t \in Template : Live(t) /\ row'[t] = Absent
<1>1. Shape /\ LinksExist /\ [Next]_vars => \A x \in Owned : row'[x] # row[x] => Theirs(x)
  <2> SUFFICES ASSUME Shape, LinksExist, [Next]_vars, NEW x \in Owned, row'[x] # row[x]
               PROVE  Theirs(x)
    OBVIOUS
  <2> USE Parts
  <2>0. TypeOK /\ Holds
    BY DEF Shape
  <2>1. ASSUME NEW o \in Op, NEW a \in Answers, Answer(o, a) PROVE pc'[o] = "done"
    BY <2>0, <2>1, Answering
  <2>2. ASSUME NEW y \in Row, PostRow(y) \/ (y \in Override /\ InsertOverride(y)) PROVE Theirs(x)
    <3>1. \E w : row' = [row EXCEPT ![y] = w]
      BY <2>2 DEF PostRow, InsertOverride, Refused
    <3>2. y = x
      BY <2>0, <3>1 DEF TypeOK
    <3>3. pc[y] # "done" /\ pc'[y] = "done"
      BY <2>1, <2>2 DEF PostRow, InsertOverride, Written, Errs, Refused, Answers
    <3>4. QED
      BY <3>2, <3>3
  <2>3. ASSUME NEW p \in Patch, PatchUpdate(p) \/ PatchInsert(p) PROVE Theirs(x)
    <3>1. \E w : row' = [row EXCEPT ![copy[p].id] = w]
      BY <2>3 DEF PatchUpdate, PatchInsert, Refused
    <3>2. copy[p].id = x
      BY <2>0, <3>1 DEF TypeOK
    <3>3. pc[p] # "done" /\ pc'[p] = "done"
      BY <2>1, <2>3 DEF PatchUpdate, PatchInsert, Written, Errs, Refused, Answers
    <3>4. OrgOf[x] = OrgOf[p]
      BY <2>0, <2>3, <3>2 DEF PatchUpdate, PatchInsert, Holds, Saving
    <3>5. QED
      BY <3>3, <3>4
  <2>4. ASSUME NEW d \in Delete, DeleteRow(d) PROVE Theirs(x)
    <3>1. Removes(copy[d].id) /\ pc[d] = "delete"
      BY <2>4 DEF DeleteRow, Removes
    <3>2. pc[d] # "done" /\ pc'[d] = "done"
      BY <2>1, <2>4 DEF DeleteRow, Written, Errs, Answers
    <3>3. CASE x = copy[d].id
      <4>1. OrgOf[x] = OrgOf[d]
        BY <2>0, <3>1, <3>3 DEF Holds
      <4>2. QED
        BY <3>2, <4>1
    <3>4. CASE x # copy[d].id
      <4>1. copy[d].id \in Row /\ Absent \notin Row
        BY <2>0, <3>1, ConstantsAssumption DEF TypeOK
      <4>2. row[x] = copy[d].id /\ copy[d].id \in Template
        <5>1. CASE x \in Rule
          <6>1. row[x] = copy[d].id /\ row'[x] = None /\ row[x] # None
            BY <3>1, <3>4, <5>1 DEF Removes
          <6>2. row[x] \in Template
            BY <2>0, <4>1, <5>1, <6>1 DEF TypeOK, Link
          <6>3. QED
            BY <6>1, <6>2
        <5>2. CASE x \in Override
          <6>1. TemplateOf[x] = copy[d].id
            BY <3>1, <3>4, <5>2 DEF Removes
          <6>2. row[x] # Absent
            BY <3>1, <5>2, <6>1 DEF Removes
          <6>3. QED
            BY <2>0, <5>2, <6>1, <6>2, ConstantsAssumption DEF TypeOK
        <5>3. QED
          BY <5>1, <5>2
      <4>3. Live(copy[d].id)
        BY <4>2 DEF LinksExist
      <4>4. row'[copy[d].id] = Absent
        BY <3>1, <4>1 DEF Removes
      <4>5. QED
        BY <4>2, <4>3, <4>4
    <3>5. QED
      BY <3>3, <3>4
  <2>5. ~ UNCHANGED row
    OBVIOUS
  <2>6. QED
    BY <2>2, <2>3, <2>4, <2>5
    DEF Next, PostStep, PatchStep, DeleteStep, PostOverride, SearchOverride, PatchFind,
        PatchReload, DeleteFind, NotFound, Fails, vars
<1>2. Shape /\ LinksExist /\ [Next]_vars =>
        [\A x \in Owned : row'[x] # row[x] => Theirs(x)]_vars
  BY <1>1
<1>3. QED
  BY <1>2, RowsSound, PTL DEF Spec, TenantsAreApart

-----------------------------------------------------------------------------
(* Creating an override is one step *)

LEMMA Slots == \A v \in Override : Equal(v) = {} <=> R!Free(v)
BY DEF Equal, R!Free, Live

LEMMA SlotReply ==
    ASSUME Shape, NEW v \in Override, pc[v] # "done", NEW a \in Answers, Answer(v, a)
    PROVE  R!Answer(v, ReplyOf[a])
<1> USE Parts DEF Shape
<1> DEFINE old == [u \in Override |-> ReplyOf[answer[u]]]
           new == [u \in Override |-> ReplyOf[answer'[u]]]
<1>1. answer[v] = "none" /\ v \in Op
  BY DEF AnsweredOnce
<1>2. answer'[v] = a /\ \A u \in Override \ {v} : answer'[u] = answer[u]
  BY <1>1, Answering
<1>3. old[v] = "none"
  BY <1>1 DEF ReplyOf
<1>4. new = [old EXCEPT ![v] = ReplyOf[a]]
  BY <1>2
<1>5. QED
  BY <1>3, <1>4 DEF R!Answer

\* A step that answers no override and only takes overrides away, or none.
LEMMA SlotQuiet ==
    ASSUME \A v \in Override : answer'[v] = answer[v],
           \A v \in Override : Live(v)' => Live(v),
           \A v \in Override : Was(v)' <=> Was(v)
    PROVE  R!Next
BY DEF R!Next, R!Drop, Live, Was

\* A step that writes override v, and no other.
LEMMA SlotWrite ==
    ASSUME Shape, NEW v \in Override, Admitted(v, TemplateOf[v]), ~Live(v),
           row' = [row EXCEPT ![v] = TemplateOf[v]], UNCHANGED removed
    PROVE  R!Insert(v)
<1> DEFINE held == {u \in Override : Live(u)}
           ever == {u \in Override : Live(u) \/ u \in removed}
<1>1. TemplateOf[v] # Absent
  BY Parts, ConstantsAssumption
<1>2. held' = held \cup {v} /\ ever' = ever \cup {v}
  BY <1>1, Parts DEF Live, Shape, TypeOK
<1>3. Equal(v) = {}
  BY Parts, ConstantsAssumption DEF Admitted, Equal
<1>4. QED
  BY <1>2, <1>3, Slots DEF R!Insert

\* TemplateOverridesService.create: its three queries are as good as one step.
THEOREM OverridesAreAtomic == Spec => OverridesAtOnce
<1>1. Init => R!Init
  <2> SUFFICES ASSUME Init PROVE R!Init
    OBVIOUS
  <2>1. \A v \in Override : ~Live(v) /\ answer[v] = "none"
    BY Parts, ConstantsAssumption DEF Init, InitWithout, Live
  <2>2. removed = {}
    BY DEF Init, InitWithout
  <2>3. QED
    BY <2>1, <2>2 DEF R!Init, ReplyOf
<1>2. Shape /\ [Next]_vars => [R!Next]_(R!vars)
  <2> SUFFICES ASSUME Shape, [Next]_vars PROVE R!Next \/ UNCHANGED R!vars
    OBVIOUS
  <2> USE Parts
  <2>0. TypeOK
    BY DEF Shape
  <2> DEFINE held == {v \in Override : Live(v)}
             ever == {v \in Override : Live(v) \/ v \in removed}
  <2>1. ASSUME NEW o \in Op \ Override, NEW a \in Answers, Answer(o, a)
        PROVE  \A v \in Override : answer'[v] = answer[v]
    BY <2>0, <2>1, Answering
  <2>2. ASSUME NEW x \in Row \ Override, PostRow(x) PROVE R!Next
    <3>1. UNCHANGED row \/ \E w : row' = [row EXCEPT ![x] = w]
      BY <2>2 DEF PostRow, Refused
    <3>2. \A v \in Override : row'[v] = row[v]
      BY <3>1, <2>0 DEF TypeOK
    <3>3. QED
      BY <2>1, <2>2, <3>2, SlotQuiet DEF PostRow, Written, Errs, Refused, Answers, Live, Was, gone
  <2>3. ASSUME NEW v \in Override, PostRow(v) PROVE FALSE
    BY <2>3, ConstantsAssumption DEF PostRow
  <2>4. ASSUME NEW v \in Override, PostOverride(v) \/ SearchOverride(v)
        PROVE  R!Next \/ UNCHANGED R!vars
    <3>1. CASE UNCHANGED answer
      BY <2>4, <3>1, SlotQuiet DEF PostOverride, SearchOverride, Live, Was, gone
    <3>2. CASE PostOverride(v) /\ Answer(v, "notfound")
      <4>1. R!Answer(v, "error")
        BY <3>2, SlotReply DEF PostOverride, Answers, ReplyOf
      <4>2. UNCHANGED <<held, ever>>
        BY <3>2 DEF PostOverride, Live, gone
      <4>3. QED
        BY <4>1, <4>2 DEF R!Next, R!Fail
    <3>3. CASE SearchOverride(v) /\ Equal(v) # {} /\ Answer(v, "conflict")
      <4>1. R!Answer(v, "refused")
        BY <3>3, SlotReply DEF SearchOverride, Answers, ReplyOf
      <4>2. UNCHANGED <<held, ever>>
        BY <3>3 DEF SearchOverride, Live, gone
      <4>3. QED
        BY <3>3, <4>1, <4>2, Slots DEF R!Next, R!Refuse
    <3>4. QED
      BY <2>4, <3>1, <3>2, <3>3 DEF PostOverride, SearchOverride
  <2>5. ASSUME NEW v \in Override, InsertOverride(v) PROVE R!Next
    <3>0. ~Live(v)
      BY <2>5 DEF InsertOverride, Shape, WasPosted, Was
    <3>1. CASE Admitted(v, TemplateOf[v])
      <4>1. R!Answer(v, "taken") \/ R!Answer(v, "error")
        BY <2>5, <3>1, SlotReply DEF InsertOverride, Written, Errs, Answers, ReplyOf
      <4>2. R!Insert(v)
        BY <2>5, <3>0, <3>1, SlotWrite DEF InsertOverride, gone
      <4>3. QED
        BY <4>1, <4>2 DEF R!Next, R!Take, R!Fail
    <3>2. CASE ~Admitted(v, TemplateOf[v])
      <4>1. R!Answer(v, "error")
        BY <2>5, <3>2, SlotReply DEF InsertOverride, Refused, Answers, ReplyOf
      <4>2. UNCHANGED <<held, ever>>
        BY <2>5, <3>2 DEF InsertOverride, Refused, Live, gone
      <4>3. QED
        BY <4>1, <4>2 DEF R!Next, R!Fail
    <3>3. QED
      BY <3>1, <3>2
  <2>6. ASSUME NEW p \in Patch, PatchUpdate(p) PROVE R!Next
    <3> DEFINE x == copy[p].id
    <3>1. UNCHANGED row \/ (Live(x) /\ plan[p] # Absent /\ row' = [row EXCEPT ![x] = plan[p]])
      BY <2>6 DEF PatchUpdate, Refused
    <3>2. \A v \in Override : Live(v)' <=> Live(v)
      BY <2>0, <3>1 DEF Live, TypeOK
    <3>3. UNCHANGED removed
      BY <2>6 DEF PatchUpdate, gone
    <3>4. QED
      BY <2>1, <2>6, <3>2, <3>3, SlotQuiet DEF PatchUpdate, Written, Errs, Refused, Answers, Was
  <2>7. ASSUME NEW p \in Patch, PatchInsert(p) PROVE R!Next
    <3>1. (\A u \in Override : answer'[u] = answer[u]) /\ UNCHANGED removed
      BY <2>1, <2>7 DEF PatchInsert, Written, Errs, Refused, Answers, gone
    <3>2. ASSUME NEW v \in Override, v = copy[p].id, row' # row PROVE R!Next
      <4>1. ~Live(v) /\ Admitted(v, Saved(copy[p])) /\ row' = [row EXCEPT ![v] = Saved(copy[p])]
        BY <2>7, <3>2 DEF PatchInsert, Refused
      <4>2. Was(v) /\ Saved(copy[p]) = TemplateOf[v]
        BY <2>7, <3>2 DEF PatchInsert, Shape, Holds, Keeps, Fits, Saving
      <4>3. R!Insert(v)
        BY <3>1, <3>2, <4>1, <4>2, SlotWrite
      <4>4. R!Restore(v)
        BY <3>1, <3>2, <4>2, <4>3 DEF R!Restore, Was
      <4>5. QED
        BY <3>2, <4>4 DEF R!Next
    <3>3. CASE copy[p].id \notin Override \/ row' = row
      <4>1. \A u \in Override : row'[u] = row[u]
        BY <2>0, <2>7, <3>3 DEF PatchInsert, Refused, TypeOK
      <4>2. QED
        BY <3>1, <4>1, SlotQuiet DEF Live, Was
    <3>4. QED
      BY <3>2, <3>3
  <2>8. ASSUME NEW d \in Delete, DeleteRow(d) PROVE R!Next
    <3>1. \A v \in Override : Live(v)' => Live(v)
      BY <2>0, <2>8, ConstantsAssumption DEF DeleteRow, Live, TypeOK
    <3>2. \A v \in Override : Was(v)' <=> Was(v)
      BY <2>8, <3>1 DEF DeleteRow, Live, Was
    <3>3. QED
      BY <2>1, <2>8, <3>1, <3>2, SlotQuiet DEF DeleteRow, Written, Errs, Answers
  <2>9. ASSUME NEW o \in Op, Fails(o) PROVE R!Next
    <3>1. CASE o \in Override
      <4>1. R!Answer(o, "error")
        BY <2>9, <3>1, SlotReply DEF Fails, Errs, Answers, ReplyOf
      <4>2. UNCHANGED <<held, ever>>
        BY <2>9 DEF Fails, Live, gone
      <4>3. QED
        BY <3>1, <4>1, <4>2 DEF R!Next, R!Fail
    <3>2. CASE o \notin Override
      BY <2>1, <2>9, <3>2, SlotQuiet DEF Fails, Errs, Answers, Live, Was, gone
    <3>3. QED
      BY <3>1, <3>2
  <2>10. ASSUME NEW q \in Request, NotFound(q) PROVE R!Next
    BY <2>1, <2>10, SlotQuiet DEF NotFound, Answers, Live, Was, gone
  <2>11. CASE UNCHANGED <<row, answer, gone>>
    BY <2>11, SlotQuiet DEF Live, Was, gone
  <2>12. QED
    BY <2>2, <2>3, <2>4, <2>5, <2>6, <2>7, <2>8, <2>9, <2>10, <2>11
    DEF Next, PostStep, PatchStep, DeleteStep, PatchFind, PatchReload, DeleteFind, vars
<1>3. QED
  BY <1>1, <1>2, Shaped, PTL DEF Spec, OverridesAtOnce, R!Spec

-----------------------------------------------------------------------------
(* The link of a rule *)

\* On a rule whose PATCHes never overlapped at most one is open; it holds the
\* link the rule has, or the rule has lost it since, and it will not write it.
Linked ==
    \A r \in Rule \ overlapped :
        /\ \A p, q \in OpenOn(r) : p = q
        /\ \A p \in OpenOn(r) :
              /\ Live(r) /\ pc[p] \in {"reload", "update"} => row[r] \in {copy[p].loaded, None}
              /\ pc[p] = "update" /\ row[r] \in Template => plan[p] = Absent

LEMMA LinkedAnswer ==
    ASSUME Shape, Linked, NEW o \in Op, NEW a \in Answers, Answer(o, a), overlapped' = overlapped,
           \A r \in Rule : row'[r] # row[r] =>
              row'[r] \in {Absent, None} \/ pc[r] # "done" \/ o \in OpenOn(r)
    PROVE  Linked'
<1> USE Parts, ConstantsAssumption DEF Shape
<1> SUFFICES ASSUME NEW r \in Rule \ overlapped
             PROVE  /\ \A p, q \in OpenOn(r)' : p = q
                    /\ \A p \in OpenOn(r)' :
                          /\ row'[r] # Absent /\ pc'[p] \in {"reload", "update"} =>
                                row'[r] \in {copy'[p].loaded, None}
                          /\ pc'[p] = "update" /\ row'[r] \in Template => plan'[p] = Absent
  BY DEF Linked, Live
<1>1. ASSUME NEW p \in OpenOn(r)'
      PROVE  /\ p \in OpenOn(r) /\ p # o
             /\ pc'[p] = pc[p] /\ copy'[p] = copy[p] /\ plan'[p] = plan[p]
  <2>1. p \in Patch /\ pc'[p] # "done"
    BY <1>1 DEF OpenOn
  <2>2. p # o
    BY <2>1, Answering
  <2>3. pc'[p] = pc[p] /\ copy'[p] = copy[p] /\ plan'[p] = plan[p]
    BY <2>1, <2>2, Answering
  <2>4. QED
    BY <1>1, <2>2, <2>3 DEF OpenOn
<1>2. ASSUME NEW p \in OpenOn(r)'
      PROVE  row'[r] = row[r] \/ row'[r] \in {Absent, None}
  <2>1. pc[r] = "done"
    BY <1>1, <1>2 DEF OpenOn, Holds, WasPosted, Saving
  <2>2. o \notin OpenOn(r)
    BY <1>1, <1>2 DEF Linked
  <2>3. QED
    BY <2>1, <2>2
<1>3. \A p, q \in OpenOn(r)' : p = q
  BY <1>1 DEF Linked
<1>4. ASSUME NEW p \in OpenOn(r)'
      PROVE  /\ row'[r] # Absent /\ pc'[p] \in {"reload", "update"} =>
                   row'[r] \in {copy'[p].loaded, None}
             /\ pc'[p] = "update" /\ row'[r] \in Template => plan'[p] = Absent
  BY <1>1, <1>2, <1>4 DEF Linked, Live
<1>5. QED
  BY <1>3, <1>4

LEMMA LinkedStep == Shape /\ Linked /\ [Next]_vars => Linked'
<1> SUFFICES ASSUME Shape, Linked, [Next]_vars PROVE Linked'
  OBVIOUS
<1> USE Parts
<1>0. TypeOK
  BY DEF Shape
<1>1. ASSUME NEW x \in Row, PostRow(x) \/ (x \in Override /\ InsertOverride(x)) PROVE Linked'
  <2>1. \E a \in Answers : Answer(x, a)
    BY <1>1 DEF PostRow, InsertOverride, Written, Errs, Refused, Answers
  <2>2. UNCHANGED row \/ \E w : row' = [row EXCEPT ![x] = w]
    BY <1>1 DEF PostRow, InsertOverride, Refused
  <2>3. \A r \in Rule : row'[r] # row[r] => r = x
    BY <1>0, <2>2 DEF TypeOK
  <2>4. pc[x] # "done" /\ UNCHANGED overlapped
    BY <1>1 DEF PostRow, InsertOverride
  <2>5. QED
    BY <2>1, <2>3, <2>4, LinkedAnswer
<1>2. ASSUME NEW v \in Override, PostOverride(v) \/ SearchOverride(v) PROVE Linked'
  <2>1. UNCHANGED <<row, overlapped>>
    BY <1>2 DEF PostOverride, SearchOverride
  <2>2. CASE \E a \in Answers : Answer(v, a)
    BY <2>1, <2>2, LinkedAnswer
  <2>3. CASE UNCHANGED <<copy, plan>> /\ \E l \in Pcs : Goto(v, l)
    <3>1. \A p \in Patch : pc'[p] = pc[p]
      BY <1>0, <2>3 DEF Goto, TypeOK
    <3>2. QED
      BY <2>1, <2>3, <3>1 DEF Linked, OpenOn, Live
  <2>4. QED
    BY <1>2, <2>2, <2>3 DEF PostOverride, SearchOverride, Answers, Pcs
<1>3. ASSUME NEW p \in Patch, PatchFind(p) PROVE Linked'
  <2>0. PICK x \in Row : \E w \in Asked(x) : FindsIn(p, x, w)
    BY <1>3 DEF PatchFind, FindsIn, Found
  <2>1. PICK w \in Asked(x) : FindsIn(p, x, w)
    BY <2>0
  <2>2. /\ pc[p] = "idle" /\ pc'[p] = "reload" /\ copy'[p] = Found(x, w)
        /\ \A q \in Patch \ {p} : pc'[q] = pc[q] /\ copy'[q] = copy[q]
        /\ UNCHANGED <<row, plan>>
    BY <1>0, <1>3, <2>1 DEF PatchFind, Goto, FindsIn, TypeOK
  <2>3. \A r \in Rule \ overlapped' : r \notin overlapped /\ (r = x => OpenOn(r) = {})
    BY <2>1 DEF FindsIn
  <2>4. ASSUME NEW r \in Rule \ overlapped' , r # x PROVE OpenOn(r)' = OpenOn(r) /\ p \notin OpenOn(r)
    BY <2>2, <2>4 DEF OpenOn, Found
  <2>5. ASSUME NEW r \in Rule \ overlapped', r = x PROVE OpenOn(r)' = {p} /\ copy'[p].loaded = row[r]
    BY <2>2, <2>3, <2>5 DEF OpenOn, Found
  <2>6. ASSUME NEW r \in Rule \ overlapped'
        PROVE  /\ \A t, q \in OpenOn(r)' : t = q
               /\ \A q \in OpenOn(r)' :
                     /\ row'[r] # Absent /\ pc'[q] \in {"reload", "update"} =>
                           row'[r] \in {copy'[q].loaded, None}
                     /\ pc'[q] = "update" /\ row'[r] \in Template => plan'[q] = Absent
    <3>1. CASE r = x
      BY <2>2, <2>5, <3>1
    <3>2. CASE r # x
      <4>1. OpenOn(r)' = OpenOn(r) /\ p \notin OpenOn(r) /\ OpenOn(r) \subseteq Patch
        BY <2>4, <3>2 DEF OpenOn
      <4>2. QED
        BY <2>2, <2>3, <4>1 DEF Linked, Live
    <3>3. QED
      BY <3>1, <3>2
  <2>7. QED
    BY <2>6 DEF Linked, Live
<1>4. ASSUME NEW p \in Patch, PatchReload(p) PROVE Linked'
  <2>1. /\ pc[p] = "reload" /\ UNCHANGED <<row, copy, overlapped>>
        /\ pc'[p] \in {"update", "insert"}
        /\ \A q \in Patch \ {p} : pc'[q] = pc[q]
    BY <1>0, <1>4 DEF PatchReload, Goto, TypeOK
  <2>2. \A r \in Rule : OpenOn(r)' = OpenOn(r)
    BY <2>1 DEF OpenOn
  <2>3. \A q \in Patch \ {p} : plan'[q] = plan[q]
    BY <1>0, <1>4 DEF PatchReload, TypeOK
  <2>4. ASSUME NEW r \in Rule \ overlapped, p \in OpenOn(r), pc'[p] = "update",
               row[r] \in Template
        PROVE  plan'[p] = Absent
    <3>1. copy[p].id = r /\ Live(r)
      BY <2>4, ConstantsAssumption DEF OpenOn, Live
    <3>2. row[r] = copy[p].loaded /\ copy[p].loaded # None
      BY <2>1, <2>4, <3>1, ConstantsAssumption DEF Linked
    <3>3. plan' = [plan EXCEPT ![p] = Absent]
      BY <1>4, <3>1, <3>2 DEF PatchReload, Saved
    <3>4. QED
      BY <1>0, <3>3 DEF TypeOK
  <2>5. ASSUME NEW r \in Rule \ overlapped', NEW q \in OpenOn(r)'
        PROVE  /\ row'[r] # Absent /\ pc'[q] \in {"reload", "update"} =>
                     row'[r] \in {copy'[q].loaded, None}
               /\ pc'[q] = "update" /\ row'[r] \in Template => plan'[q] = Absent
    <3>1. r \notin overlapped /\ q \in OpenOn(r) /\ q \in Patch
      BY <2>1, <2>2, <2>5 DEF OpenOn
    <3>2. CASE q = p
      BY <2>1, <2>4, <3>1, <3>2 DEF Linked, Live
    <3>3. CASE q # p
      BY <2>1, <2>3, <3>1, <3>3 DEF Linked, Live
    <3>4. QED
      BY <3>2, <3>3
  <2>6. QED
    BY <2>1, <2>2, <2>5 DEF Linked, Live
<1>5. ASSUME NEW p \in Patch, PatchUpdate(p) \/ PatchInsert(p) PROVE Linked'
  <2>1. UNCHANGED overlapped /\ \E a \in Answers : Answer(p, a)
    BY <1>5 DEF PatchUpdate, PatchInsert, Written, Errs, Refused, Answers
  <2>2. UNCHANGED row \/ \E w : row' = [row EXCEPT ![copy[p].id] = w]
    BY <1>5 DEF PatchUpdate, PatchInsert, Refused
  <2>3. \A r \in Rule : row'[r] # row[r] => p \in OpenOn(r)
    BY <1>0, <1>5, <2>2 DEF TypeOK, OpenOn, PatchUpdate, PatchInsert, Refused
  <2>4. QED
    BY <2>1, <2>3, LinkedAnswer
<1>6. ASSUME NEW d \in Delete, DeleteFind(d) PROVE Linked'
  <2>1. /\ UNCHANGED <<row, plan, overlapped>>
        /\ \A q \in Patch : pc'[q] = pc[q] /\ copy'[q] = copy[q]
    BY <1>0, <1>6 DEF DeleteFind, Goto, TypeOK
  <2>2. QED
    BY <2>1 DEF Linked, OpenOn, Live
<1>7. ASSUME NEW d \in Delete, DeleteRow(d) PROVE Linked'
  <2>1. \A r \in Rule : row'[r] # row[r] => row'[r] \in {Absent, None}
    BY <1>7 DEF DeleteRow
  <2>2. UNCHANGED overlapped /\ \E a \in Answers : Answer(d, a)
    BY <1>7 DEF DeleteRow, Written, Errs, Answers
  <2>3. QED
    BY <2>1, <2>2, LinkedAnswer
<1>8. ASSUME NEW o \in Op, Fails(o) \/ (o \in Request /\ NotFound(o)) PROVE Linked'
  BY <1>8, LinkedAnswer DEF Fails, Errs, NotFound, Answers
<1>9. CASE UNCHANGED vars
  BY <1>9 DEF vars, Linked, OpenOn, Live
<1>10. QED
  BY <1>1, <1>2, <1>3, <1>4, <1>5, <1>6, <1>7, <1>8, <1>9
  DEF Next, PostStep, PatchStep, DeleteStep

\* RulesService.update: no PATCH of a rule, alone, moves it from a template to
\* another or unlinks it, whatever idTemplate its body names.
THEOREM LinksStay == Spec => LinkStays
<1> DEFINE Stays(r) == row'[row[r]] = Absent \/ r \in overlapped
<1>1. Init => Linked
  BY Parts DEF Init, InitWithout, Linked, OpenOn
<1>2. Shape /\ Linked /\ [Next]_vars =>
        \A r \in Rule : row[r] \in Template /\ row'[r] \notin {row[r], Absent} => Stays(r)
  <2> SUFFICES ASSUME Shape, Linked, [Next]_vars, NEW r \in Rule \ overlapped,
                      row[r] \in Template, row'[r] \notin {row[r], Absent}
               PROVE  row'[row[r]] = Absent
    OBVIOUS
  <2> USE Parts
  <2>0. TypeOK /\ Live(r) /\ pc[r] = "done" /\ ~ UNCHANGED row
    BY ConstantsAssumption DEF Shape, WasPosted, Was, Live
  <2>1. ASSUME NEW x \in Row, PostRow(x) \/ (x \in Override /\ InsertOverride(x)) PROVE FALSE
    <3>1. pc[x] # "done" /\ \E w : row' = [row EXCEPT ![x] = w]
      BY <2>0, <2>1 DEF PostRow, InsertOverride, Refused
    <3>2. QED
      BY <2>0, <3>1 DEF TypeOK
  <2>2. ASSUME NEW p \in Patch, PatchUpdate(p) \/ PatchInsert(p) PROVE FALSE
    <3>1. \E w : row' = [row EXCEPT ![copy[p].id] = w]
      BY <2>0, <2>2 DEF PatchUpdate, PatchInsert, Refused
    <3>2. copy[p].id = r
      BY <2>0, <3>1 DEF TypeOK
    <3>3. CASE PatchUpdate(p)
      <4>1. pc[p] = "update" /\ p \in OpenOn(r)
        BY <3>2, <3>3 DEF PatchUpdate, OpenOn
      <4>2. plan[p] = Absent
        BY <4>1 DEF Linked
      <4>3. QED
        BY <2>0, <3>3, <4>2 DEF PatchUpdate
    <3>4. CASE PatchInsert(p)
      BY <2>0, <3>2, <3>4 DEF PatchInsert, Refused
    <3>5. QED
      BY <2>2, <3>3, <3>4
  <2>3. ASSUME NEW d \in Delete, DeleteRow(d) PROVE row'[row[r]] = Absent
    <3>1. Removes(copy[d].id)
      BY <2>3 DEF DeleteRow, Removes
    <3>2. row[r] = copy[d].id
      BY <3>1 DEF Removes
    <3>3. QED
      BY <3>1, <3>2 DEF Removes
  <2>4. QED
    BY <2>0, <2>1, <2>2, <2>3
    DEF Next, PostStep, PatchStep, DeleteStep, PostOverride, SearchOverride, PatchFind,
        PatchReload, DeleteFind, NotFound, Fails, vars
<1>3. Shape /\ Linked /\ [Next]_vars =>
        [\A r \in Rule : row[r] \in Template /\ row'[r] \notin {row[r], Absent} => Stays(r)]_vars
  BY <1>2
<1>4. QED
  BY <1>1, <1>3, LinkedStep, Shaped, PTL DEF Spec, LinkStays
=============================================================================
