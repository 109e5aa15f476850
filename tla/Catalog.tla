------------------------------- MODULE Catalog -------------------------------
(***************************************************************************)
(* The tables of rules, rule templates, template overrides and             *)
(* organizations under concurrent requests: their four services, unique    *)
(* indexes and foreign keys. A rule may be linked to a template; an        *)
(* override adapts a template for an organization. Templates belong to     *)
(* nobody, and nothing refers to an organization by a foreign key here.    *)
(*                                                                         *)
(* The services update and remove alike: findOne, then save() or           *)
(* remove() of the entity. save() SELECTs the row first, and INSERTs the   *)
(* entity with its old id when there is none. findOne loads the template   *)
(* of a rule as an object; as long as there is one in memory, save() takes *)
(* the link from it and not from idTemplate, the column of the body.       *)
(***************************************************************************)
EXTENDS Naturals, FiniteSets

CONSTANTS
    Org,            \* rows of the four tables, each named by the POST that
    Rule,           \*   inserts it, or there from the start
    Override,
    Template,
    Tenant,         \* ids that requests name as their organization, unchecked
    Initial,        \* those that are there from the start
    Name,           \* names of templates and organizations
    FirstName,      \* the name of each that is there from the start
    TemplateOf,     \* the template each override is for
    Patch,          \* PATCH requests
    Delete,         \* DELETE requests
    OrgOf,          \* the organization of each rule, override and request
    None,           \* no template
    Absent,         \* no row
    MaxFailures     \* bound: failing queries, lost answers, dying processes

Owned == Rule \cup Override
Named == Template \cup Org
Row == Owned \cup Named
Request == Patch \cup Delete
Op == Row \cup Request

ASSUME ConstantsAssumption ==
    /\ Rule \cap Override = {} /\ Template \cap Org = {} /\ Owned \cap Named = {}
    /\ Patch \cap Delete = {} /\ Row \cap Request = {}
    /\ Initial \subseteq Rule \cup Named
    /\ FirstName \in [Named -> Name]
    /\ \A s, t \in Template \cap Initial : FirstName[s] = FirstName[t] => s = t
    /\ TemplateOf \in [Override -> Template]
    /\ OrgOf \in [Owned \cup Request -> Tenant]
    /\ None \notin Template /\ Absent \notin Row \cup Name \cup {None}
    /\ MaxFailures \in Nat

VARIABLES
    row,        \* a rule's link, an override's template, the name of others
    pc,         \* where each request is
    answer,     \* what it was answered
    copy,       \* the entity a PATCH or DELETE holds
    plan,       \* the value the UPDATE of a PATCH will write, if any
    removed,    \* ghost: rows a DELETE or a cascade took away
    caught,     \* ghost: those that a PATCH was about to save at that moment
    overlapped, \* ghost: rows on which two PATCHes were ever open at once
    failures

gone == <<removed, caught>>
vars == <<row, pc, answer, copy, plan, gone, overlapped, failures>>

-----------------------------------------------------------------------------
Live(x) == row[x] # Absent
LiveTemplate(t) == t = None \/ (t \in Template /\ Live(t))

\* The equal overrides that the unique index and the search of create() find.
Equal(v) == {w \in Override : /\ Live(w) /\ OrgOf[w] = OrgOf[v]
                              /\ TemplateOf[w] = TemplateOf[v]}

NameTaken(t, n) == \E s \in Template \ {t} : row[s] = n

\* Whether the foreign keys and unique indexes admit value w in row x.
Admitted(x, w) ==
    \/ x \in Rule /\ LiveTemplate(w)
    \/ x \in Override /\ LiveTemplate(w) /\ Equal(x) \subseteq {x}
    \/ x \in Template /\ ~NameTaken(x, w)
    \/ x \in Org

\* What the WHERE of findOne selects: rules and overrides by organization too.
Visible(q, x) == Live(x) /\ (x \in Owned => OrgOf[x] = OrgOf[q])

Goto(o, l) == pc' = [pc EXCEPT ![o] = l]

NoEntity == [id |-> None, loaded |-> None, value |-> None]

\* The request is answered, and forgets what it held.
Answer(o, a) ==
    /\ Goto(o, "done")
    /\ answer' = [answer EXCEPT ![o] = a]
    /\ copy' = [q \in Request |-> IF q = o THEN NoEntity ELSE copy[q]]
    /\ plan' = [p \in Patch |-> IF p = o THEN Absent ELSE plan[p]]

\* A query throws, or its answer is lost with the connection or the process.
Errs(o) ==
    /\ failures < MaxFailures
    /\ failures' = failures + 1
    /\ Answer(o, "error")

\* The end of a request whose write the database carried out: it is answered ok,
\* or never hears of it.
Written(o) == (Answer(o, "ok") /\ UNCHANGED failures) \/ Errs(o)

\* The end of one whose write a key or an index refused.
Refused(o) == UNCHANGED <<row, failures>> /\ Answer(o, "error")

\* The PATCHes between their findOne and the end of their save.
OpenOn(x) == {p \in Patch : pc[p] \in {"reload", "update", "insert"} /\ copy[p].id = x}

\* The start of a run in which the requests of out are not sent.
InitWithout(out) ==
    /\ row = [x \in Row |-> IF x \notin Initial THEN Absent
                            ELSE IF x \in Named THEN FirstName[x] ELSE None]
    /\ pc = [o \in Op |-> IF o \in Initial \cup out THEN "done" ELSE "idle"]
    /\ answer = [o \in Op |-> IF o \in Initial THEN "ok" ELSE "none"]
    /\ copy = [q \in Request |-> NoEntity]
    /\ plan = [p \in Patch |-> Absent]
    /\ removed = {}
    /\ caught = {}
    /\ overlapped = {}

Init == InitWithout({}) /\ failures = 0

-----------------------------------------------------------------------------
(* create *)

\* create() of rules, templates and organizations: one INSERT, which the foreign
\* key to the template, or the unique name of a template, may refuse.
PostRow(x) ==
    /\ x \in Rule \cup Named
    /\ pc[x] = "idle"
    /\ \E w \in IF x \in Rule THEN Template \cup {None} ELSE Name :
          IF Admitted(x, w)
          THEN row' = [row EXCEPT ![x] = w] /\ Written(x)
          ELSE Refused(x)
    /\ UNCHANGED <<gone, overlapped>>

\* TemplateOverridesService.create, first query: the template exists.
PostOverride(v) ==
    /\ pc[v] = "idle"
    /\ IF Live(TemplateOf[v])
       THEN Goto(v, "search") /\ UNCHANGED <<answer, copy, plan>>
       ELSE Answer(v, "notfound")
    /\ UNCHANGED <<row, gone, overlapped, failures>>

\* Second query: no override of the organization for the template yet.
SearchOverride(v) ==
    /\ pc[v] = "search"
    /\ IF Equal(v) = {}
       THEN Goto(v, "post") /\ UNCHANGED <<answer, copy, plan>>
       ELSE Answer(v, "conflict")
    /\ UNCHANGED <<row, gone, overlapped, failures>>

\* Fault: UQ_template_overrides_org_template is missing.
InsertOverrideAnyway(v) ==
    /\ pc[v] = "post"
    /\ IF Live(TemplateOf[v])
       THEN row' = [row EXCEPT ![v] = TemplateOf[v]] /\ Written(v)
       ELSE Refused(v)
    /\ UNCHANGED <<gone, overlapped>>

\* The INSERT, which the unique index or the foreign key may still refuse.
InsertOverride(v) ==
    /\ pc[v] = "post"
    /\ IF Admitted(v, TemplateOf[v])
       THEN row' = [row EXCEPT ![v] = TemplateOf[v]] /\ Written(v)
       ELSE Refused(v)
    /\ UNCHANGED <<gone, overlapped>>

-----------------------------------------------------------------------------
(* update: findOne, Object.assign, save *)

\* What a body may ask of row x: nothing, or another link or name. The DTO of an
\* override has no idTemplate.
Asked(x) ==
    {row[x]} \cup (IF x \in Rule THEN Template \cup {None}
                   ELSE IF x \in Named THEN Name ELSE {})

\* Fault: update() saves the body with the id of the path, without findOne.
PatchUnfound(p) ==
    /\ pc[p] = "idle"
    /\ \E x \in Rule : /\ OrgOf[x] = OrgOf[p] /\ pc[x] = "done" /\ answer[x] = "ok"
                       /\ copy' = [copy EXCEPT ![p] =
                              [id |-> x, loaded |-> None, value |-> None]]
                       /\ overlapped' = IF OpenOn(x) = {} THEN overlapped
                                        ELSE overlapped \cup {x}
    /\ Goto(p, "reload")
    /\ UNCHANGED <<row, answer, plan, gone, failures>>

\* Fault: findOne does not load the template, so that the body's link is saved.
PatchFindBare(p) ==
    /\ pc[p] = "idle"
    /\ \E x \in Row : \E w \in Asked(x) :
          /\ Visible(p, x)
          /\ copy' = [copy EXCEPT ![p] = [id |-> x, loaded |-> None, value |-> w]]
          /\ overlapped' = IF OpenOn(x) = {} THEN overlapped ELSE overlapped \cup {x}
    /\ Goto(p, "reload")
    /\ UNCHANGED <<row, answer, plan, gone, failures>>

\* findOne with the template of a rule or override as an object.
PatchFind(p) ==
    /\ pc[p] = "idle"
    /\ \E x \in Row : \E w \in Asked(x) :
          /\ Visible(p, x)
          /\ copy' = [copy EXCEPT ![p] =
                         [id |-> x, loaded |-> IF x \in Owned THEN row[x] ELSE None,
                          value |-> w]]
          /\ overlapped' = IF OpenOn(x) = {} THEN overlapped ELSE overlapped \cup {x}
    /\ Goto(p, "reload")
    /\ UNCHANGED <<row, answer, plan, gone, failures>>

\* What save() takes from an entity: the loaded template counts, not the column.
Saved(c) == IF c.loaded = None THEN c.value ELSE c.loaded

\* save(): the SELECT, and the diff of the entity with what it returned.
PatchReload(p) ==
    /\ pc[p] = "reload"
    /\ LET x == copy[p].id IN
       IF Live(x)
       THEN /\ plan' = [plan EXCEPT ![p] =
                           IF Saved(copy[p]) = row[x] THEN Absent ELSE Saved(copy[p])]
            /\ Goto(p, "update")
       ELSE Goto(p, "insert") /\ UNCHANGED plan
    /\ UNCHANGED <<row, answer, copy, gone, overlapped, failures>>

\* save(): the UPDATE. A row that is gone by now is not missed; a link to a
\* template that is gone, or a name that is taken, is refused.
PatchUpdate(p) ==
    /\ pc[p] = "update"
    /\ LET x == copy[p].id IN
       IF ~Live(x) \/ plan[p] = Absent
       THEN UNCHANGED <<row, failures>> /\ Answer(p, "ok")
       ELSE IF Admitted(x, plan[p])
            THEN row' = [row EXCEPT ![x] = plan[p]] /\ Written(p)
            ELSE Refused(p)
    /\ UNCHANGED <<gone, overlapped>>

\* save() without a row: the entity is inserted with its id.
PatchInsert(p) ==
    /\ pc[p] = "insert"
    /\ LET x == copy[p].id IN
       IF ~Live(x) /\ Admitted(x, Saved(copy[p]))
       THEN row' = [row EXCEPT ![x] = Saved(copy[p])] /\ Written(p)
       ELSE Refused(p)
    /\ UNCHANGED <<gone, overlapped>>

-----------------------------------------------------------------------------
(* remove: findOne, remove *)

\* Fault: the WHERE does not name the organization.
DeleteFindAcross(d) ==
    /\ pc[d] = "idle"
    /\ \E x \in Row : /\ Live(x)
                      /\ copy' = [copy EXCEPT ![d].id = x]
    /\ Goto(d, "delete")
    /\ UNCHANGED <<row, answer, plan, gone, overlapped, failures>>

\* Fault: the row that findOne did not find is removed all the same.
DeleteFindUnchecked(d) ==
    /\ pc[d] = "idle"
    /\ Goto(d, "delete")
    /\ UNCHANGED <<row, answer, copy, plan, gone, overlapped, failures>>

\* The row to remove, with its organization where it has one.
DeleteFind(d) ==
    /\ pc[d] = "idle"
    /\ \E x \in Row : /\ Visible(d, x)
                      /\ copy' = [copy EXCEPT ![d].id = x]
    /\ Goto(d, "delete")
    /\ UNCHANGED <<row, answer, plan, gone, overlapped, failures>>

\* Fault: the foreign key of the rules has no ON DELETE action that unlinks.
DeleteRowLinked(d) ==
    /\ pc[d] = "delete"
    /\ row' = [row EXCEPT ![copy[d].id] = Absent]
    /\ removed' = removed \cup {y \in Row : Live(y) /\ row'[y] = Absent}
    /\ caught' = caught \cup {y \in Row : Live(y) /\ row'[y] = Absent /\ OpenOn(y) # {}}
    /\ Written(d)
    /\ UNCHANGED overlapped

\* The DELETE by id; a template takes its overrides along and unlinks its rules.
DeleteRow(d) ==
    /\ pc[d] = "delete"
    /\ LET x == copy[d].id IN
       row' = [y \in Row |->
                  IF y = x \/ (y \in Override /\ TemplateOf[y] = x) THEN Absent
                  ELSE IF y \in Rule /\ row[y] = x THEN None ELSE row[y]]
    /\ removed' = removed \cup {y \in Row : Live(y) /\ row'[y] = Absent}
    /\ caught' = caught \cup {y \in Row : Live(y) /\ row'[y] = Absent /\ OpenOn(y) # {}}
    /\ Written(d)
    /\ UNCHANGED overlapped

-----------------------------------------------------------------------------
\* findOne returns null: no such row, or one of another organization.
NotFound(q) ==
    /\ pc[q] = "idle"
    /\ \E x \in Row : ~Visible(q, x)
    /\ Answer(q, "notfound")
    /\ UNCHANGED <<row, gone, overlapped, failures>>

\* A query fails, or the process dies, and nothing was written. A write that was
\* carried out and whose answer is lost is in Written.
Fails(o) ==
    /\ pc[o] # "done"
    /\ Errs(o)
    /\ UNCHANGED <<row, gone, overlapped>>

PostStep(x) ==
    PostRow(x) \/ (x \in Override /\ (PostOverride(x) \/ SearchOverride(x) \/ InsertOverride(x)))
PatchStep(p) == PatchFind(p) \/ PatchReload(p) \/ PatchUpdate(p) \/ PatchInsert(p)
DeleteStep(d) == DeleteFind(d) \/ DeleteRow(d)

Next ==
    \/ \E x \in Row : PostStep(x)
    \/ \E p \in Patch : PatchStep(p)
    \/ \E d \in Delete : DeleteStep(d)
    \/ \E q \in Request : NotFound(q)
    \/ \E o \in Op : Fails(o)

Spec == Init /\ [][Next]_vars

-----------------------------------------------------------------------------
(* Properties *)

Link == Template \cup {None}
Value == Link \cup Name \cup {Absent}
Entity == [id : Row \cup {None}, loaded : Link, value : Link \cup Name]

\* Every variable has its type: each table holds its own values, and a PATCH
\* that saves, or a DELETE that removes, is about some row.
TypeOK ==
    /\ row \in [Row -> Value]
    /\ \A r \in Rule : row[r] \in Link \cup {Absent}
    /\ \A v \in Override : row[v] \in {TemplateOf[v], Absent}
    /\ \A t \in Named : row[t] \in Name \cup {Absent}
    /\ pc \in [Op -> {"idle", "search", "post", "reload", "update", "insert",
                      "delete", "done"}]
    /\ answer \in [Op -> {"none", "ok", "notfound", "conflict", "error"}]
    /\ copy \in [Request -> Entity]
    /\ \A q \in Request : pc[q] \notin {"idle", "done"} => copy[q].id \in Row
    /\ plan \in [Patch -> Value]
    /\ removed \subseteq Row
    /\ caught \subseteq Row
    /\ overlapped \subseteq Row
    /\ failures \in 0..MaxFailures

\* The template that a rule or an override names exists, at every moment and
\* whoever removes, renames, links or brings back what: getMergedConfig of a
\* rule read in one go never misses its template.
LinksExist == \A x \in Owned : row[x] \in Template => Live(row[x])

\* An organization has one override of a template at most, although create()
\* checks and inserts in two queries, and although the save of an override that
\* was removed brings it back beside one created since.
OneOverride == \A v \in Override : Live(v) => Equal(v) = {v}

\* The three queries in which an override is created are as good as one step,
\* also where their answer is lost, and beside PATCHes that bring removed overrides
\* back: what is answered and held is what a registry with one row for each
\* organization and template could answer and hold. No row of a POST that was
\* refused is ever there, and none of a POST that failed unless it took effect.
ReplyOf == [ok |-> "taken", conflict |-> "refused", error |-> "error",
            notfound |-> "error", none |-> "none"]
R == INSTANCE Registry WITH
        Item <- Override,
        SlotOf <- [v \in Override |-> <<OrgOf[v], TemplateOf[v]>>],
        Restorable <- Override,
        held <- {v \in Override : Live(v)},
        ever <- {v \in Override : Live(v) \/ v \in removed},
        reply <- [v \in Override |-> ReplyOf[answer[v]]]
OverridesAtOnce == R!Spec

\* A row that a DELETE or a cascade took away stays away, unless a PATCH was
\* between its findOne and its save at that moment: that one inserts it again.
GoneStaysGone == \A x \in removed : Live(x) => x \in caught

\* A PATCH does not move a rule from one template to another, nor unlink it,
\* whatever idTemplate it names: the loaded template is saved. The link goes with
\* its template, or when two PATCHes of the rule overlapped.
LinkStays ==
    [][\A r \in Rule : row[r] \in Template /\ row'[r] \notin {row[r], Absent} =>
          row'[row[r]] = Absent \/ r \in overlapped]_vars

\* The rules and overrides of an organization change only with the answer to a
\* request of its own, or with a template, which any organization may remove.
TenantsAreApart ==
    [][\A x \in Owned : row'[x] # row[x] =>
          \/ \E o \in Owned \cup Request : /\ OrgOf[o] = OrgOf[x]
                                           /\ pc[o] # "done" /\ pc'[o] = "done"
          \/ \E t \in Template : Live(t) /\ row'[t] = Absent]_vars
=============================================================================
