-------------------------------- MODULE Lists --------------------------------
(***************************************************************************)
(* The black and white lists of the organizations (ListsService) and the   *)
(* organizations themselves (OrganizationsService): concurrent requests    *)
(* that add and remove entries, lookups by the rule engine while entries   *)
(* expire, and the deletion of an organization, which takes its entries.   *)
(*                                                                         *)
(* To add an entry the service looks for an equal one and then inserts, in *)
(* two queries; the unique index of the table has the last word. To remove *)
(* one it finds the row by its id and then deletes it. Nothing sweeps      *)
(* expired entries: removeExpired has no caller.                           *)
(***************************************************************************)
EXTENDS Naturals, FiniteSets

CONSTANTS
    Org,            \* organizations
    Value,          \* what entries list: list type, entity type and value
    Create,         \* POST requests
    Remove,         \* DELETE requests
    Lookup,         \* lookups by evaluations
    OrgOf,          \* the organization of each request and lookup
    ValueOf,        \* the value each POST and each lookup names
    ExpiresAt,      \* the expiry each POST names, Never for none
    Never,
    NoEntry,        \* what a DELETE holds before it has found its entry
    MaxTime,        \* bound: the last moment of the clock
    MaxFailures     \* bound: failing queries and lost answers

Op == Create \cup Remove \cup Lookup

ASSUME ConstantsAssumption ==
    /\ Create \cap Remove = {} /\ Create \cap Lookup = {} /\ Remove \cap Lookup = {}
    /\ OrgOf \in [Op -> Org]
    /\ ValueOf \in [Create \cup Lookup -> Value]
    /\ MaxTime \in Nat
    /\ Never \notin 0..MaxTime
    /\ ExpiresAt \in [Create -> (0..MaxTime) \cup {Never}]
    /\ NoEntry \notin Create
    /\ MaxFailures \in Nat

VARIABLES
    orgs,       \* rows of the organizations table
    rows,       \* rows of list_entries, each named by the POST that inserted it
    now,        \* the clock
    pc,         \* where each request is
    answer,     \* what it was answered
    target,     \* the entry a DELETE holds
    failed,     \* ghost: requests of which a query failed or its answer was lost
    removed     \* ghost: entries that were removed, by a DELETE or with their organization

vars == <<orgs, rows, now, pc, answer, target, failed, removed>>

-----------------------------------------------------------------------------
\* The entries that idOrganization, listType, entityType and entityValue select.
Entries(o, v) == {r \in rows : OrgOf[r] = o /\ ValueOf[r] = v}
Equal(c) == Entries(OrgOf[c], ValueOf[c])

Answer(x, a) ==
    /\ pc' = [pc EXCEPT ![x] = "done"]
    /\ answer' = [answer EXCEPT ![x] = a]

\* Another call may fail, within the bound.
MayFail == Cardinality(failed) < MaxFailures

Init ==
    /\ orgs = Org
    /\ rows = {}
    /\ now = 0
    /\ pc = [x \in Op |-> "idle"]
    /\ answer = [x \in Op |-> "none"]
    /\ target = [x \in Remove |-> NoEntry]
    /\ failed = {}
    /\ removed = {}

-----------------------------------------------------------------------------
(* create *)

\* Fault: the search for an equal entry does not name the organization.
CreateRefusedAcross(c) ==
    /\ pc[c] = "idle"
    /\ \E r \in rows : ValueOf[r] = ValueOf[c]
    /\ Answer(c, "conflict")
    /\ UNCHANGED <<orgs, rows, now, target, failed, removed>>

\* An equal entry is found, expired or not: ConflictException.
CreateRefused(c) ==
    /\ pc[c] = "idle"
    /\ Equal(c) # {}
    /\ Answer(c, "conflict")
    /\ UNCHANGED <<orgs, rows, now, target, failed, removed>>

CreateFindNone(c) ==
    /\ pc[c] = "idle"
    /\ Equal(c) = {}
    /\ pc' = [pc EXCEPT ![c] = "insert"]
    /\ UNCHANGED <<orgs, rows, now, answer, target, failed, removed>>

\* Fault: the table has no unique index.
CreateInsertAnyway(c) ==
    /\ pc[c] = "insert"
    /\ IF OrgOf[c] \in orgs
       THEN rows' = rows \cup {c} /\ Answer(c, "created")
       ELSE UNCHANGED rows /\ Answer(c, "error")
    /\ UNCHANGED <<orgs, now, target, failed, removed>>

\* Fault: an INSERT that the index refuses is answered like one that it does not.
CreateInsertIgnoring(c) ==
    /\ pc[c] = "insert"
    /\ IF OrgOf[c] \in orgs
       THEN /\ rows' = IF Equal(c) = {} THEN rows \cup {c} ELSE rows
            /\ Answer(c, "created")
       ELSE UNCHANGED rows /\ Answer(c, "error")
    /\ UNCHANGED <<orgs, now, target, failed, removed>>

\* The INSERT, which the unique index or the foreign key to the organization may
\* refuse: no HttpException, so that the filter answers with a 500.
CreateInsert(c) ==
    /\ pc[c] = "insert"
    /\ IF OrgOf[c] \in orgs /\ Equal(c) = {}
       THEN rows' = rows \cup {c} /\ Answer(c, "created")
       ELSE UNCHANGED rows /\ Answer(c, "error")
    /\ UNCHANGED <<orgs, now, target, failed, removed>>

\* A query fails, or the INSERT was carried out and its answer is lost.
CreateFails(c) ==
    /\ pc[c] \in {"idle", "insert"}
    /\ MayFail
    /\ failed' = failed \cup {c}
    /\ Answer(c, "error")
    /\ rows' \in {rows} \cup
          (IF pc[c] = "insert" /\ OrgOf[c] \in orgs /\ Equal(c) = {}
           THEN {rows \cup {c}} ELSE {})
    /\ UNCHANGED <<orgs, now, target, removed>>

-----------------------------------------------------------------------------
(* remove, and the deletion of an organization *)

\* Fault: the entry is looked for by its id alone.
RemoveFindAcross(x) ==
    /\ pc[x] = "idle"
    /\ \E r \in rows : target' = [target EXCEPT ![x] = r]
    /\ pc' = [pc EXCEPT ![x] = "delete"]
    /\ UNCHANGED <<orgs, rows, now, answer, failed, removed>>

\* Fault: an entry that was not found is removed all the same.
RemoveFindUnchecked(x) ==
    /\ pc[x] = "idle"
    /\ pc' = [pc EXCEPT ![x] = "delete"]
    /\ UNCHANGED <<orgs, rows, now, answer, target, failed, removed>>

\* findOne by id and organization: some entry of it.
RemoveFind(x) ==
    /\ pc[x] = "idle"
    /\ \E r \in rows : OrgOf[r] = OrgOf[x] /\ target' = [target EXCEPT ![x] = r]
    /\ pc' = [pc EXCEPT ![x] = "delete"]
    /\ UNCHANGED <<orgs, rows, now, answer, failed, removed>>

\* An id that no row of the organization has: NotFoundException.
RemoveNotFound(x) ==
    /\ pc[x] = "idle"
    /\ Answer(x, "not found")
    /\ UNCHANGED <<orgs, rows, now, target, failed, removed>>

\* The DELETE by id; a row that has gone meanwhile is not missed.
RemoveDelete(x) ==
    /\ pc[x] = "delete"
    /\ rows' = rows \ {target[x]}
    /\ removed' = removed \cup (rows \cap {target[x]})
    /\ Answer(x, "removed")
    /\ UNCHANGED <<orgs, now, target, failed>>

\* A query fails, or the DELETE was carried out and its answer is lost.
RemoveFails(x) ==
    /\ pc[x] \in {"idle", "delete"}
    /\ MayFail
    /\ failed' = failed \cup {x}
    /\ Answer(x, "error")
    /\ \E gone \in SUBSET (rows \cap {target[x]}) :
          rows' = rows \ gone /\ removed' = removed \cup gone
    /\ UNCHANGED <<orgs, now, target>>

\* OrganizationsService.remove; FK_list_entries_organization cascades.
RemoveOrganization(o) ==
    /\ o \in orgs
    /\ orgs' = orgs \ {o}
    /\ LET gone == {r \in rows : OrgOf[r] = o}
       IN rows' = rows \ gone /\ removed' = removed \cup gone
    /\ UNCHANGED <<now, pc, answer, target, failed>>

-----------------------------------------------------------------------------
(* isInList *)

\* One query with two alternatives: an entry without expiry, or one that expires
\* later. The first names expiresAt null, a condition TypeORM leaves out, so
\* that any entry matches.
IsInList(o, v) == Entries(o, v) # {}

\* The list fact of an evaluation, for the value its condition or its fact gives.
Look(l) ==
    /\ pc[l] = "idle"
    /\ Answer(l, IF IsInList(OrgOf[l], ValueOf[l]) THEN "listed" ELSE "not listed")
    /\ UNCHANGED <<orgs, rows, now, target, failed, removed>>

Tick ==
    /\ now < MaxTime
    /\ now' = now + 1
    /\ UNCHANGED <<orgs, rows, pc, answer, target, failed, removed>>

-----------------------------------------------------------------------------
CreateStep(c) == CreateRefused(c) \/ CreateFindNone(c) \/ CreateInsert(c) \/ CreateFails(c)
RemoveStep(x) == RemoveFind(x) \/ RemoveNotFound(x) \/ RemoveDelete(x) \/ RemoveFails(x)

Next ==
    \/ \E c \in Create : CreateStep(c)
    \/ \E x \in Remove : RemoveStep(x)
    \/ \E o \in Org : RemoveOrganization(o)
    \/ \E l \in Lookup : Look(l)
    \/ Tick

Spec == Init /\ [][Next]_vars

-----------------------------------------------------------------------------
(* Properties *)

\* Every variable has its type, and a DELETE that has found an entry holds one
\* that was there.
TypeOK ==
    /\ orgs \subseteq Org
    /\ rows \subseteq Create
    /\ now \in 0..MaxTime
    /\ pc \in [Op -> {"idle", "insert", "delete", "done"}]
    /\ answer \in [Op -> {"none", "created", "conflict", "error", "removed",
                          "not found", "listed", "not listed"}]
    /\ target \in [Remove -> Create \cup {NoEntry}]
    /\ \A x \in Remove : pc[x] = "delete" => target[x] \in rows \cup removed
    /\ failed \subseteq Op
    /\ removed \subseteq Create

\* The check before the INSERT refuses no POST without cause, and the index lets
\* no second one through: when the POSTs of one value have all ended, none of
\* them failed, and neither an entry of the value nor its organization was
\* removed, exactly one of them was answered with 201.
ExactlyOneCreated ==
    \A o \in orgs, v \in Value :
        LET posts == {c \in Create : OrgOf[c] = o /\ ValueOf[c] = v}
        IN  /\ posts # {} /\ posts \cap (failed \cup removed) = {}
            /\ \A c \in posts : pc[c] = "done"
            => Cardinality({c \in posts : answer[c] = "created"}) = 1

\* What an organization is told it has, it has: a POST answered with 201 has its
\* row until a DELETE or the deletion of the organization takes it away, and a
\* row whose POST was not answered with 201 comes from a lost answer only.
AnswersMatchRows ==
    \A c \in Create :
        /\ answer[c] = "created" => c \in rows \cup removed
        /\ c \in rows => answer[c] = "created" \/ c \in failed

\* Tenants are apart: the entries of an organization change only with an answer
\* to a request of that organization, or with its own deletion.
TenantsAreApart ==
    [][\A r \in Create : (r \in rows) # (r \in rows') =>
          \/ OrgOf[r] \in orgs \ orgs'
          \/ \E x \in Create \cup Remove :
                OrgOf[x] = OrgOf[r] /\ answer'[x] # answer[x]]_vars

\* ... and no POST of an organization is refused as a duplicate of an entry the
\* organization never had.
RefusedWithCause ==
    \A c \in Create : answer[c] = "conflict" =>
        \E r \in (rows \cup removed) \ {c} :
            OrgOf[r] = OrgOf[c] /\ ValueOf[r] = ValueOf[c]

\* The two queries of create() are as good as one step: what the clients are
\* answered and what the table holds is what a registry with one row for each
\* value of an organization could answer and hold.
ReplyOf == [created |-> "taken", conflict |-> "refused", error |-> "error", none |-> "none"]
R == INSTANCE Registry WITH
        Item <- Create,
        SlotOf <- [c \in Create |-> <<OrgOf[c], ValueOf[c]>>],
        Restorable <- {},
        held <- rows,
        ever <- rows \cup removed,
        reply <- [c \in Create |-> ReplyOf[answer[c]]]
CreatesAtOnce == R!Spec

\* ARCHITECTURE.md, List Lookup, "expired entries return false": a lookup that
\* says an organization lists a value is right when it says so.
ExpiredIsNotListed ==
    [][\A l \in Lookup : answer[l] = "none" /\ answer'[l] = "listed" =>
          \E r \in Entries(OrgOf[l], ValueOf[l]) :
              ExpiresAt[r] = Never \/ ExpiresAt[r] > now]_vars
=============================================================================
