---------------------------- MODULE EffectiveConfig ----------------------------
(***************************************************************************)
(* The config a rule is evaluated with: the config of its template, the    *)
(* override of its organization and its own config, each merged into the   *)
(* one before it by deepMerge. This is what the rule cache holds.          *)
(*                                                                         *)
(* A JSON object is a function on the names of its properties; every other *)
(* value, null and arrays among them, is a leaf.                           *)
(***************************************************************************)
EXTENDS Naturals, Sequences, FiniteSets

CONSTANTS
    Leaf,       \* values that are not objects
    None,       \* no template, or no override that is enabled
    Depth,      \* bound: levels of objects in an object
    Names       \* bound: the names in an object of each number of levels

\* The objects of up to n levels, nested in one another.
Nested[n \in 0..Depth] ==
    IF n = 0 THEN {}
    ELSE UNION {[D -> Leaf \cup Nested[n - 1]] : D \in SUBSET Names[n]}
Object == Nested[Depth]

ASSUME ConfigAssumption ==
    /\ Depth \in Nat \ {0}
    /\ DOMAIN Names = 1..Depth
    /\ \A n \in 2..Depth : Names[n - 1] \subseteq Names[n]
    /\ \A c \in Object : c \notin Leaf /\ c # None

IsObject(x) == x \notin Leaf

\* Fault: nested objects are replaced like everything else.
deepMergeShallow(t, s) ==
    [k \in DOMAIN t \cup DOMAIN s |-> IF k \in DOMAIN s THEN s[k] ELSE t[k]]

\* The result of deepMerge for each target and source.
merged[p \in Object \X Object] ==
    [k \in DOMAIN p[1] \cup DOMAIN p[2] |->
        IF k \notin DOMAIN p[2] THEN p[1][k]
        ELSE IF k \in DOMAIN p[1] /\ IsObject(p[1][k]) /\ IsObject(p[2][k])
             THEN merged[<<p[1][k], p[2][k]>>]
             ELSE p[2][k]]

deepMerge(t, s) == merged[<<t, s>>]

\* getMergedConfig, of a template and an override.
MergedConfig(t, o) == IF o = None THEN t ELSE deepMerge(t, o)

\* Fault: the config of the rule is taken for the base.
getEffectiveConfigBelow(t, o, r) == IF t = None THEN r ELSE deepMerge(r, MergedConfig(t, o))

getEffectiveConfig(t, o, r) == IF t = None THEN r ELSE deepMerge(MergedConfig(t, o), r)

-----------------------------------------------------------------------------
(* Reference: the value at a path, layer by layer *)

Path == UNION {[1..n -> Names[Depth]] : n \in 1..Depth}

\* From object c along path p: the value there, or why there is none. An object
\* that lacks the property leaves it open, a leaf on the way cuts it off.
Walk(c, p) ==
    LET at[i \in 0..Len(p)] ==
            IF i = 0 THEN IF c = None THEN <<"open", None>> ELSE <<"value", c>>
            ELSE IF at[i - 1][1] # "value" THEN at[i - 1]
            ELSE IF ~IsObject(at[i - 1][2]) THEN <<"cut", None>>
            ELSE IF p[i] \in DOMAIN at[i - 1][2] THEN <<"value", at[i - 1][2][p[i]]>>
            ELSE <<"open", None>>
    IN at[Len(p)]

\* Of an object that stands there, only that it is one.
Shown(w) ==
    IF w[1] # "value" THEN <<"nothing", None>>
    ELSE IF IsObject(w[2]) THEN <<"object", None>> ELSE w
ValueAt(c, p) == Shown(Walk(c, p))

\* An object has its say at a path that it reaches, or cuts off with a leaf.
Speaks(c, p) == Walk(c, p)[1] # "open"

\* Property by property the last layer that has its say decides: the rule, then
\* the override, then the template (deepMerge, three layers of JSON).
MergedByLayers ==
    \A t \in Object \cup {None}, o \in Object \cup {None}, r \in Object, p \in Path :
        ValueAt(getEffectiveConfig(t, o, r), p) =
            IF t = None \/ Speaks(r, p) THEN ValueAt(r, p)
            ELSE IF Speaks(o, p) THEN ValueAt(o, p) ELSE ValueAt(t, p)
=============================================================================
