------------------------------ MODULE Operators ------------------------------
(***************************************************************************)
(* The operators the rule engine adds to json-rules-engine, on every kind  *)
(* of JSON value a fact or a condition may give them: conditions are       *)
(* written by tenants and are not checked, facts may be undefined.         *)
(*                                                                         *)
(* A value is <<kind, content>>. Strings are the members of Text, "" one   *)
(* of them; an array is known by the set of its elements, which are        *)
(* values; an object by its properties min and max.                        *)
(***************************************************************************)
EXTENDS Integers

CONSTANTS
    Text,       \* strings
    Upper,      \* toUpperCase of each
    Number,     \* numbers
    NaN         \* what parseFloat makes of a text that is no number

ASSUME OperatorsAssumption ==
    /\ "" \in Text
    /\ DOMAIN Upper = Text
    /\ Number \subseteq Int
    /\ NaN \notin Int

IsNumber(v) == v[1] = "number"
IsArray(v) == v[1] = "array"
\* typeof is 'string', and the string is not empty.
IsText(v) == v[1] = "string" /\ v[2] # ""

\* A comparison with NaN is false.
Below(a, b) == a[2] # NaN /\ b[2] # NaN /\ a[2] < b[2]
AtMost(a, b) == a[2] # NaN /\ b[2] # NaN /\ a[2] =< b[2]

\* sum-, count-, avg- and maxGreaterThan, and the like; minLessThan
greaterThan(f, c) == IsNumber(f) /\ IsNumber(c) /\ Below(c, f)
greaterThanOrEqual(f, c) == IsNumber(f) /\ IsNumber(c) /\ AtMost(c, f)
lessThan(f, c) == IsNumber(f) /\ IsNumber(c) /\ Below(f, c)
\* Fault: the types are not checked, and undefined counts as 0.
lessThanOrEqualLoose(f, c) ==
    LET n(v) == IF IsNumber(v) THEN v ELSE <<"number", 0>> IN AtMost(n(f), n(c))
lessThanOrEqual(f, c) == IsNumber(f) /\ IsNumber(c) /\ AtMost(f, c)
amountBetween(f, c) ==
    /\ IsNumber(f) /\ c[1] = "object" /\ IsNumber(c[2].min) /\ IsNumber(c[2].max)
    /\ AtMost(c[2].min, f) /\ AtMost(f, c[2].max)

\* === on what the list fact gives, which is a Boolean.
inList(f, c) == f = c
notInList(f, c) == f # c

containsValue(f, c) == IsArray(f) /\ c \in f[2]
notContainsValue(f, c) == IsArray(f) => c \notin f[2]

\* toUpperCase of a string, the empty string for anything else.
Uppercase(v) == IF v[1] = "string" THEN Upper[v[2]] ELSE ""
Names(c, f) == \E e \in c[2] : Uppercase(e) = Uppercase(f)

inCountry(f, c) ==
    /\ IsText(f)
    /\ IF IsArray(c) THEN Names(c, f) ELSE c[1] = "string" /\ Uppercase(f) = Uppercase(c)

\* Fault: without a country nothing is known.
notInCountryUnknown(f, c) ==
    /\ IsText(f)
    /\ IF IsArray(c) THEN ~Names(c, f) ELSE c[1] = "string" => Uppercase(f) # Uppercase(c)

notInCountry(f, c) ==
    IsText(f) =>
       IF IsArray(c) THEN ~Names(c, f) ELSE c[1] = "string" => Uppercase(f) # Uppercase(c)

isHighRiskCountry(f, c) == IsText(f) /\ IsArray(c) /\ Names(c, f)

-----------------------------------------------------------------------------
Limit == {<<"number", n>> : n \in Number \cup {NaN}} \cup {<<"undefined", "">>}
Plain ==
    Limit \cup {<<"string", s>> : s \in Text} \cup {<<"boolean", b>> : b \in BOOLEAN}
          \cup {<<"null", "">>}
Value ==
    Plain \cup {<<"array", s>> : s \in {{}} \cup {{x, y} : x, y \in Plain}}
          \cup {<<"object", [min |-> m, max |-> n]>> : m, n \in Limit}

\* An operator and its negation split every pair of values, ill-typed ones too: of
\* two rules that differ by a "not" exactly one matches, and a missing country is
\* outside every list. A comparison never matches by its type: what is no number
\* is on neither side of a threshold, and of two numbers exactly one side holds.
NegationsSplit ==
    \A f, c \in Value :
        /\ inCountry(f, c) # notInCountry(f, c)
        /\ isHighRiskCountry(f, c) => inCountry(f, c)
        /\ f[1] = "boolean" => inList(f, c) # notInList(f, c)
        /\ containsValue(f, c) # notContainsValue(f, c)
        /\ LET split == IF IsNumber(f) /\ IsNumber(c) /\ f[2] # NaN /\ c[2] # NaN
                        THEN BOOLEAN ELSE {FALSE}
           IN  /\ {lessThan(f, c), greaterThanOrEqual(f, c)} = split
               /\ {greaterThan(f, c), lessThanOrEqual(f, c)} = split
        /\ amountBetween(f, c) =>
              greaterThanOrEqual(f, c[2].min) /\ lessThanOrEqual(f, c[2].max)
=============================================================================
