---------------------------- MODULE QueryBuilder ----------------------------
(***************************************************************************)
(* The builder of MongoDB queries: a sequence of optional filters becomes  *)
(* a query.  A condition on a field is represented by the values it        *)
(* matches, a query by its conditions on fields and its $or and $and; what *)
(* a query finds are the documents that satisfy all of it.                 *)
(***************************************************************************)
EXTENDS Integers

CONSTANTS
  Fields,     \* the fields of a document
  MaxNumber,  \* the numbers 0 .. MaxNumber are values
  MaxCalls    \* bound: how many filters are added

ConstantsAssumption == MaxNumber \in Nat /\ MaxCalls \in Nat

\* undefined is not a value but the absence of an argument.
Undefined == -3
NullValue == -2
EmptyString == -1
Numbers == 0 .. MaxNumber
Values == {NullValue, EmptyString} \cup Numbers

Documents == [Fields -> Values]

VARIABLES
  query,   \* the conditions on fields: a function on the fields that have one
  or,      \* the alternatives of $or, {} without it
  and,     \* the queries of $and
  calls,   \* how many filters were added
  wanted,  \* history: the documents that satisfy every filter as it was meant
  again,   \* history: a field was filtered for the second time
  ors,     \* history: how many calls added alternatives
  zero     \* history: a range was given a bound of zero

vars == <<query, or, and, calls, wanted, again, ors, zero>>

NoFilter == [f \in {} |-> {}]

Init ==
  /\ query = NoFilter
  /\ or = {}
  /\ and = {}
  /\ calls = 0
  /\ wanted = Documents
  /\ again = FALSE
  /\ ors = 0
  /\ zero = FALSE

-----------------------------------------------------------------------------
(* The filters on a field                                                  *)

\* null is a value to look for, undefined and mostly '' are not.
shouldIgnore(v, ignoreEmptyString) ==
  v = Undefined \/ (ignoreEmptyString /\ v = EmptyString)

With(q, f, values) == [g \in DOMAIN q \cup {f} |-> IF g = f THEN values ELSE q[g]]

\* What the filter of a field to the given values adds to a query.
addPrimitiveFilter(q, f, v, ignoring) ==
  IF shouldIgnore(v, ignoring) THEN q ELSE With(q, f, {v})

addNotEqualPrimitiveFilter(q, f, v, ignoring) ==
  IF shouldIgnore(v, ignoring) THEN q ELSE With(q, f, Values \ {v})

addArrayFilter(q, f, vs, ignoring) ==
  IF vs = {} /\ ignoring THEN q ELSE With(q, f, vs)

addNotInArrayFilter(q, f, vs, ignoring) ==
  IF vs = {} /\ ignoring THEN q ELSE With(q, f, Values \ vs)

\* Mutant: start and end are exchanged.
AtLeast_Swapped(start) == {n \in Numbers : start = 0 \/ n <= start}

\* A bound is left out when it is falsy: undefined or zero.  With either bound
\* only numbers match.
Falsy(bound) == bound \in {Undefined, 0}

AtLeast(start) == {n \in Numbers : Falsy(start) \/ n >= start}
AtMost(end) == {n \in Numbers : Falsy(end) \/ n <= end}

addRangeFilter(q, f, start, end) ==
  IF Falsy(start) /\ Falsy(end) THEN q ELSE With(q, f, AtLeast(start) \cap AtMost(end))

-----------------------------------------------------------------------------
(* Documents                                                               *)

Satisfies(d, q) == \A f \in DOMAIN q : d[f] \in q[f]

\* What the built query finds.
build ==
  {d \in Documents :
     /\ Satisfies(d, query)
     /\ or = {} \/ \E q \in or : Satisfies(d, q)
     /\ \A q \in and : Satisfies(d, q)}

-----------------------------------------------------------------------------
(* Calls of the builder                                                    *)

\* A filter of field f is added, which is meant to leave the values meant.
Add(f, new, meant) ==
  /\ calls < MaxCalls
  /\ calls' = calls + 1
  /\ query' = new
  /\ wanted' = {d \in wanted : d[f] \in meant}
  /\ again' = (again \/ f \in DOMAIN query)
  /\ UNCHANGED <<or, and, ors>>

Primitive ==
  \E f \in Fields, v \in Values \cup {Undefined}, ignoring \in BOOLEAN :
    LET given == v # Undefined /\ (ignoring => v # EmptyString) IN
    /\ \/ Add(f, addPrimitiveFilter(query, f, v, ignoring), IF given THEN {v} ELSE Values)
       \/ Add(f, addNotEqualPrimitiveFilter(query, f, v, ignoring),
              IF given THEN Values \ {v} ELSE Values)
    /\ UNCHANGED zero

Array ==
  \E f \in Fields, vs \in SUBSET Numbers, ignoring \in BOOLEAN :
    /\ \/ Add(f, addArrayFilter(query, f, vs, ignoring),
              IF vs = {} /\ ignoring THEN Values ELSE vs)
       \/ Add(f, addNotInArrayFilter(query, f, vs, ignoring), Values \ vs)
    /\ UNCHANGED zero

Range ==
  \E f \in Fields, start, end \in Numbers \cup {Undefined} :
    /\ Add(f, addRangeFilter(query, f, start, end),
           IF start = Undefined /\ end = Undefined THEN Values
           ELSE {n \in Numbers : (start # Undefined => n >= start)
                                 /\ (end # Undefined => n <= end)})
    /\ zero' = (zero \/ start = 0 \/ end = 0)

\* The builders that the aggregator fills, each with one filter or none.
Conditions ==
  {addPrimitiveFilter(NoFilter, f, v, TRUE) : f \in Fields, v \in {Undefined} \cup Numbers}

\* Builders that were not filled are left out; alternatives that were added
\* before stay, beside the new ones.
addOrFilter(conditions) ==
  LET filters == conditions \ {NoFilter} IN
  /\ calls < MaxCalls
  /\ calls' = calls + 1
  /\ or' = or \cup filters
  /\ ors' = IF filters = {} THEN ors ELSE ors + 1
  /\ wanted' = {d \in wanted : filters = {} \/ \E q \in filters : Satisfies(d, q)}
  /\ UNCHANGED <<query, and, again, zero>>

\* Mutant: what was added before is replaced.
addAndFilter_Replaces(conditions) ==
  LET filters == conditions \ {NoFilter} IN
  /\ calls < MaxCalls
  /\ calls' = calls + 1
  /\ and' = IF filters = {} THEN and ELSE filters
  /\ wanted' = {d \in wanted : \A q \in filters : Satisfies(d, q)}
  /\ UNCHANGED <<query, or, again, ors, zero>>

addAndFilter(conditions) ==
  LET filters == conditions \ {NoFilter} IN
  /\ calls < MaxCalls
  /\ calls' = calls + 1
  /\ and' = and \cup filters
  /\ wanted' = {d \in wanted : \A q \in filters : Satisfies(d, q)}
  /\ UNCHANGED <<query, or, again, ors, zero>>

Next ==
  \/ Primitive \/ Array \/ Range
  \/ \E c, d \in Conditions : addOrFilter({c, d}) \/ addAndFilter({c, d})

Spec == Init /\ [][Next]_vars

-----------------------------------------------------------------------------
(* Properties                                                              *)

\* The query finds exactly what satisfies all filters, as long as no field is
\* filtered twice, alternatives are added once and no range is bounded by zero.
FindsWhatIsWanted == ~again /\ ors <= 1 /\ ~zero => build = wanted

\* Alternatives that are added twice and bounds of zero only let more documents
\* through: the query misses nothing that satisfies the filters.
NothingWantedIsMissed == ~again => wanted \subseteq build

\* The two.
QueriesFindWhatIsWanted == FindsWhatIsWanted /\ NothingWantedIsMissed

=============================================================================
