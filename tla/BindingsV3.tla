----------------------------- MODULE BindingsV3 -----------------------------
(***************************************************************************)
(* What a request for one fact says about the query that finds it          *)
(* (domain/rules/bindings_v3.py, and bindings_v31.py where 3.1.0 asks for  *)
(* less).  A query is [grain, keys, fields, filters, aggregation, time,    *)
(* result]; every part of it carries the evidence query.<fact>, kept once  *)
(* as "evidence".  A text that is not there is "", a value MISSING.        *)
(***************************************************************************)
EXTENDS FactCatalog, RuleValues

Absent == ""
\* FilterValueV3 and TimeBoundaryV3: a parameter's name or a literal, one of the two.
ValueShaped(value) == IF value.kind = "parameter" THEN value.name # Absent /\ value.literal = Missing
                      ELSE value.name = Absent /\ value.literal # Missing
NoBoundary == [kind |-> "none", name |-> Absent, literal |-> Missing]

\* FilterRequirementV3: a null or blank test has no value, every other has one.
FilterShaped(filter) ==
    IF filter.operator \in Unary THEN filter.value = NoBoundary
    ELSE filter.value # NoBoundary /\ ValueShaped(filter.value)

\* AggregationRequirementV3: only a computed one has a function, inputs and distinct.
AggregationShaped(a) ==
    IF a.mode = "compute" THEN a.function # Absent /\ a.inputs # <<>> /\ a.distinct # Missing
    ELSE a.function = Absent /\ a.inputs = <<>> /\ a.groupBy = <<>> /\ a.distinct = Missing

\* TimeRangeRequirementV3.
TimeShaped(time) ==
    LET there(boundary) == boundary # NoBoundary /\ ValueShaped(boundary)
    IN  CASE time.mode = "none" -> /\ time.field = Absent /\ time.zone = Absent
                                   /\ time.start = NoBoundary /\ time.end = NoBoundary
          [] time.mode = "asOf" -> time.field # Absent /\ time.start = NoBoundary /\ there(time.end)
          [] time.mode = "between" -> time.field # Absent /\ there(time.start) /\ there(time.end)

\* QueryRequirementsV3.validate_references.
FieldIds(query) == [i \in DOMAIN query.fields |-> query.fields[i].id]
FieldsUsed(query) ==
    {filter.field : filter \in ToSet(query.filters)}
    \cup ToSet(query.aggregation.inputs) \cup ToSet(query.aggregation.groupBy)
    \cup ({query.time.field} \ {Absent})
QueryShaped(query) ==
    /\ query.fields # <<>> /\ query.keys # <<>>
    /\ \A filter \in ToSet(query.filters) : FilterShaped(filter)
    /\ AggregationShaped(query.aggregation) /\ TimeShaped(query.time)
    /\ ~Repeats(FieldIds(query)) /\ "factValue" \in ToSet(FieldIds(query))
    /\ FieldsUsed(query) \subseteq ToSet(FieldIds(query))

\* What a query's result says of the fact, which must be what the fact says.
ResultFits(query, fact) ==
    /\ query.result.type = fact.type
    /\ query.result.nullable = fact.nullable /\ query.result.nullPolicy = fact.nullPolicy

EntityKeys(fact) == {p.name : p \in {q \in ToSet(fact.parameters) : q.role = "entityKey"}}
ParametersUsed(query) ==
    {v.name : v \in {w \in {filter.value : filter \in ToSet(query.filters)}
                                \cup {query.time.start, query.time.end} : w.kind = "parameter"}}

\* The parts of FactBindingRequestV3.validate_closure that are about the query.
QueryFits(query, fact) ==
    LET valueField == CHOOSE field \in ToSet(query.fields) : field.id = "factValue"
    IN  /\ ResultFits(query, fact)
        /\ query.grain = fact.grain /\ ToSet(query.keys) = EntityKeys(fact)
        /\ valueField.role = "value" /\ valueField.name = fact.code
        /\ ParametersUsed(query) \subseteq ToSet(Names(fact))

\* What a request lists as evidence, and what in it refers to evidence: a usage to its
\* condition, an example to its case, the query to its own set.
Listed(request) ==
    {<<"fact">>, <<"query">>} \cup {<<"condition", usage.condition>> : usage \in request.usages}
                              \cup {<<"case", id>> : id \in request.examples}
Referenced(request) ==
    request.query.evidence \cup request.uncertain
        \cup {<<"condition", usage.condition>> : usage \in request.usages}
        \cup {<<"case", id>> : id \in request.examples}

\* The entries are unique, known and used.  A condition with the fact on both its sides is
\* two usages, and would be listed twice.
EvidenceCloses(request) ==
    /\ \A u, v \in request.usages : u.condition = v.condition => u = v
    /\ Referenced(request) = Listed(request)

\* FactBindingRequestV3 as pydantic reads it.
RequestShaped(request) ==
    /\ request.usages # {} /\ request.examples # {}
    /\ QueryShaped(request.query) /\ QueryFits(request.query, request.fact)
    /\ request.id = <<request.version, request.fact.code>>
    /\ EvidenceCloses(request)

\* FactBindingRequestV31: of the query only its grain and its result are compared with the
\* fact, and a list is a set where anything else is a scalar.
RequestShapedV31(request) ==
    /\ request.usages # {} /\ request.examples # {}
    /\ QueryShaped(request.query) /\ ResultFits(request.query, request.fact)
    /\ request.query.grain = request.fact.grain
    /\ (request.query.result.cardinality = "set") = (request.fact.type = "list")
    /\ request.id = <<request.version, request.fact.code>>

-----------------------------------------------------------------------------
\* What both exporters share.  The cases that serve as examples of a fact are the first
\* ones with their value and outcome, ValueIn(case) being <<>> where there is no value.
ExampleCases(cases, ValueIn(_)) ==
    {cases[i].id : i \in {k \in DOMAIN cases :
        /\ ValueIn(cases[k]) # <<>>
        /\ ~\E j \in 1..(k - 1) : /\ ValueIn(cases[j]) = ValueIn(cases[k])
                                  /\ cases[j].outcome = cases[k].outcome}}

GivenValue(case, code) == IF code \in DOMAIN case.given THEN <<case.given[code]>> ELSE <<>>

\* The request of the i-th declaration of a result.
RequestFor(result, i, usages, examples) ==
    LET declaration == result.declarations[i]
    IN  [id |-> <<result.version, declaration.fact.code>>, version |-> result.version,
         fact |-> declaration.fact, query |-> declaration.query, usages |-> usages,
         examples |-> examples, uncertain |-> declaration.uncertain]
=============================================================================
