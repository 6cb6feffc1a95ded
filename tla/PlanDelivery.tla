---------------------------- MODULE PlanDelivery ----------------------------
(***************************************************************************)
(* How the two trees, their catalogues and their cases are put together    *)
(* into complete deliveries (domain/optimization_plan/queries.py,          *)
(* profile.py), each bound to the identity of the plan it was read from:   *)
(* [file, input, extractor, sections].                                     *)
(***************************************************************************)
EXTENDS PlanCases, ResultV31, PlanIdentity

\* REPORT_FACT_KINDS and DATA_FACT_KINDS, which have no code in common but one.
KindOf(code) ==
    CASE code \in {"release.special_application_count", "report.merge_group_member_ids",
                   "order.seal_scope_contract_ids"} -> "aggregate"
      [] code \in {"task.in_project_report_release_oa", "order.sequencing_services_complete",
                   "task.in_raw_data_release_oa"} -> "exists"
      [] OTHER -> "source"

\* The parts of a query; the evidence is query.<fact> everywhere.
Field(id, role) == [id |-> id, role |-> role, name |-> id, required |-> TRUE]
BaseFields(fact) ==
    <<[Field("factValue", "value") EXCEPT !.name = fact.code, !.required = ~fact.nullable],
      Field(fact.grain, "entityKey")>>
LiteralFilter(field, operator, value) ==
    [field |-> field, operator |-> operator,
     value |-> [kind |-> "literal", name |-> Absent, literal |-> value]]
ParameterFilter(field, operator, name) ==
    [field |-> field, operator |-> operator,
     value |-> [kind |-> "parameter", name |-> name, literal |-> Missing]]

Aggregation(mode) == [mode |-> mode, function |-> Absent, inputs |-> <<>>, groupBy |-> <<>>, distinct |-> Missing]
Count(input) == [mode |-> "compute", function |-> "count", inputs |-> <<input>>, groupBy |-> <<>>,
                 distinct |-> Bool(FALSE)]
Timeless == [mode |-> "none", field |-> Absent, zone |-> Absent, start |-> NoBoundary, end |-> NoBoundary]
AsOf     == [mode |-> "asOf", field |-> "status.asOfDate", zone |-> "Asia/Shanghai", start |-> NoBoundary,
             end |-> [kind |-> "parameter", name |-> "evaluationDate", literal |-> Missing]]

Query(fact, fields, filters, aggregation, time) ==
    [grain |-> fact.grain, keys |-> <<EntityKey(fact.grain).name>>,
     fields |-> BaseFields(fact) \o fields, filters |-> filters, aggregation |-> aggregation,
     time |-> time, evidence |-> {<<"query">>},
     result |-> [type |-> fact.type, nullable |-> fact.nullable, nullPolicy |-> fact.nullPolicy,
                 cardinality |-> IF fact.type = "list" THEN "set" ELSE "scalar"]]

Filters(ids) == [i \in DOMAIN ids |-> Field(ids[i], "filter")]

\* build_query_for_fact; of a text literal only that it is a text of its own matters.
SpecialApplicationQuery(fact, type) ==
    Query(fact, Filters(<<"application.type", "approval.nodeType", "application.rowId">>),
          <<LiteralFilter("application.type", "eq", Whole(type)),
            LiteralFilter("approval.nodeType", "in", List(Ints(<<3>>)))>>,
          Count("application.rowId"), Timeless)
MergeGroupQuery(fact) ==
    Query(fact, Filters(<<"relationship.kind", "member.taskId">>),
          <<LiteralFilter("relationship.kind", "eq", Text(21)),
            ParameterFilter("member.taskId", "ne", "taskId")>>, Aggregation("none"), Timeless)
SealScopeQuery(fact) ==
    Query(fact, <<Field("contract.inSealScope", "filter")>>
                \o [i \in 1..2 |-> [Field(<<"contract.remainingAmount", "contract.isExecutionContract">>[i], "filter")
                                    EXCEPT !.required = FALSE]],
          <<LiteralFilter("contract.inSealScope", "eq", Bool(TRUE))>>, Aggregation("none"), Timeless)
ExistsQuery(fact, fields, field, value) ==
    Query(fact, Filters(fields), <<LiteralFilter(field, "eq", value)>>, Aggregation("exists"), Timeless)
DefaultQuery(fact) ==
    IF fact.type = "enum"
    THEN Query(fact, <<Field("status.asOfDate", "time")>>, <<>>, Aggregation("none"), AsOf)
    ELSE Query(fact, <<>>, <<>>, Aggregation("none"), Timeless)

BuildQuery(fact, kind) ==
    LET services == <<"service.isSequencing", "service.completedQuantity", "service.requestedQuantity">>
    IN  CASE fact.code = "release.special_application_count" ->
               SpecialApplicationQuery(fact, IF kind = "report" THEN 1 ELSE 2)
          [] fact.code = "report.merge_group_member_ids"  -> MergeGroupQuery(fact)
          [] fact.code = "order.seal_scope_contract_ids"  -> SealScopeQuery(fact)
          [] fact.code = "task.in_project_report_release_oa" ->
               ExistsQuery(fact, <<"oa.processKind">>, "oa.processKind", Text(22))
          [] fact.code = "task.in_raw_data_release_oa" ->
               ExistsQuery(fact, <<"oa.processKind">>, "oa.processKind", Text(23))
          [] fact.code = "order.sequencing_services_complete" ->
               ExistsQuery(fact, services, services[1], Bool(TRUE))
          [] OTHER -> DefaultQuery(fact)

-----------------------------------------------------------------------------
\* A case of cases.py as it stands in a result: its id is its place in the file.
ResultCases(cases) ==
    LET order == FoldSet(LAMBDA case, some : Append(some, case), <<>>, cases)
    IN  [i \in DOMAIN order |->
            [id |-> i, given |-> order[i].given, members |-> order[i].members,
             runtime |-> [evaluationDate |-> IsoDate(order[i].day)],
             outcome |-> order[i].outcome, reason |-> order[i].reason, matched |-> order[i].matched]]

\* Mutant: only the facts that are read as they are get a declaration.
SourceDeclarations(catalog, candidate, kind) ==
    LET facts == FactMap(catalog)
        codes == SelectSeq(candidate.required, LAMBDA code : KindOf(code) = "source")
    IN  [i \in DOMAIN codes |-> [fact |-> facts[codes[i]], query |-> BuildQuery(facts[codes[i]], kind),
                                 uncertain |-> {}]]
\* _declarations: one for every required fact, in their order.
Declarations(catalog, candidate, kind) ==
    LET facts == FactMap(catalog)
    IN  [i \in DOMAIN candidate.required |->
            LET fact == [facts[candidate.required[i]] EXCEPT !.kind = KindOf(candidate.required[i])]
            IN  [fact |-> fact, query |-> BuildQuery(fact, kind), uncertain |-> {}]]

\* _build_result.
BuildResult(kind, catalog, candidate, cases) ==
    LET identity == candidate.identity
        at == "20260920T131600000000Z"
    IN  [set |-> candidate.set, at |-> at, parser |-> Parser, ready |-> TRUE,
         version |-> RuleVersion(candidate.set, at, identity.file, catalog.digest),
         source  |-> [file |-> identity.file, input |-> identity.input, parser |-> Parser],
         catalogRef   |-> [digest |-> catalog.digest, payload |-> catalog],
         candidateRef |-> [payload |-> candidate, input |-> identity.input],
         deliveryRef  |-> [catalog |-> catalog, candidate |-> candidate,
                           purpose |-> "optimization-plan-generation"],
         declarations |-> Declarations(catalog, candidate, kind), cases |-> ResultCases(cases)]

\* build_delivery, <<>> where it raises.
Delivered(catalog, candidate, result) ==
    IF /\ Frozen(candidate.identity) /\ WellShaped(candidate)
       /\ \A declaration \in ToSet(result.declarations) : QueryShaped(declaration.query)
       /\ ResultShaped(result) /\ MayExport(result, candidate, catalog)
    THEN <<[catalog |-> catalog, candidate |-> candidate, result |-> result,
            requests |-> Export(result, candidate)]>>
    ELSE <<>>
WithResult(kind, catalog, candidate, cases) ==
    Delivered(catalog, candidate, BuildResult(kind, catalog, candidate, cases))
BuildDelivery(kind, identity) ==
    LET report == kind = "report"
    IN  WithResult(kind, IF report THEN ReportCatalog(identity.file) ELSE DataCatalog(identity.file),
                   IF report THEN ReportCandidate(identity) ELSE DataCandidate(identity),
                   IF report THEN ReportCases ELSE DataCases)
=============================================================================
