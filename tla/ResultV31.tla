------------------------------ MODULE ResultV31 ------------------------------
(***************************************************************************)
(* The parse result of Schema 3.1.0, the export of its requests            *)
(* (domain/rules/result_v31.py), and the gates a 3.1.0 delivery passes     *)
(* before anything of it is written (application/v31_persistence).  It is  *)
(* bound to two hashes, of the file and of the parse input.  A hash is     *)
(* what it is a hash of.  A result is [set, version, at, source, parser,   *)
(* catalogRef, candidateRef, deliveryRef, declarations, cases, ready], a   *)
(* case [given, runtime, members, outcome, reason, matched].               *)
(***************************************************************************)
EXTENDS StructureV31, BindingsV3

\* build_rule_version_v31: of the hashes, a prefix.
RuleVersion(set, at, file, digest) == <<set, at, file, digest>>
Historical == <<"REPORT_RELEASE_ALL_001", "20260905T172407000000Z", "f285643e5b2b", "82dbd05a800a">>

\* RuleParseResultV31.validate_shape.
DeclaredCodes(result) == [i \in DOMAIN result.declarations |-> result.declarations[i].fact.code]
CaseIds(result)       == [i \in DOMAIN result.cases |-> result.cases[i].id]
ResultShaped(result) ==
    /\ result.version = RuleVersion(result.set, result.at, result.source.file, result.catalogRef.digest)
    /\ result.source.file # result.source.input
    /\ result.candidateRef.input = result.source.input
    /\ result.source.parser = result.parser
    /\ result.deliveryRef.catalog = result.catalogRef.payload
    /\ result.deliveryRef.candidate = result.candidateRef.payload
    /\ result.declarations # <<>> /\ ~Repeats(DeclaredCodes(result))
    /\ result.cases # <<>> /\ ~Repeats(CaseIds(result))

\* _assert_test_cases_pass_v31.
Decided(case, candidate, catalog) == Evaluate(candidate, catalog, case.given, case.runtime, case.members)
Agrees(decision, case) ==
    <<decision.outcome, decision.reason, decision.matched>> = <<case.outcome, case.reason, case.matched>>
Reproduces(case, candidate, catalog) == Agrees(Decided(case, candidate, catalog), case)

\* _usages_by_fact: a collection is used by the condition that asks its members.
UsedBy(node) ==
    LET Refs(e) == {n.code : n \in {m \in NodesOf(e) : m.kind = "fact"}}
    IN  UNION {Refs(e) : e \in ToSet(V31!Optional(node, "left") \o V31!Optional(node, "right"))}
        \cup ToSet(V31!Optional(node, "collection"))
UsagesOf(candidate, code) ==
    UNION {UNION {{[stage |-> stage.stage, rule |-> rule.code, condition |-> node.id] :
                      node \in {n \in NodesOf(rule.when) : code \in UsedBy(n)}}
                  : rule \in ToSet(ActiveRules(stage))}
           : stage \in ToSet(candidate.stages)}

\* _examples_for_fact takes the value given for the task, else the first member's.
ValueIn(case, code) ==
    LET asked == {key \in DOMAIN case.members : code \in DOMAIN case.members[key]}
    IN  IF code \in DOMAIN case.given THEN <<case.given[code]>>
        ELSE IF asked = {} THEN <<>> ELSE <<case.members[CHOOSE key \in asked : TRUE][code]>>

\* The result of a query is written over with what the fact says of it.
Overwritten(request) ==
    [request EXCEPT !.query.result =
        [type |-> request.fact.type, nullable |-> request.fact.nullable,
         nullPolicy |-> request.fact.nullPolicy,
         cardinality |-> IF request.fact.type = "list" THEN "set" ELSE "scalar"]]

ExamplesOf(result, code) == ExampleCases(result.cases, LAMBDA case : ValueIn(case, code))
Export(result, candidate) ==
    [i \in DOMAIN result.declarations |->
        LET code == result.declarations[i].fact.code
        IN  Overwritten(RequestFor(result, i, UsagesOf(candidate, code), ExamplesOf(result, code)))]

\* What the export and the gates of persistence both ask for: the result is of this
\* candidate, this catalogue and this source.
Belongs(result, candidate, catalog) ==
    /\ candidate.issues = <<>> /\ result.ready
    /\ result.set = candidate.set
    /\ result.catalogRef.digest = catalog.digest
    /\ result.candidateRef.payload = candidate
    /\ result.candidateRef.input = candidate.identity.input
    /\ result.source.file = candidate.identity.file
    /\ Accepts(candidate, catalog)

\* export_fact_binding_requests_v31 raises nothing.
MayExport(result, candidate, catalog) ==
    /\ Belongs(result, candidate, catalog)
    /\ \A case \in ToSet(result.cases) : Reproduces(case, candidate, catalog)
    /\ \A request \in ToSet(Export(result, candidate)) : RequestShapedV31(request)

-----------------------------------------------------------------------------
\* allowed_purposes_for_rule_version: the delivery of 2026-09-05 is there for audit alone.
GenerationAllowed(version) == version # Historical

\* _run_write_ahead_gates.
MayWrite(catalog, candidate, result, requests) ==
    /\ GenerationAllowed(result.version)
    /\ Belongs(result, candidate, catalog)
    /\ result.source.input = candidate.identity.input
    /\ Len(requests) = Len(result.declarations)
    /\ ToSet(requests) = ToSet(Export(result, candidate))
    /\ MayExport(result, candidate, catalog)
=============================================================================
