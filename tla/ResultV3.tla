------------------------------ MODULE ResultV3 ------------------------------
(***************************************************************************)
(* The parse result of Schema 3.0.0 and the export of one request per fact *)
(* (domain/rules/result_v3.py).  A hash is what it is a hash of, and its   *)
(* twelve-digit prefix in the rule version is the whole of it.  A result   *)
(* is [set, version, at, source, parser, catalogRef, candidateRef,         *)
(* declarations, cases, ready], a declaration [fact, query, uncertain], a  *)
(* case [id, given, outcome, reason, matched].                             *)
(***************************************************************************)
EXTENDS StructureV3, BindingsV3

\* build_rule_version_v3; catalogRef is the identity <<id, version, digest>>.
RuleVersion(set, at, source, catalogRef) == <<set, at, source, catalogRef[3]>>

DeclaredCodes(result) == [i \in DOMAIN result.declarations |-> result.declarations[i].fact.code]
CaseIds(result)       == [i \in DOMAIN result.cases |-> result.cases[i].id]

\* RuleParseResultV3.validate_shape.
ResultShaped(result) ==
    /\ result.version = RuleVersion(result.set, result.at, result.candidateRef.block, result.catalogRef)
    /\ result.source = [sha |-> result.candidateRef.block, parser |-> result.parser]
    /\ result.declarations # <<>> /\ ~Repeats(DeclaredCodes(result))
    /\ result.cases # <<>> /\ ~Repeats(CaseIds(result))

\* Mutant: MatchesCatalog as it would be if it forgot the policy for null.
MatchesCatalogLoosely(fact, facts) ==
    /\ fact.code \in DOMAIN facts
    /\ \A field \in {"type", "nullable", "grain", "allowed", "parameters"} :
          fact[field] = facts[fact.code][field]
\* A declared fact says what the catalogue says of it.
MatchesCatalog(fact, facts) ==
    /\ fact.code \in DOMAIN facts
    /\ \A field \in {"type", "nullable", "nullPolicy", "grain", "allowed", "parameters"} :
          fact[field] = facts[fact.code][field]

\* _assert_test_cases_pass_v3: today is the day on which this runs.
Reproduces(case, candidate, catalog, today) ==
    LET decision == Evaluate(candidate, catalog, case.given, today)
    IN  <<decision.outcome, decision.reason, decision.matched>> = <<case.outcome, case.reason, case.matched>>

\* _usages_by_fact: every side of a comparison of an active rule that the fact is on.
UsagesIn(rule, stage, code) ==
    LET compares == {n \in NodesOf(rule.when) : n.kind = "compare"}
        On(c, side) == side \in DOMAIN c /\ code \in ExpressionRefs(c[side])
    IN  {[stage |-> stage, rule |-> rule.code, condition |-> pair[1].id, side |-> pair[2]] :
            pair \in {p \in compares \X {"left", "right"} : On(p[1], p[2])}}
UsagesOf(candidate, code) ==
    UNION {UNION {UsagesIn(rule, stage.stage, code) : rule \in ToSet(ActiveRules(stage))}
           : stage \in ToSet(candidate.stages)}

\* The requests, in the order of the declarations.
ExamplesOf(result, code) == ExampleCases(result.cases, LAMBDA case : GivenValue(case, code))
Export(result, candidate) ==
    [i \in DOMAIN result.declarations |->
        LET code == result.declarations[i].fact.code
        IN  RequestFor(result, i, UsagesOf(candidate, code), ExamplesOf(result, code))]

\* What export_fact_binding_requests_v3 asks for before it exports, and of what it exports.
MayExport(result, candidate, catalog, today) ==
    /\ candidate.issues = <<>>
    /\ result.ready
    /\ Accepts(candidate, catalog)
    /\ result.set = candidate.set
    /\ result.catalogRef = CatalogIdentity(catalog)
    /\ result.candidateRef.payload = candidate
    /\ result.candidateRef.block = result.source.sha
    /\ ToSet(DeclaredCodes(result)) = ToSet(candidate.required)
    /\ \A declaration \in ToSet(result.declarations) : MatchesCatalog(declaration.fact, FactMap(catalog))
    /\ \A case \in ToSet(result.cases) : Reproduces(case, candidate, catalog, today)
    /\ \A request \in ToSet(Export(result, candidate)) : RequestShaped(request)
=============================================================================
