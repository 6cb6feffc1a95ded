----------------------------- MODULE ReadinessV3 -----------------------------
(***************************************************************************)
(* The sixteen gates before a 3.0.0 candidate may be handed to Agent 2     *)
(* (domain/rules/readiness_v3.py), and the gates a delivery passes before  *)
(* anything of it is written (application/v3_persistence/service.py).      *)
(***************************************************************************)
EXTENDS ResultV3

Gates == 1..16
\* The gates that only a result can open, and what they are without one.
NeedResult == {1, 4, 5} \cup 7..12
WithoutResult(gate) == IF gate \in {4, 5} THEN "blocked" ELSE "fail"

KindModes(kind) == CASE kind = "source"    -> {"none", "precomputed"}
                     [] kind = "aggregate" -> {"compute"}
                     [] kind = "exists"    -> {"exists"}

\* Every code that the candidate mentions anywhere.
Mentioned(candidate) ==
    UNION {ToSet(candidate.required), ActiveRefs(candidate)}
        \cup UNION {issue.facts : issue \in ToSet(candidate.issues)}

\* Gates 2, 3, 6 and 13 to 16 look at candidate and catalogue alone.
CandidateGate(gate, candidate, catalog) ==
    LET facts    == FactMap(catalog)
        unknown  == Mentioned(candidate) \ DOMAIN facts
        HasKey(fact) == \E p \in ToSet(fact.parameters) : p.role = "entityKey"
        Proved(fact) == fact.evidence # <<>> /\ ToSet(fact.evidence) \subseteq ToSet(EvidenceIds(catalog))
        rules    == ToSet(RulesOf(candidate.stages))
    IN  CASE gate = 2  -> candidate.issues = <<>>
          [] gate = 3  -> candidate.issues = <<>> /\ unknown = {}
          [] gate = 6  -> unknown = {} /\ \A code \in Mentioned(candidate) : HasKey(facts[code])
          [] gate = 13 -> \A rule \in rules : IsActive(rule)
          [] gate = 14 -> unknown = {} /\ \A code \in Mentioned(candidate) : Proved(facts[code])
          [] gate = 15 -> candidate.catalog = CatalogIdentity(catalog)
          [] gate = 16 -> TRUE

RequestsClose(result, requests) ==
    LET codes == [i \in DOMAIN requests |-> requests[i].fact.code]
    IN  /\ ToSet(codes) = ToSet(DeclaredCodes(result))
        /\ Len(requests) = Cardinality(ToSet(DeclaredCodes(result)))
        /\ \A request \in ToSet(requests) : request.id = <<result.version, request.fact.code>>

\* Gates 1, 4, 5 and 7 to 12 look at the result, gate 4 at the requests as well.
ResultGate(gate, catalog, result, requests) ==
    LET All(P(_)) == \A declaration \in ToSet(result.declarations) : P(declaration)
        Stable(d) == \E field \in ToSet(d.query.fields) : field.id = "factValue" /\ field.required
        Resolved(d) == \A filter \in ToSet(d.query.filters) : FilterShaped(filter)
        Scalar(d) == d.query.result.cardinality = "scalar" /\ d.query.result.type = d.fact.type
    IN  CASE gate = 1  -> /\ SubSeq(result.version, 3, 4) = <<result.candidateRef.block, result.catalogRef[3]>>
                          /\ result.candidateRef.block = result.source.sha
                          /\ result.catalogRef = CatalogIdentity(catalog)
          [] gate = 4  -> RequestsClose(result, requests)
          [] gate = 5  -> All(LAMBDA d : d.fact.kind \in {"source", "aggregate", "exists"})
          [] gate = 7  -> All(Stable)
          [] gate = 9  -> All(Resolved)
          [] gate = 10 -> All(LAMBDA d : d.query.aggregation.mode \in KindModes(d.fact.kind))
          [] gate = 12 -> All(Scalar)
          [] gate \in {8, 11} -> TRUE

\* build_agent2_readiness_report_v3 before there is a result, and with one.
EarlyReport(candidate, catalog) ==
    [gate \in Gates |-> IF gate \in NeedResult THEN WithoutResult(gate)
                        ELSE IF CandidateGate(gate, candidate, catalog) THEN "pass" ELSE "fail"]
Report(candidate, catalog, result, requests) ==
    [gate \in Gates |-> IF gate \notin NeedResult THEN EarlyReport(candidate, catalog)[gate]
                        ELSE IF ResultGate(gate, catalog, result, requests) THEN "pass" ELSE "fail"]
IsReady(report) == \A gate \in Gates : report[gate] = "pass"

-----------------------------------------------------------------------------
\* Mutant: MayWrite if it compared the requests in their order.
MayWriteInOrder(catalog, candidate, result, requests, today) ==
    /\ candidate.issues = <<>> /\ result.ready
    /\ IsReady(Report(candidate, catalog, result, requests))
    /\ MayExport(result, candidate, catalog, today)
    /\ requests = Export(result, candidate)
\* _run_write_ahead_gates: the requests must be the ones that the export gives now.
MayWrite(catalog, candidate, result, requests, today) ==
    /\ candidate.issues = <<>> /\ result.ready
    /\ IsReady(Report(candidate, catalog, result, requests))
    /\ MayExport(result, candidate, catalog, today)
    /\ ~Repeats([i \in DOMAIN requests |-> requests[i].id])
    /\ ToSet(requests) = ToSet(Export(result, candidate))

=============================================================================
