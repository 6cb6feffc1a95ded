----------------------------- MODULE ReleaseV3 -----------------------------
(***************************************************************************)
(* From an accepted 3.0.0 structure to a delivery that may be written      *)
(* (scripts/report_release_v3_formula_profile.py, domain/rules/result_v3,  *)
(* application/v3_persistence/service.py): a result is written for the     *)
(* candidate by hand-made code, which may slip, its requests are exported, *)
(* and the four files lie in a directory until they are persisted, perhaps *)
(* on another day, perhaps changed meanwhile.  It goes on where module     *)
(* StructureWorkflow ends.                                                 *)
(***************************************************************************)
EXTENDS StructureWorkflow, ReadinessV3

CONSTANTS Catalog,    \* the catalogue the workflow was built with
          KindOf,     \* the kind of query of each fact
          Givens,     \* the given values of the cases
          Slips,      \* what can go wrong when the result is written
          Changes     \* what can happen to the files before they are persisted

\* RuleStructureParsingServiceV3 refuses a catalogue with a flaw, and judges by it.
ASSUME CatalogAssumption == ValidCatalog(Catalog)
AcceptedOverCatalog(structure) == Accepts(structure, Catalog)

VARIABLES phase,      \* where the delivery is
          today,      \* date.today()
          slip,       \* history: what went wrong
          change,     \* history: what happened to the files
          files       \* [catalog, candidate, result, requests]
releaseVars == <<phase, today, slip, change, files>>

NoFiles  == [catalog |-> Catalog, candidate |-> <<>>, result |-> <<>>, requests |-> <<>>]
FirstDay == 5

ReleaseInit == /\ phase = "pending" /\ today = FirstDay /\ slip = "none" /\ change = "none"
               /\ files = NoFiles

-----------------------------------------------------------------------------
(* The result, as the profile writes it                                    *)

FieldOf(id, name) == [id |-> id, role |-> IF id = "factValue" THEN "value" ELSE "entityKey",
                      name |-> name, required |-> TRUE]
Computed == [mode |-> "compute", function |-> "count", inputs |-> <<"factValue">>, groupBy |-> <<>>,
             distinct |-> Bool(TRUE)]
Plain(mode) == [mode |-> mode, function |-> Absent, inputs |-> <<>>, groupBy |-> <<>>, distinct |-> Missing]
AggregationOf(kind) == CASE kind = "aggregate" -> Computed
                         [] kind = "exists"    -> Plain("exists")
                         [] kind = "source"    -> Plain("none")

QueryOf(fact, kind) ==
    LET keys == SetToSeq(EntityKeys(fact))
    IN  [grain |-> fact.grain, keys |-> keys,
         fields |-> <<FieldOf("factValue", fact.code)>> \o [i \in DOMAIN keys |-> FieldOf(keys[i], keys[i])],
         filters |-> [i \in DOMAIN keys |->
                        [field |-> keys[i], operator |-> "eq",
                         value |-> [kind |-> "parameter", name |-> keys[i], literal |-> Missing]]],
         aggregation |-> AggregationOf(kind),
         time |-> [mode |-> "none", field |-> Absent, zone |-> Absent, start |-> NoBoundary, end |-> NoBoundary],
         evidence |-> {<<"fact">>, <<"query">>},
         result |-> [type |-> fact.type, nullable |-> fact.nullable, nullPolicy |-> fact.nullPolicy,
                     cardinality |-> "scalar"]]

DeclarationOf(code) ==
    LET fact == [FactMap(Catalog)[code] EXCEPT !.kind = KindOf[code]]
    IN  [fact |-> fact, query |-> QueryOf(fact, KindOf[code]), uncertain |-> {}]

\* Every case expects what the interpreter says on the day it is written.
CaseOf(structure, given, i) ==
    LET decision == Evaluate(structure, Catalog, given, Date(today))
    IN  [id |-> i, given |-> given, outcome |-> decision.outcome, reason |-> decision.reason,
         matched |-> decision.matched]

BuildResult(structure, givens) ==
    LET identity == CatalogIdentity(Catalog)
        parser   == "ordered-v3-formula"
    IN  [set |-> structure.set, at |-> "20260920", parser |-> parser, ready |-> FALSE,
         version |-> RuleVersion(structure.set, "20260920", "block", identity),
         source  |-> [sha |-> "block", parser |-> parser],
         catalogRef |-> identity, candidateRef |-> [payload |-> structure, block |-> "block"],
         declarations |-> [i \in DOMAIN structure.required |-> DeclarationOf(structure.required[i])],
         cases |-> [i \in DOMAIN givens |-> CaseOf(structure, givens[i], i)]]

\* The same with a slip in the first declaration, in the cases or in a reference.
Slipped(result, how) ==
    CASE how \in {"none", "undated"} -> result
      [] how = "policy"    -> [result EXCEPT !.declarations[1].fact.nullPolicy = "pass",
                                             !.declarations[1].query.result.nullPolicy = "pass"]
      [] how = "type"      -> [result EXCEPT !.declarations[1].query.result.type = "boolean"]
      [] how = "kind"      -> [result EXCEPT !.declarations[1].query.aggregation = Computed,
                                             !.declarations[1].fact.kind = "source"]
      [] how = "optional"  -> [result EXCEPT !.declarations[1].query.fields[1].required = FALSE]
      [] how = "parameter" -> [result EXCEPT !.declarations[1].query.filters[1].value.name = "unknownId"]
      [] how = "omitted"   -> [result EXCEPT !.declarations = Tail(@)]
      [] how = "repeated"  -> [result EXCEPT !.declarations = Append(@, Head(@))]
      [] how = "expected"  -> [result EXCEPT !.cases[1].matched = <<>>]
      [] how = "ungiven"   -> [result EXCEPT !.cases = <<Head(@)>>, !.cases[1].given = <<>>]
      [] how = "edition"   -> [result EXCEPT !.catalogRef[2] = "0"]

-----------------------------------------------------------------------------
\* build_formula_result: the models refuse what has not their shape.
WriteResult ==
    /\ phase = "pending" /\ node = "end" /\ candidate # <<>>
    /\ slip' \in Slips
    /\ LET undated == [i \in DOMAIN Givens |-> FactsGiven(Givens[i])]
           given   == IF slip' = "undated" THEN undated ELSE Givens
           result  == Slipped(BuildResult(candidate[1], given), slip')
       IN  /\ files' = [files EXCEPT !.candidate = candidate[1], !.result = result]
           /\ phase' = IF /\ ResultShaped(result)
                          /\ \A declaration \in ToSet(result.declarations) : QueryShaped(declaration.query)
                       THEN "written" ELSE "refused"
    /\ UNCHANGED <<today, change>>

Goes(when, holds, next) ==
    /\ phase = when /\ phase' = IF holds THEN next ELSE "refused"
    /\ UNCHANGED <<today, slip, change>>
TheReport(requests) == Report(files.candidate, Catalog, files.result, requests)

\* build_formula_delivery: every gate but the fourth, then the export, then all of them.
AssessFirst ==
    /\ Goes("written", \A gate \in Gates \ {4} : TheReport(<<>>)[gate] = "pass", "assessed")
    /\ UNCHANGED files
ExportRequests ==
    LET ready == [files.result EXCEPT !.ready = TRUE]
        may   == MayExport(ready, files.candidate, Catalog, Date(today))
    IN  /\ Goes("assessed", may, "exported")
        /\ files' = IF may THEN [files EXCEPT !.result = ready, !.requests = Export(ready, files.candidate)]
                    ELSE files
AssessAgain == Goes("exported", IsReady(TheReport(files.requests)), "delivered") /\ UNCHANGED files

\* While the files wait to be persisted they may be edited, or the catalogue reissued.
Reissued(catalog) ==
    LET edition == [catalog EXCEPT !.version = "2", !.facts[1].nullPolicy = "pass"]
    IN  [edition EXCEPT !.digest = CatalogDigest(edition)]
Changed(f, how) ==
    CASE how = "dropped"    -> [f EXCEPT !.requests = Tail(@)]
      [] how = "duplicated" -> [f EXCEPT !.requests = Append(@, Head(@))]
      [] how = "reordered"  -> [f EXCEPT !.requests = Reverse(@)]
      [] how = "requery"    -> [f EXCEPT !.requests[1].query.filters = <<>>]
      [] how = "unready"    -> [f EXCEPT !.result.ready = FALSE]
      [] how = "restaged"   -> [f EXCEPT !.candidate.stages[3].rules[1].priority = 99]
      [] how = "reissued"   -> [f EXCEPT !.catalog = Reissued(@)]
Change ==
    /\ phase = "delivered" /\ change = "none"
    /\ change' \in Changes
    /\ files' = Changed(files, change')
    /\ UNCHANGED <<phase, today, slip>>

\* The day goes by once: cases that ask for today are judged on another one.
NextDay ==
    /\ phase \notin {"pending", "prepared", "refused"} /\ today = FirstDay
    /\ today' = today + 1
    /\ UNCHANGED <<phase, slip, change, files>>

\* prepare_v3_delivery.
Prepare ==
    /\ Goes("delivered", MayWrite(files.catalog, files.candidate, files.result, files.requests, Date(today)),
            "prepared")
    /\ UNCHANGED files

ReleaseNext == \/ WriteResult \/ AssessFirst \/ ExportRequests \/ AssessAgain
               \/ Change \/ NextDay \/ Prepare

RulesInit == WorkflowInit /\ ReleaseInit
RulesNext == \/ WorkflowNext /\ UNCHANGED releaseVars
             \/ ReleaseNext /\ UNCHANGED workflowVars
RulesSpec == RulesInit /\ [][RulesNext]_<<workflowVars, releaseVars>>

-----------------------------------------------------------------------------
\* A delivery that passes is of one piece, however it came about: every fact that an active
\* rule asks for has one request and nothing else has one, a request says of its fact what
\* the confirmed catalogue says, queries by its parameters alone, has an example, and is of
\* the version that is bound to this catalogue.
OfOnePiece(delivery) ==
    LET requests == ToSet(delivery.requests)
        facts    == FactMap(delivery.catalog)
    IN  /\ {request.fact.code : request \in requests} = ActiveRefs(delivery.candidate)
        /\ Len(delivery.requests) = Cardinality(ActiveRefs(delivery.candidate))
        /\ \A request \in requests :
              LET fact == facts[request.fact.code]
              IN  /\ \A field \in {"type", "grain", "nullable", "nullPolicy", "allowed"} :
                        request.fact[field] = fact[field]
                  /\ request.query.result.nullPolicy = fact.nullPolicy
                  /\ ParametersUsed(request.query) \subseteq ToSet(Names(fact))
                  /\ \E case \in ToSet(delivery.result.cases) : request.fact.code \in DOMAIN case.given
                  /\ request.version[4] = delivery.catalog.digest
DeliveryIsOfOnePiece == phase = "prepared" => OfOnePiece(files)

AsksForToday(structure) ==
    \E rule \in ToSet(ActiveOf(structure)) : \E c \in {n \in NodesOf(rule.when) : n.kind = "compare"} :
        \E e \in NodesOf(c.left) \cup (IF V2!HasRight(c) THEN NodesOf(c.right) ELSE {}) : e.kind = "today"
OnBothSides(structure) ==
    \E rule \in ToSet(ActiveOf(structure)) : \E c \in {n \in NodesOf(rule.when) : n.kind = "compare"} :
        V2!HasRight(c) /\ ExpressionRefs(c.left) \cap ExpressionRefs(c.right) # {}

\* What the workflow accepts can be delivered: when nothing slips and nothing but the order
\* of the requests changes, no gate refuses the delivery, with two exceptions: a condition
\* with one fact on both sides, and a rule that asks for today whose cases do not say on
\* which day they are judged, when the day has gone by.
HonestDeliveryIsPrepared ==
    phase = "refused" /\ slip \in {"none", "undated"} /\ change \in {"none", "reordered"} =>
        \/ OnBothSides(files.candidate)
        \/ slip = "undated" /\ AsksForToday(files.candidate) /\ today # FirstDay
=============================================================================
