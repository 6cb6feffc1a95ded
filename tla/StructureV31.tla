---------------------------- MODULE StructureV31 ----------------------------
(***************************************************************************)
(* Rule structure candidates of Schema 3.1.0 (domain/rules/v31.py,         *)
(* validation_v31.py).  To a 3.0.0 candidate they add runtime parameters,  *)
(* a function from names to [type, bound] with bound MISSING when no value *)
(* is bound, and what a hit means in each stage; a stage may be empty if   *)
(* it says why.  Blocking issues, proposed facts and the outcomes of       *)
(* stages are not cross-checked here.  What recurs over the trees of       *)
(* conditions is a parameter: module ConditionsV31 has it.                 *)
(***************************************************************************)
EXTENDS FactCatalog, StagedDecision, FiniteSets

CONSTANTS NodesOf(_),              \* a node and everything below it
          SizeOf(_),               \* how many nodes that is, repeated ones counted
          InferredTypeOf(_, _, _), \* the type inferred for an expression
          ValueOf(_, _, _, _),     \* _evaluate_expression
          ResultOf(_, _, _, _)     \* evaluate_condition_v31

V31 == INSTANCE ConditionNodesV31

\* RuleNodeV31, RuleStageV31 and RuleStructureCandidateV31 as pydantic reads them.
OnHit(stage) == IF stage = "eligibility" THEN "firstMatchThenContinue" ELSE "terminate"
RuleShaped(rule) ==
    LET decisive == {"when", "outcome", "reason"}
    IN  IF IsActive(rule) THEN decisive \subseteq DOMAIN rule /\ rule.issues = <<>>
        ELSE decisive \cap DOMAIN rule = {} /\ rule.issues # <<>>
StageShaped(stage) == (stage.rules = <<>>) = ("emptyStageReason" \in DOMAIN stage)
WellShaped(candidate) ==
    /\ Len(candidate.stages) = Len(StageOrder)
    /\ \A stage \in ToSet(candidate.stages) : StageShaped(stage)
    /\ \A rule \in ToSet(RulesOf(candidate.stages)) :
          RuleShaped(rule) /\ (IsActive(rule) => V31!Shaped(rule.when))
    /\ candidate.semantics = [stage \in ToSet(StageOrder) |-> OnHit(stage)]
    /\ candidate.parameters # <<>>

ActiveOf(candidate) == SelectSeq(RulesOf(candidate.stages), IsActive)
Priorities(stage)   == [i \in DOMAIN stage.rules |-> stage.rules[i].priority]
Ascending(numbers)  == \A i, j \in DOMAIN numbers : i < j => numbers[i] < numbers[j]

StageFlaw(candidate) ==
    \/ [i \in DOMAIN candidate.stages |-> candidate.stages[i].stage] # StageOrder
    \/ Repeats(Codes(RulesOf(candidate.stages)))
    \/ \E stage \in ToSet(candidate.stages) :
          \/ stage.stage = "eligibility" /\ stage.rules = <<>>
          \/ ~Ascending(Priorities(stage))

ActiveRefs(candidate) ==
    UNION {V31!ConditionRefs(rule.when) : rule \in ToSet(ActiveOf(candidate))}

ConditionFlaw(candidate, facts) ==
    LET rules == ActiveOf(candidate)
        ids   == {n.id : n \in UNION {NodesOf(rule.when) : rule \in ToSet(rules)}}
    IN  \/ Cardinality(ids) # FoldLeft(LAMBDA n, rule : n + SizeOf(rule.when), 0, rules)
        \/ \E rule \in ToSet(rules) :
              \/ V31!TypeIssue(rule.when, facts, candidate.parameters)
              \/ ~(V31!ParameterRefs(rule.when) \subseteq DOMAIN candidate.parameters)
        \/ Repeats(candidate.required)
        \/ ToSet(candidate.required) # ActiveRefs(candidate)
        \/ ~(ActiveRefs(candidate) \subseteq DOMAIN facts)

\* validate_rule_structure_candidate_v31 accepts.
Accepts(candidate, catalog) ==
    /\ ValidCatalog(catalog) /\ candidate.safe
    /\ candidate.catalog = CatalogIdentity(catalog)
    /\ ~StageFlaw(candidate)
    /\ ~ConditionFlaw(candidate, FactMap(catalog))
    /\ candidate.defaultOutcome = "WAITING_CONDITIONS"

-----------------------------------------------------------------------------
\* _given_issues_v31 finds nothing.
FitsFact(value, fact) ==
    IF value = Null THEN fact.nullable
    ELSE /\ V31!MatchesType(value, fact.type)
         /\ fact.allowed # <<>> => PyIn(value, List(fact.allowed))
GivenFits(given, facts) ==
    DOMAIN given \subseteq DOMAIN facts /\ \A code \in DOMAIN given : FitsFact(given[code], facts[code])

\* Values bound in the candidate stand in for runtime values that the caller leaves out.
Runtime(candidate, runtime) ==
    LET bound == {name \in DOMAIN candidate.parameters : candidate.parameters[name].bound # Missing}
    IN  Overlay(runtime, [name \in bound |-> candidate.parameters[name].bound])

ResultsOf(candidate, context, facts) ==
    LET Results(stage) ==
            [i \in Active(stage) |-> ResultOf(stage.rules[i].when, context, facts, candidate.parameters)]
    IN  [n \in DOMAIN candidate.stages |-> Results(candidate.stages[n])]

\* evaluate_rule_structure_v31 of an accepted candidate.
Evaluate(candidate, catalog, given, runtime, members) ==
    LET facts   == FactMap(catalog)
        context == [facts |-> given, runtime |-> Runtime(candidate, runtime), members |-> members]
    IN  IF Blocked(candidate) THEN BlockedDecision
        ELSE IF ~GivenFits(given, facts)
        THEN [BlockedDecision EXCEPT !.outcome = "refused", !.reason = "GIVEN_INVALID"]
        ELSE Decide(candidate, ResultsOf(candidate, context, facts))
=============================================================================
