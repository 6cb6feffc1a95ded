---------------------------- MODULE StructureV3 ----------------------------
(***************************************************************************)
(* Rule structure candidates of Schema 3.0.0 (domain/rules/v3.py,          *)
(* validation_v3.py): what their fields must look like, what is checked of *)
(* them against the fact catalogue, and how they are interpreted.  A       *)
(* candidate is [catalog, stages, required, defaultOutcome, defaultReason, *)
(* issues, proposed, views, safe]; an issue is [id, facts].  What recurs   *)
(* over the trees of conditions is a parameter: module ConditionsV2 has    *)
(* it.                                                                     *)
(***************************************************************************)
EXTENDS FactCatalog, StagedDecision, FiniteSets

V2 == INSTANCE ConditionShapesV2

CONSTANTS NodesOf(_),            \* a node and everything below it
          SizeOf(_),             \* how many nodes that is, repeated ones counted
          InferredTypeOf(_, _),  \* the type inferred for an expression
          InferenceFails(_, _),  \* infer_expression_type has an issue with it
          ResultOf(_, _, _, _)   \* evaluate_condition

-----------------------------------------------------------------------------
(* Conditions and the facts they refer to                                  *)

ExpressionRefs(e) == {n.code : n \in {m \in NodesOf(e) : m.kind = "fact"}}

ConditionRefs(node) ==
    UNION {ExpressionRefs(c.left) \cup (IF V2!HasRight(c) THEN ExpressionRefs(c.right) ELSE {})
           : c \in {m \in NodesOf(node) : m.kind = "compare"}}

Shaped(condition) ==
    /\ \A node \in NodesOf(condition) : V2!ConditionShaped(node)
    /\ \A c \in {n \in NodesOf(condition) : n.kind = "compare"} :
          \A e \in NodesOf(c.left) \cup (IF V2!HasRight(c) THEN NodesOf(c.right) ELSE {}) : V2!ExpressionShaped(e)

Compatible(left, right) ==
    V2!Compatible(left, right) \/ (left = "enum" /\ right \in {"integer", "number"})

\* _validate_condition_types.
TypeIssue(condition, facts) ==
    \E c \in {n \in NodesOf(condition) : n.kind = "compare"} :
        \/ InferenceFails(c.left, facts)
        \/ /\ V2!HasRight(c)
           /\ \/ InferenceFails(c.right, facts)
              \/ LET left  == InferredTypeOf(c.left, facts)
                     right == InferredTypeOf(c.right, facts)
                 IN  ~V2!TypesFit(c.operator, left, right, Compatible(left, right))

-----------------------------------------------------------------------------
(* Structures                                                              *)

\* RuleNodeV3 and RuleStageV3 as pydantic reads them.
Decides(rule)   == {"when", "outcome", "reason"} \subseteq DOMAIN rule
Decideless(rule) == {"when", "outcome", "reason"} \cap DOMAIN rule = {}
RuleShaped(rule) == IF IsActive(rule) THEN Decides(rule) /\ rule.issues = <<>>
                    ELSE Decideless(rule) /\ rule.issues # <<>>
WellShaped(candidate) ==
    /\ Len(candidate.stages) = Len(StageOrder)
    /\ \A i \in DOMAIN candidate.stages : candidate.stages[i].rules # <<>>
    /\ \A rule \in ToSet(RulesOf(candidate.stages)) :
          RuleShaped(rule) /\ (IsActive(rule) => Shaped(rule.when))

ActiveOf(candidate) == SelectSeq(RulesOf(candidate.stages), IsActive)

\* What an active rule of each stage may decide.
AllowedOutcomes(stage) ==
    CASE stage = "eligibility"   -> {"READY"}
      [] stage = "stateGuards"   -> {"SKIPPED", "ALREADY_RELEASED", "NO_RELEASE_REQUIRED"}
      [] stage = "prerequisites" -> {"WAITING_COMPLETION", "WAITING_CONDITIONS",
                                     "NO_RELEASE_REQUIRED", "ALREADY_RELEASED"}
      [] stage \in {"postGates", "exclusions"} ->
             {"WAITING_CONDITIONS", "NO_RELEASE_REQUIRED", "INDETERMINATE"}

Priorities(stage) == [i \in DOMAIN stage.rules |-> stage.rules[i].priority]
Ascending(numbers) == \A i, j \in DOMAIN numbers : i < j => numbers[i] < numbers[j]

\* Stages, priorities, codes and outcomes.
StageFlaw(candidate) ==
    \/ [i \in DOMAIN candidate.stages |-> candidate.stages[i].stage] # StageOrder
    \/ Repeats(Codes(RulesOf(candidate.stages)))
    \/ \E stage \in ToSet(candidate.stages) :
          \/ ~Ascending(Priorities(stage))
          \/ \E rule \in ToSet(ActiveRules(stage)) : rule.outcome \notin AllowedOutcomes(stage.stage)

\* Every blocking issue blocks a rule, and every rule is blocked by issues that exist.
IssueFlaw(candidate) ==
    LET ids == [i \in DOMAIN candidate.issues |-> candidate.issues[i].id]
        used == UNION {ToSet(rule.issues) : rule \in ToSet(RulesOf(candidate.stages))}
    IN  Repeats(ids) \/ used # ToSet(ids)

ActiveRefs(candidate) ==
    UNION {ConditionRefs(rule.when) : rule \in ToSet(ActiveOf(candidate))}

\* The conditions of the active rules: ids, types, and the facts they refer to, which are
\* exactly the required ones.
ConditionFlaw(candidate, facts) ==
    LET rules == ActiveOf(candidate)
        ids   == {n.id : n \in UNION {NodesOf(rule.when) : rule \in ToSet(rules)}}
    IN  \/ Cardinality(ids) # FoldLeft(LAMBDA n, rule : n + SizeOf(rule.when), 0, rules)
        \/ \E rule \in ToSet(rules) : TypeIssue(rule.when, facts)
        \/ Repeats(candidate.required)
        \/ ToSet(candidate.required) # ActiveRefs(candidate)
        \/ ~(ActiveRefs(candidate) \subseteq DOMAIN facts)

\* A concept outside the catalogue is proposed, and named by an issue.
ProposalFlaw(candidate, facts) ==
    LET proposed == ToSet(candidate.proposed)
        blocking == UNION {issue.facts : issue \in ToSet(candidate.issues)}
    IN  \/ Repeats(candidate.proposed)
        \/ proposed \cap DOMAIN facts # {}
        \/ ~(proposed \subseteq blocking)
        \/ ~(blocking \subseteq proposed \cup DOMAIN facts)

\* validate_rule_structure_candidate_v3 accepts.
Accepts(candidate, catalog) ==
    LET facts == FactMap(catalog)
    IN  /\ ValidCatalog(catalog) /\ candidate.safe
        /\ candidate.catalog = CatalogIdentity(catalog)
        /\ ~StageFlaw(candidate)
        /\ ~IssueFlaw(candidate)
        /\ ~ConditionFlaw(candidate, facts)
        /\ ~ProposalFlaw(candidate, facts)
        /\ candidate.defaultOutcome = "WAITING_CONDITIONS"
        /\ ~Repeats(candidate.views)

-----------------------------------------------------------------------------
\* _split_evaluation_given: what is given may say on which day it is to be judged, which is
\* no fact.  The code takes the day at the instant's own offset: the instants here are
\* written in UTC ("...Z", module RuleValues), and texts at other offsets are left out.
EvaluationDate == "evaluationDate"
FactsGiven(given) == [code \in DOMAIN given \ {EvaluationDate} |-> given[code]]
DayOf(given, today) ==
    LET asked == IF EvaluationDate \in DOMAIN given THEN given[EvaluationDate] ELSE Null
    IN  CASE asked = Null               -> today
          [] Kind(asked) = "isoDate"    -> Date(asked[2])
          [] Kind(asked) = "isoInstant" -> Date(asked[2] \div DayLength)
          [] OTHER                      -> Missing

\* _given_issues_v3 finds nothing: only confirmed facts, each with a value of its type.
GivenFits(given, facts) ==
    DOMAIN given \subseteq DOMAIN facts /\ \A code \in DOMAIN given : V2!FitsFact(given[code], facts[code])

ResultsOf(candidate, given, facts, today) ==
    LET Results(stage) == [i \in Active(stage) |-> ResultOf(stage.rules[i].when, given, facts, today)]
    IN  [n \in DOMAIN candidate.stages |-> Results(candidate.stages[n])]

\* evaluate_rule_structure_v3 of an accepted candidate: a refusal of the given values, or
\* a decision.
Evaluate(candidate, catalog, given, today) ==
    LET facts == FactMap(catalog)
        known == FactsGiven(given)
        day   == DayOf(given, today)
    IN  IF Blocked(candidate) THEN BlockedDecision
        ELSE IF day = Missing \/ ~GivenFits(known, facts)
        THEN [BlockedDecision EXCEPT !.outcome = "refused", !.reason = "GIVEN_INVALID"]
        ELSE Decide(candidate, ResultsOf(candidate, known, facts, day))

=============================================================================
