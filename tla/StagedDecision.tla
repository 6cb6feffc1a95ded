--------------------------- MODULE StagedDecision ---------------------------
(***************************************************************************)
(* How the results of the rules of the five stages become one decision:    *)
(* the loop of evaluate_rule_structure_v3 and of evaluate_rule_structure_  *)
(* v31.  A stage is [stage, rules], a rule [code, priority, status, when,  *)
(* outcome, reason, issues]; the results of a stage are a function from   *)
(* the places of its active rules to what their conditions come to.        *)
(***************************************************************************)
EXTENDS RuleValues, SequencesExt

StageOrder == <<"stateGuards", "prerequisites", "eligibility", "postGates", "exclusions">>

IsActive(rule) == rule.status = "active"
ActiveRules(stage) == SelectSeq(stage.rules, IsActive)
Active(stage) == {i \in DOMAIN stage.rules : IsActive(stage.rules[i])}
RulesOf(stages) == FlattenSeq([i \in DOMAIN stages |-> stages[i].rules])

Undecided(candidate) == [done |-> FALSE, outcome |-> candidate.defaultOutcome,
                         reason |-> candidate.defaultReason, matched |-> <<>>]

\* The first rule that passes decides its stage, and outside eligibility everything.  A
\* stage without one decides only if one of its rules is open.
StageStep(stage, results, decision) ==
    LET passing == {i \in Active(stage) : results[i] = "pass"}
        hit  == stage.rules[Min(passing)]
        open == \E i \in Active(stage) : results[i] = "indeterminate"
    IN  CASE decision.done -> decision
          [] ~decision.done /\ passing # {} ->
               [done    |-> stage.stage # "eligibility",
                outcome |-> hit.outcome,
                reason  |-> hit.reason,
                matched |-> Append(decision.matched, hit.code)]
          [] ~decision.done /\ passing = {} /\ open ->
               [decision EXCEPT !.done = TRUE, !.outcome = "INDETERMINATE",
                                !.reason = "FACT_VALUE_MISSING_OR_INVALID"]
          [] OTHER -> decision

\* The decision after each stage; results are those of each stage.
Decide(candidate, results) ==
    LET after[n \in 0 .. Len(candidate.stages)] ==
            IF n = 0 THEN Undecided(candidate)
            ELSE StageStep(candidate.stages[n], results[n], after[n - 1])
    IN  after[Len(candidate.stages)]

\* A candidate with a blocking issue is not interpreted.
Blocked(candidate) == candidate.issues # <<>>
BlockedDecision == [done |-> TRUE, outcome |-> "INDETERMINATE",
                    reason |-> "BUSINESS_CONFIRMATION_REQUIRED", matched |-> <<>>]
=============================================================================
