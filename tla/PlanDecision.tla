---------------------------- MODULE PlanDecision ----------------------------
(***************************************************************************)
(* A task is decided by the trees of the optimisation plan while its facts *)
(* become known one after the other (evaluate_rule_structure_v31 over      *)
(* domain/optimization_plan): a fact that was not asked for yet is absent, *)
(* one that was asked for has a value or is Null, and the tasks of its     *)
(* merge group and the contracts of its seal scope are looked up one by    *)
(* one.  After each step the structure is interpreted anew.                *)
(***************************************************************************)
EXTENDS PlanCases, ResultV31

CONSTANTS Scenarios,   \* [tree, given, open]: what is known of a task, and what is not yet
          Possible,    \* the values that an open fact may turn out to have
          Dossiers     \* what may be known of a member

VARIABLES treeKind,      \* "report" or "data"
          factsKnown,    \* the given values
          factsOpen,     \* the facts still to be asked for
          membersKnown,  \* the members looked up so far
          verdict        \* what the structure says now
decisionVars == <<treeKind, factsKnown, factsOpen, membersKnown, verdict>>

\* The structures that are generated from the plan as it is frozen.
Revision == [file |-> "frozen", input |-> "text", extractor |-> "v1", sections |-> <<>>]
Trees ==
    [report |-> [candidate |-> ReportCandidate(Revision), catalog |-> ReportCatalog("frozen")],
     data   |-> [candidate |-> DataCandidate(Revision), catalog |-> DataCatalog("frozen")]]
Interpreted(of, facts, about) ==
    Evaluate(Trees[of].candidate, Trees[of].catalog, facts, [evaluationDate |-> IsoDate(EvalDate)], about)

DecisionInit ==
    \E scenario \in Scenarios :
        /\ treeKind = scenario.tree /\ factsOpen = scenario.open /\ membersKnown = <<>>
        /\ factsKnown = Without(scenario.given, factsOpen)
        /\ verdict = Interpreted(treeKind, factsKnown, membersKnown)

Learn(code, value) ==
    /\ factsKnown' = Overlay([c \in {code} |-> value], factsKnown)
    /\ factsOpen' = factsOpen \ {code}
    /\ verdict' = Interpreted(treeKind, factsKnown', membersKnown)
    /\ UNCHANGED <<treeKind, membersKnown>>
LearnFact == \E code \in factsOpen : \E value \in Possible[code] \cup {Null} : Learn(code, value)

\* The keys in the collections that are known; a key is looked up where it comes from.
Collections == {"report.merge_group_member_ids", "order.seal_scope_contract_ids"}
KeysOf(code) ==
    IF code \in DOMAIN factsKnown /\ Kind(factsKnown[code]) = "list"
    THEN V31!KeysIn(factsKnown[code][2]) ELSE {}
LearnMember ==
    \E code \in Collections : \E key \in KeysOf(code) \ DOMAIN membersKnown :
        \E dossier \in Dossiers[code] :
            /\ membersKnown' = Overlay([k \in {key} |-> dossier], membersKnown)
            /\ verdict' = Interpreted(treeKind, factsKnown, membersKnown')
            /\ UNCHANGED <<treeKind, factsKnown, factsOpen>>

DecisionNext == LearnFact \/ LearnMember

DecisionSpec == DecisionInit /\ [][DecisionNext]_decisionVars

\* What the consumer asks for comes in the type that the catalogue declares.
ASSUME OpenFactsFit ==
    \A scenario \in Scenarios :
        /\ scenario.tree \in DOMAIN Trees
        /\ \A code \in scenario.open : \A value \in Possible[code] \cup {Null} :
              GivenFits([c \in {code} |-> value], FactMap(Trees[scenario.tree].catalog))
ASSUME DossiersFit ==
    \A code \in Collections : \A dossier \in Dossiers[code] :
        GivenFits(dossier, FactMap(Trees.report.catalog))

-----------------------------------------------------------------------------
\* Amounts and counts are asked of with the policy "indeterminate", and so are members: as
\* long as one that matters is unknown nothing is decided, so that learning one later, or
\* looking a member up, never changes an outcome.
\* (The invoiced amount is not among them: unknown, it counts as not invoiced.)
Amounts == {"order.extraction_qc_amount", "task.task_amount", "order.report_release_amount",
            "order.data_release_amount", "order.arrival_amount_including_deposit",
            "order.deposit_amount", "release.special_application_count"}
AmountsNeverChangeADecision ==
    [][factsOpen \ factsOpen' \subseteq Amounts /\ verdict.outcome # "INDETERMINATE"
         => verdict'.outcome = verdict.outcome]_decisionVars

-----------------------------------------------------------------------------
\* An amount that is known, and a code that is one of some numbers.
IsAmount(code)    == code \in DOMAIN factsKnown /\ AsDecimal(factsKnown[code]) # Missing
Amount(code)      == AsDecimal(factsKnown[code])
IsOneOf(code, ns) == code \in DOMAIN factsKnown /\ PyIn(factsKnown[code], List(Ints(ns)))
Required == {"order.extraction_qc_amount", "task.task_amount", "order.report_release_amount",
             "order.arrival_amount_including_deposit"}

\* What has arrived covers a share of the whole, a tenth of a unit being forgiven; or the
\* deposit covers a fifth of what has not arrived.
BasePrice  == V31!Total(<<Amount("order.extraction_qc_amount"), Amount("task.task_amount")>>)
WholePrice == V31!Total(<<Amount("order.extraction_qc_amount"), Amount("task.task_amount"),
                          Amount("order.report_release_amount")>>)
PaidIn     == Amount("order.arrival_amount_including_deposit")
Covers(sum)    == PyLessEqual(sum, V31!Total(<<PaidIn, Number(1, 10)>>))
CoversShare(p) == Covers(V31!Product(<<WholePrice, Number(p, 100)>>))
DepositCovers ==
    /\ IsAmount("order.deposit_amount")
    /\ PyLessEqual(V31!Product(<<Minus(WholePrice, PaidIn), Number(20, 100)>>),
                   Amount("order.deposit_amount"))

\* What must have been paid, by the kind of the customer.
Paid ==
    LET framework == IsOneOf("order.framework_type", <<0, 2>>) /\ (CoversShare(80) \/ DepositCovers)
        special   == \/ PyLessEqual(BasePrice, Whole(100000)) /\ CoversShare(70)
                     \/ PyLess(Whole(100000), BasePrice) /\ CoversShare(50)
    IN  /\ \A code \in Required : IsAmount(code)
        /\ CASE IsOneOf("task.product_id", <<759>>)                -> framework \/ special
             [] ~IsOneOf("task.product_id", <<759>>) /\ IsOneOf("order.framework_type", <<0, 2>>) -> framework
             [] ~IsOneOf("task.product_id", <<759>>) /\ ~IsOneOf("order.framework_type", <<0, 2>>)
                /\ IsOneOf("order.customer_org_type", <<14, 16>>)  -> Covers(WholePrice)
             [] OTHER -> Covers(WholePrice) \/ (CoversShare(80) /\ DepositCovers)
ExemptRules == {"R0", "R1", "R9", "R4", "R2", "R8"}
\* No report is released that is not paid for as the customer's kind asks, unless one of the
\* exemptions is matched; and never while an amount that it depends on is unknown.
NoReportWithoutPayment ==
    treeKind = "report" /\ verdict.outcome = "READY" /\ ToSet(verdict.matched) \cap ExemptRules = {} => Paid

\* What holds a task back by itself, whatever is paid; and a task whose own guards, and whose
\* own group, are set aside.
Guards == {"report.release_status", "task.experiment_status_code", "task.offline_report_release_flag",
           "report.merge_group_present", "task.in_project_report_release_oa"}
Unguarded == [code \in Guards |-> CASE code = "report.release_status"            -> Text(5)
                                    [] code = "task.experiment_status_code"      -> Whole(0)
                                    [] code = "task.offline_report_release_flag" -> Whole(1)
                                    [] OTHER                                     -> Bool(FALSE)]
StandsAlone(facts) ==
    \/ "report.release_status" \in DOMAIN facts /\ facts["report.release_status"] \in ToSet(Terminal)
    \/ Interpreted("report", Overlay(Unguarded, facts), membersKnown).outcome = "READY"
InAGroup ==
    "report.merge_group_present" \in DOMAIN factsKnown /\ factsKnown["report.merge_group_present"] = Bool(TRUE)
\* A task of a merge group is released only together with the group: every member has been
\* looked up, and is released already or would be released by itself, its own guards and
\* its own group set aside.
GroupIsReleasedTogether ==
    treeKind = "report" /\ verdict.outcome = "READY" /\ InAGroup =>
        \A key \in KeysOf("report.merge_group_member_ids") :
            key \in DOMAIN membersKnown /\ StandsAlone(membersKnown[key])
=============================================================================
