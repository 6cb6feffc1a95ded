------------------------------- MODULE MCPlan -------------------------------
(* One run for the optimisation plan: either two deliveries are generated,  *)
(* written and stored (PlanRelease), or a task is decided (PlanDecision).   *)
EXTENDS PlanRelease, PlanDecision

Language == INSTANCE ConditionsV31
TreeNodes(n)                          == Language!Nodes(n)
TreeSize(n)                           == Language!Size(n)
TreeTypeOf(e, facts, parameters)      == Language!TypeOf(e, facts, parameters)
TreeValue(e, context, facts, parameters) == Language!Value(e, context, facts, parameters)
TreeHolds(n, context, facts, parameters) == Language!Holds(n, context, facts, parameters)

VARIABLE mcPart
mcVars == <<planVars, decisionVars, mcPart>>

Init ==
    \/ mcPart = "release" /\ PlanInit
       /\ treeKind = "none" /\ factsKnown = <<>> /\ factsOpen = {} /\ membersKnown = <<>>
       /\ verdict = [outcome |-> "INDETERMINATE"]
    \/ mcPart = "decision" /\ PlanInit /\ DecisionInit
Next ==
    \/ mcPart = "release" /\ PlanNext /\ UNCHANGED <<decisionVars, mcPart>>
    \/ mcPart = "decision" /\ DecisionNext /\ UNCHANGED <<planVars, mcPart>>
Spec == Init /\ [][Next]_mcVars

-----------------------------------------------------------------------------
Given(of, changes, open) ==
    [tree |-> of, given |-> IF of = "report" THEN Report(changes) ELSE Data(changes), open |-> open]
Arrives == "order.arrival_amount_including_deposit"
Deposit == "order.deposit_amount"
Releases(of) == "order." \o of \o "_release_amount"
Sealed == "order.seal_scope_contract_ids" :> List(<<Text(11)>>)
Group  == ("report.merge_group_present" :> Bool(TRUE))
          @@ ("report.merge_group_member_ids" :> List(<<Text(12), Text(13)>>))
TheScenarios ==
    {Given("report", W("order.customer_org_type", 14), {Arrives, Releases("report"), "order.framework_type"}),
     Given("report", W("task.product_id", Special), {Arrives, "task.task_amount", "order.framework_type"}),
     Given("report", W(Deposit, 40) @@ Sealed, {Arrives, Deposit}),
     Given("report", <<>>, {Arrives, Deposit, "order.customer_org_type"}),
     Given("report", <<>>, {"task.task_amount", "task.completion_date", "order.invoice_amount"}),
     Given("report", Arrived(9999, 10), {"release.special_application_count", "task.status_code", Arrives}),
     Given("report", W("order.amount", 0) @@ Group, {"task.status_code"}),
     Given("report", Group, {Arrives}),
     Given("data", <<>>, {Arrives, Releases("data"), "task.product_type_code"})}

Wholes(numbers) == {Whole(n) : n \in numbers}
ThePossible ==
    (Arrives :> {Whole(800), Number(9999, 10), Whole(70000)}) @@ (Deposit :> Wholes({0, 40}))
    @@ (Releases("report") :> Wholes({0, 250})) @@ (Releases("data") :> Wholes({0, 250}))
    @@ ("task.task_amount" :> Wholes({1000, 100001}))
    @@ ("release.special_application_count" :> Wholes({0, 1}))
    @@ ("order.framework_type" :> Wholes({0, 1})) @@ ("order.customer_org_type" :> Wholes({1, 14}))
    @@ ("order.invoice_amount" :> Wholes({0, 10})) @@ ("task.status_code" :> Wholes({10, 19}))
    @@ ("task.completion_date" :> {IsoDate(EvalDate - 60), IsoDate(EvalDate - 75)})
    @@ ("task.product_type_code" :> Wholes({1, 3}))

TheDossiers ==
    [code \in Collections |->
        IF code = "order.seal_scope_contract_ids"
        THEN {Contract(3, 1, 0, 61, 3, 2), Contract(1, 0, 0, 61, 0, 0), Contract(0, 1, 0, 61, 0, 2),
              Contract(1, 1, 1, Countersign, 3, 0), Nulled("contract.receipt_status") @@ Contract(1, 0, 0, 61, 0, 0)}
        ELSE {Report("report.release_status" :> Text(3)), Report(W("order.amount", 0)), ReportBase,
              Report(W("order.amount", 0) @@ W("task.status_code", 10)),
              Report(W("order.amount", 0) @@ W("task.project_report_flag", 1)),
              Report(Nulled("order.arrival_amount_including_deposit"))}]
=============================================================================
