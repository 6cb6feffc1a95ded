----------------------------- MODULE PlanCases -----------------------------
(***************************************************************************)
(* The evaluation cases that are delivered with the two trees of the       *)
(* optimisation plan (domain/optimization_plan/cases.py): what is given,   *)
(* and the outcome, reason and matched rules that are expected.            *)
(***************************************************************************)
EXTENDS OptimizationPlan

EvalDate == 1051

Case(given, outcome, reason, matched) ==
    [given |-> given, outcome |-> outcome, reason |-> reason, matched |-> matched,
     day |-> EvalDate, members |-> <<>>]
On(day, case)        == [case EXCEPT !.day = day]
With(members, case)  == [case EXCEPT !.members = members]
Without(given, codes) == [code \in DOMAIN given \ codes |-> given[code]]

\* One rule hits and decides; none hits; something is unknown when matched have hit.
Hits(given, outcome, code) == Case(given, outcome, <<code, "MATCHED">>, <<code>>)
Waits(given)   == Case(given, "WAITING_CONDITIONS", <<"NO_ORDERED_RELEASE_RULE", "MATCHED">>, <<>>)
Unsure(given, matched) == Case(given, "INDETERMINATE", "FACT_VALUE_MISSING_OR_INVALID", matched)
HeldBack(given, code, by) == Case(given, "WAITING_CONDITIONS", <<by, "MATCHED">>, <<code, by>>)

W(code, n)  == code :> Whole(n)
Dated(day)  == "task.completion_date" :> IsoDate(day)
Arrived(p, q) == "order.arrival_amount_including_deposit" :> Number(p, q)
Nulled(code)  == code :> Null

ReportBase ==
    LET Zero == {"task.experiment_status_code", "release.special_application_count",
                 "order.extraction_qc_amount", "order.report_release_amount",
                 "order.arrival_amount_including_deposit", "order.deposit_amount",
                 "order.invoice_amount", "task.project_report_flag", "contract.effective_mode",
                 "contract.sign_method"}
        One == {"task.offline_report_release_flag", "task.batch_report_release_flag",
                "task.qc_report_flag", "task.raw_data_present_flag", "order.source_code",
                "task.product_id", "task.no_main_service_flag", "order.framework_type",
                "order.customer_org_type", "contract.template_kind", "contract.quota_kind"}
        No  == {"report.merge_group_present", "task.in_project_report_release_oa"}
        Nobody == {"report.merge_group_member_ids", "order.seal_scope_contract_ids"}
    IN  W("task.status_code", 19) @@ W("order.amount", 1000) @@ W("task.task_amount", 1000)
        @@ W("task.product_type_code", 3) @@ W("contract.receipt_status", 3)
        @@ Dated(427) @@ ("contract.countersign_date" :> IsoDate(-669))
        @@ ("report.release_status" :> Text(5))
        @@ [code \in Zero |-> Whole(0)] @@ [code \in One |-> Whole(1)]
        @@ [code \in No |-> Bool(FALSE)] @@ [code \in Nobody |-> List(<<>>)]
Report(changes) == changes @@ ReportBase

DataBase ==
    LET Zero == {"task.data_lost_flag", "task.offline_data_release_flag", "task.raw_data_present_flag",
                 "release.special_application_count", "order.closed_loop_status",
                 "order.extraction_qc_amount", "order.data_release_amount",
                 "order.arrival_amount_including_deposit", "order.experiment_run_status"}
    IN  W("task.status_code", 19) @@ W("order.amount", 1000) @@ W("task.task_amount", 1000)
        @@ W("task.product_type_code", 3) @@ W("order.source_code", 1) @@ W("order.closed_flag", 1)
        @@ ("data.release_status" :> Text(5)) @@ [code \in Zero |-> Whole(0)]
        @@ [code \in {"order.sequencing_services_complete", "task.in_raw_data_release_oa"} |-> Bool(FALSE)]
Data(changes) == changes @@ DataBase

-----------------------------------------------------------------------------
\* report_test_cases, in the order of the file.
Flags(project, qc) == Report(("task.project_report_flag" :> project) @@ ("task.qc_report_flag" :> qc))
Pending(given) == Hits(given, "WAITING_CONDITIONS", "REPORT_AVAILABILITY_PENDING")
ReportFlagCases ==
    LET absent(codes) == Without(ReportBase, codes)
    IN  {Waits(Flags(f[1], f[2])) :
             f \in {<<Whole(0), Whole(0)>>, <<Whole(0), Whole(1)>>, <<Whole(0), Null>>,
                    <<Whole(1), Whole(0)>>, <<Null, Whole(0)>>, <<Whole(2), Whole(0)>>}}
        \cup {Hits(Flags(Whole(1), Whole(1)), "NO_RELEASE_REQUIRED", "NO_PROJECT_REPORT")}
        \cup {Pending(Flags(f[1], f[2])) :
             f \in {<<Whole(1), Null>>, <<Null, Whole(1)>>, <<Null, Null>>, <<Whole(2), Whole(2)>>}}
        \cup {Pending(absent({"task.project_report_flag", "task.qc_report_flag"})),
              Waits(absent({"task.qc_report_flag"}))}

ReportGuardCases ==
    {Waits(Report(W("task.offline_report_release_flag", 4))),
     Waits(Report(W("task.batch_report_release_flag", 5))),
     Hits(Report("report.release_status" :> Text(3)), "SKIPPED", "REPORT_STATUS_TERMINAL"),
     Hits(Report(Nulled("task.status_code")), "WAITING_COMPLETION", "TASK_NOT_COMPLETED"),
     Hits(Report(W("task.experiment_status_code", 2)), "NO_RELEASE_REQUIRED", "EXPERIMENT_STATUS_OFFLINE"),
     Hits(Report(W("task.experiment_status_code", 7)), "NO_RELEASE_REQUIRED", "EXPERIMENT_STATUS_PROBLEM"),
     Hits(Report(W("task.offline_report_release_flag", 0)), "ALREADY_RELEASED", "OFFLINE_REPORT_RELEASED")}

Counted(n) == W("release.special_application_count", n)
EarlyRuleCases ==
    LET rawOn(day) == Report(W("task.raw_data_present_flag", 0) @@ Dated(day))
    IN  {Hits(Report(W("order.amount", 0)), "READY", "R0"), Waits(Report(Nulled("order.amount"))),
         Hits(Report(Counted(1)), "READY", "R1"), Hits(Report(Counted(2)), "READY", "R1"),
         Waits(Report(Counted(0))), Unsure(Report(Nulled("release.special_application_count")), <<>>),
         Hits(Report(W("task.batch_report_release_flag", 0)), "READY", "R9"),
         Hits(rawOn(RawCutoff), "READY", "R4"), Hits(rawOn(RawCutoff + 1), "READY", "R4"),
         Waits(rawOn(RawCutoff - 1)),
         Waits(Report(W("task.raw_data_present_flag", 1) @@ Dated(RawCutoff))),
         Waits(Report(Nulled("task.raw_data_present_flag") @@ Dated(RawCutoff))),
         Unsure(Report(W("task.raw_data_present_flag", 0) @@ Nulled("task.completion_date")), <<>>)}

SpecialProductCases ==
    LET special(amount, arrived) ==
            Report(W("task.product_id", Special) @@ W("task.task_amount", amount) @@ arrived)
        short == special(100000, Arrived(699998, 10))
    IN  {Hits(Report(W("order.source_code", 2)), "READY", "R2"),
         Hits(special(100000, Arrived(699999, 10)), "READY", "R3"), Waits(short),
         Waits(W("order.customer_org_type", 14) @@ short),
         Hits(special(100001, Arrived(500004, 10)), "READY", "R3"),
         Waits(special(100001, Arrived(500003, 10))),
         Unsure(special(100000, Nulled("order.arrival_amount_including_deposit")), <<>>)}

TimedCases ==
    LET task(amount, invoiced, date) ==
            Report(W("task.task_amount", amount) @@ W("order.invoice_amount", invoiced) @@ date)
        June(case) == On(943, case)
        yeast(type) == Report(W("task.product_type_code", type) @@ W("task.no_main_service_flag", 0))
        evening == "task.completion_date" :> IsoInstant(883 * DayLength + 14 * 60)
    IN  {June(Hits(task(4999, 10, Dated(883)), "READY", "R8")),
         June(Waits(task(4999, 10, Dated(882)))), June(Waits(task(4999, 10, Dated(884)))),
         June(Hits(task(4999, 10, evening), "READY", "R8")),
         June(Hits(task(4999, 0, Dated(868)), "READY", "R8")),
         June(Hits(task(5000, 0, Dated(763)), "READY", "R8")),
         Hits(yeast(2), "READY", "R8"), On(GoLive - 1, Waits(task(4999, 10, Dated(835)))),
         On(GoLive - 1, Waits(yeast(2))), On(GoLive, Hits(yeast(12), "READY", "R8"))}

\* Contracts of the seal scope, keyed, with the facts that the seal predicate asks for.
Contract(quota, template, mode, day, receipt, sign) ==
    W("contract.quota_kind", quota) @@ W("contract.template_kind", template)
    @@ W("contract.effective_mode", mode) @@ ("contract.countersign_date" :> IsoDate(day))
    @@ W("contract.receipt_status", receipt) @@ W("contract.sign_method", sign)
SealScope(keys) == Report(Arrived(800, 1) @@ W("order.deposit_amount", 40)
                          @@ ("order.seal_scope_contract_ids" :> List(keys)))
ArrivalCases ==
    LET enterprise(arrived) == Report(W("order.customer_org_type", 14) @@ arrived)
        sealed(contract)   == With(Text(11) :> contract, Hits(SealScope(<<Text(11)>>), "READY", "R6"))
        unsealed(contract) == With(Text(11) :> contract, Waits(SealScope(<<Text(11)>>)))
    IN  {Hits(enterprise(Arrived(1000, 1)), "READY", "R5"),
         Hits(enterprise(Arrived(9999, 10)), "READY", "R5"), Waits(enterprise(Arrived(9998, 10))),
         Hits(Report(Arrived(1000, 1)), "READY", "R6"), Waits(SealScope(<<>>))}
        \cup {sealed(c) : c \in {Contract(3, 1, 0, 61, 3, 2), Contract(1, 0, 0, 61, 1, 0),
                                 Contract(0, 1, 0, 61, 0, 2), Contract(1, 1, 1, Countersign, 2, 0),
                                 Contract(1, 1, 1, Countersign - 1, 1, 2)}}
        \cup {unsealed(c) : c \in {Contract(1, 0, 0, 61, 0, 0), Contract(1, 1, 0, -669, 0, 2)}}

FrameworkCases ==
    LET framework(type, arrived, deposit) ==
            Report(W("order.framework_type", type) @@ arrived @@ W("order.deposit_amount", deposit))
    IN  {Hits(framework(0, Arrived(800, 1), 0), "READY", "R7"),
         Hits(framework(2, Arrived(100, 1), 180), "READY", "R7"),
         Hits(framework(2, Arrived(1000, 1), 0), "READY", "R7"),
         Hits(W("order.customer_org_type", 14) @@ framework(0, Arrived(1000, 1), 0), "READY", "R7"),
         Waits(framework(0, Arrived(100, 1), 0)),
         Hits(Report(W("order.amount", 0) @@ Counted(3)), "READY", "R0"),
         Waits(Report(Nulled("task.experiment_status_code"))), Waits(Report(W("order.source_code", 1)))}

Grouped(keys) == Report(W("order.amount", 0) @@ ("report.merge_group_present" :> Bool(TRUE))
                        @@ ("report.merge_group_member_ids" :> List(keys)))
GroupCases ==
    LET open == Report(W("task.status_code", 10))
        released == Report("report.release_status" :> Text(3))
    IN  {With(Text(12) :> open, HeldBack(Grouped(<<Text(12)>>), "R0", "MERGE_GROUP_UNSATISFIED")),
         Unsure(Grouped(<<Text(13)>>), <<"R0">>), Hits(Grouped(<<>>), "READY", "R0"),
         With(Text(14) :> released, Hits(Grouped(<<Text(14), Text(14)>>), "READY", "R0")),
         HeldBack(Report(W("order.amount", 0) @@ ("task.in_project_report_release_oa" :> Bool(TRUE))),
                  "R0", "OA_PROCESS_SCOPE")}

ReportCases == UNION {ReportFlagCases, ReportGuardCases, EarlyRuleCases, SpecialProductCases,
                      TimedCases, ArrivalCases, FrameworkCases, GroupCases}

-----------------------------------------------------------------------------
\* data_test_cases.
DataGuardCases ==
    {Hits(Data("data.release_status" :> Text(2)), "SKIPPED", "DATA_STATUS_TERMINAL"),
     Hits(Data(W("task.status_code", 10)), "WAITING_COMPLETION", "TASK_NOT_COMPLETED"),
     Hits(Data(W("task.data_lost_flag", 1)), "NO_RELEASE_REQUIRED", "DATA_LOST"),
     Hits(Data(W("task.offline_data_release_flag", 1)), "ALREADY_RELEASED", "OFFLINE_DATA_RELEASED"),
     Hits(Data(W("task.raw_data_present_flag", 1)), "NO_RELEASE_REQUIRED", "NO_RAW_DATA"),
     Hits(Data(W("task.raw_data_present_flag", 2)), "WAITING_CONDITIONS", "RAW_DATA_AVAILABILITY_PENDING")}
DataRuleCases ==
    LET cell(type, more) == Data(W("task.product_type_code", type) @@ more)
        full == Arrived(1000, 1)
    IN  {Hits(Data(W("order.amount", 0)), "READY", "D0"), Waits(Data(Nulled("order.amount"))),
         Hits(Data(Counted(1)), "READY", "D1"), Hits(Data(W("order.source_code", 2)), "READY", "D2"),
         Hits(Data(W("order.closed_loop_status", 2)), "READY", "D3"), Hits(Data(full), "READY", "D4"),
         Waits(cell(1, full)), Hits(cell(14, full @@ W("order.closed_flag", 0)), "READY", "D4"),
         Hits(cell(1, Arrived(9999, 10) @@ ("order.sequencing_services_complete" :> Bool(TRUE))),
              "READY", "D4"),
         Waits(Data(Arrived(9998, 10)))}
MoreDataCases ==
    {Hits(Data(W("order.amount", 0) @@ Counted(4)), "READY", "D0"),
     HeldBack(Data(W("order.amount", 0) @@ ("task.in_raw_data_release_oa" :> Bool(TRUE))),
              "D0", "OA_PROCESS_SCOPE"),
     Waits(Data(W("task.offline_data_release_flag", 0))),
     Hits(Data(Nulled("task.raw_data_present_flag")), "WAITING_CONDITIONS", "RAW_DATA_AVAILABILITY_PENDING"),
     Waits(Data(Counted(0))), Unsure(Data(Nulled("release.special_application_count")), <<>>),
     Hits(Data(Counted(2)), "READY", "D1"), Waits(Data(W("order.source_code", 1))),
     Waits(Data(W("order.closed_loop_status", 0))),
     Hits(Data(W("order.closed_loop_status", 1)), "READY", "D3"),
     Hits(Data(W("order.closed_loop_status", 3)), "READY", "D3"),
     Unsure(Data(Nulled("order.arrival_amount_including_deposit")), <<>>),
     Hits(Data(W("task.product_type_code", 1) @@ Arrived(1000, 1) @@ W("order.experiment_run_status", 1)),
          "READY", "D4")}
DataCases == UNION {DataGuardCases, DataRuleCases, MoreDataCases}

=============================================================================
