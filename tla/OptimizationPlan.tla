-------------------------- MODULE OptimizationPlan --------------------------
(***************************************************************************)
(* The two rule trees that Agent 1 itself writes from the optimisation     *)
(* plan (domain/optimization_plan): release of project reports, R0 to R9,  *)
(* and of raw data, D0 to D4, with the fact catalogues they are written    *)
(* over.  Titles, descriptions and recommendations are left out; an id is  *)
(* the sequence of the parts it is put together from.                      *)
(***************************************************************************)
EXTENDS StructureV31

\* expr.py.
Fact(code)      == [kind |-> "fact", code |-> code]
Lit(value)      == [kind |-> "literal", value |-> value]
Param(name)     == [kind |-> "parameter", code |-> name]
Op(kind, es)   == [kind |-> kind, children |-> es]
DateAdd(base, days) == [kind |-> "dateAdd", unit |-> "day", children |-> <<base, Lit(Whole(days))>>]

Node(id, kind, children) == [id |-> id, kind |-> kind, enabled |-> TRUE, children |-> children]
AllOf(id, children) == Node(id, "all", children)
AnyOf(id, children) == Node(id, "any", children)
NotOf(id, child)    == Node(id, "not", <<child>>)
Asks(id, left, operator, right, policy) ==
    [id |-> id, kind |-> "compare", enabled |-> TRUE, left |-> left, operator |-> operator,
     right |-> right, nullPolicy |-> policy]
Eq(id, code, n) == Asks(id, Fact(code), "eq", Lit(Whole(n)), "fail")
Ne(id, code, n) == Asks(id, Fact(code), "ne", Lit(Whole(n)), "fail")
IsTrue(id, code) == Asks(id, Fact(code), "eq", Lit(Bool(TRUE)), "fail")
InList(id, code, values) == Asks(id, Fact(code), "in", Lit(List(values)), "fail")
IsNull(id, code) == [id |-> id, kind |-> "compare", enabled |-> TRUE, left |-> Fact(code),
                     operator |-> "is_null", nullPolicy |-> "pass"]
\* Mutant: unknown operands taken for a comparison that fails.
OpenAsFail(id, left, operator, right) == Asks(id, left, operator, right, "fail")
\* A comparison of amounts or dates that an unknown operand leaves open.
Open(id, left, operator, right) == Asks(id, left, operator, right, "indeterminate")

\* __init__.py: the constants of the plan; dates are days counted from 2023-11-01.
Countersign  == 0
RawCutoff    == 386
GoLive       == 896
Ints(ns)     == [i \in DOMAIN ns |-> Whole(ns[i])]
Terminal     == <<Text(1), Text(2), Text(3)>>   \* about to be, being, and released
Epsilon      == Lit(Number(1, 10))
Percent(p)   == Lit(Number(p, 100))
Framework    == Ints(<<0, 2>>)
Enterprise   == Ints(<<14, 16>>)
YeastCodes   == Ints(<<2, 12>>)
CellCodes    == Ints(<<1, 14>>)
Special      == 759

Arrival   == Fact("order.arrival_amount_including_deposit")
ArrivalWithEpsilon == Op("add", <<Arrival, Epsilon>>)
BaseAmount == Op("add", <<Fact("order.extraction_qc_amount"), Fact("task.task_amount")>>)
CompletedAmount(release) ==
    Op("add", <<Fact("order.extraction_qc_amount"), Fact("task.task_amount"), Fact(release)>>)
\* Mutant: the total without what has been released.
TotalWithoutReleased == BaseAmount
ReportTotal == CompletedAmount("order.report_release_amount")
Share(e, p) == Op("multiply", <<e, Percent(p)>>)
Pays(id, p) == Open(id, ArrivalWithEpsilon, "gte", IF p = 100 THEN ReportTotal ELSE Share(ReportTotal, p))
DepositPays(id) == Open(id, Fact("order.deposit_amount"), "gte",
                        Share(Op("subtract", <<ReportTotal, Arrival>>), 20))
Positive(id, code, policy) == Asks(id, Fact(code), "gt", Lit(Whole(0)), policy)

Rule(code, priority, when, outcome, reason) ==
    [code |-> code, priority |-> priority, status |-> "active", when |-> when,
     outcome |-> outcome, reason |-> reason, issues |-> <<>>]
Ready(code, priority, when) == Rule(code, priority, when, "READY", <<code, "MATCHED">>)
Match(code, priority, when, outcome) == Rule(code, priority, when, outcome, <<code, "MATCHED">>)

-----------------------------------------------------------------------------
\* data_tree.py.
D0 == Eq(<<"d0-zero">>, "order.amount", 0)
D1 == Positive(<<"d1-count">>, "release.special_application_count", "indeterminate")
D2 == Eq(<<"d2-overseas">>, "order.source_code", 2)
D3 == InList(<<"d3-closed">>, "order.closed_loop_status", Ints(<<1, 2, 3>>))
D4 ==
    LET cell(id) == InList(id, "task.product_type_code", CellCodes)
        known(id, code, default, n) ==
            Asks(id, Op("coalesce", <<Fact(code), Lit(Whole(default))>>), "eq", Lit(Whole(n)), "fail")
        experiment == AnyOf(<<"d4-experiment-complete">>,
            <<known(<<"d4-closed-flag">>, "order.closed_flag", 1, 0),
              known(<<"d4-terminated">>, "order.experiment_run_status", 0, 1),
              IsTrue(<<"d4-seq-complete">>, "order.sequencing_services_complete")>>)
    IN  AllOf(<<"d4-all">>,
          <<Open(<<"d4-pay">>, ArrivalWithEpsilon, "gte", CompletedAmount("order.data_release_amount")),
            AnyOf(<<"d4-cell-gate">>,
              <<NotOf(<<"d4-not-single-cell">>, cell(<<"d4-single-cell">>)),
                AllOf(<<"d4-single-extra">>, <<cell(<<"d4-single-cell-extra">>), experiment>>)>>)>>)

\* Every tree waits for a task that is not completed, and skips what is released already.
StatusTerminal(id, code) == InList(id, code, Terminal)
NotCompleted(prefix) ==
    AnyOf(<<prefix, "not-completed">>, <<IsNull(<<prefix, "status-null">>, "task.status_code"),
                                         Ne(<<prefix, "status-ne-19">>, "task.status_code", 19)>>)

DataGuards == <<Match("DATA_STATUS_TERMINAL", 10,
                      StatusTerminal(<<"data-status-terminal">>, "data.release_status"), "SKIPPED")>>
DataPrerequisites ==
    LET absent(id)  == Eq(id, "task.raw_data_present_flag", 1)
        present(id) == Eq(id, "task.raw_data_present_flag", 0)
    IN  <<Match("TASK_NOT_COMPLETED", 10, NotCompleted("data"), "WAITING_COMPLETION"),
          Match("DATA_LOST", 20, Eq(<<"data-lost-1">>, "task.data_lost_flag", 1), "NO_RELEASE_REQUIRED"),
          Match("OFFLINE_DATA_RELEASED", 30,
                Eq(<<"offline-data-1">>, "task.offline_data_release_flag", 1), "ALREADY_RELEASED"),
          Match("NO_RAW_DATA", 40, absent(<<"raw-absent">>), "NO_RELEASE_REQUIRED"),
          Match("RAW_DATA_AVAILABILITY_PENDING", 50,
                AllOf(<<"raw-pending">>,
                  <<NotOf(<<"not-raw-present">>, present(<<"raw-present">>)),
                    NotOf(<<"not-raw-absent">>, absent(<<"raw-absent-pending">>))>>),
                "WAITING_CONDITIONS")>>

DataStages ==
    <<[stage |-> "stateGuards", rules |-> DataGuards],
      [stage |-> "prerequisites", rules |-> DataPrerequisites],
      [stage |-> "eligibility",
       rules |-> <<Ready("D0", 10, D0), Ready("D1", 20, D1), Ready("D2", 30, D2),
                   Ready("D3", 40, D3), Ready("D4", 50, D4)>>],
      [stage |-> "postGates", rules |-> <<>>, emptyStageReason |-> "no merge group"],
      [stage |-> "exclusions",
       rules |-> <<Match("OA_PROCESS_SCOPE", 10,
                         IsTrue(<<"data-oa-in-process">>, "task.in_raw_data_release_oa"),
                         "WAITING_CONDITIONS")>>]>>

-----------------------------------------------------------------------------
\* report_tree.py: the ten rules of eligibility.  They stand in the tree twice, the second
\* time (_prefixed) under ids that begin with p, as what a member of a group is asked.
NotSpecial(id) ==
    AnyOf(id \o <<"not-special">>, <<IsNull(id \o <<"product-null">>, "task.product_id"),
                                     Ne(id \o <<"product-ne">>, "task.product_id", Special)>>)
IsFramework(id)  == InList(id, "order.framework_type", Framework)
NonFramework(id) == NotOf(id \o <<"non-framework">>, IsFramework(id \o <<"framework">>))
IsEnterprise(id) == InList(id \o <<"enterprise">>, "order.customer_org_type", Enterprise)

R0(p) == Eq(p \o <<"r0-zero">>, "order.amount", 0)
R1(p) == Positive(p \o <<"r1-count">>, "release.special_application_count", "indeterminate")
R9(p) == Eq(p \o <<"r9-batch">>, "task.batch_report_release_flag", 0)
\* Mutant: R4 from the day after the cutoff.
R4AfterCutoff(p) == AllOf(p \o <<"r4-present-and-date">>,
        <<Eq(p \o <<"r4-present">>, "task.raw_data_present_flag", 0),
          Asks(p \o <<"r4-date">>, Fact("task.completion_date"), "gt",
               Param("rawDataReleasedCutoffDate"), "fail")>>)
R4(p) == AllOf(p \o <<"r4-present-and-date">>,
        <<Eq(p \o <<"r4-present">>, "task.raw_data_present_flag", 0),
          Asks(p \o <<"r4-date">>, Fact("task.completion_date"), "gte",
               Param("rawDataReleasedCutoffDate"), "fail")>>)
R2(p) == Eq(p \o <<"r2-overseas">>, "order.source_code", 2)

Tier(id, operator, share) ==
    AllOf(id, <<Open(id \o <<"base">>, BaseAmount, operator, Lit(Whole(100000))),
                Pays(id \o <<"pay">>, share)>>)
R3(p) == AllOf(p \o <<"r3-special-and-tier">>,
          <<Eq(p \o <<"r3-product">>, "task.product_id", Special),
            AnyOf(p \o <<"r3-tiers">>, <<Tier(p \o <<"r3-low">>, "lte", 70),
                                         Tier(p \o <<"r3-high">>, "gt", 50)>>)>>)

\* R8: yeast and cells at once, other products some days after completion.
IsYeast(id) == InList(id, "task.product_type_code", YeastCodes)
Costs(id, operator) == Open(id \o <<"amt">>, Fact("task.task_amount"), operator, Lit(Whole(5000)))
IsInvoiced(id) == Positive(id \o <<"invoiced">>, "order.invoice_amount", "fail")
DaysOld(id, n) == Open(id \o <<"day">>, DateAdd(Fact("task.completion_date"), n), "eq", Param("evaluationDate"))
Yeast(p) == AllOf(p \o <<"r8-yeast">>, <<IsYeast(p \o <<"r8-yeast-cat">>),
                                         Eq(p \o <<"r8-yeast-master">>, "task.no_main_service_flag", 0)>>)
Timed(p) ==
    LET a == p \o <<"r8a">>
        b == p \o <<"r8b">>
        c == p \o <<"r8c">>
    IN  AllOf(p \o <<"r8-timed">>,
          <<NotOf(p \o <<"r8-not-yeast">>, IsYeast(p \o <<"r8-yeast-cat-neg">>)),
            NotSpecial(p \o <<"r8">>),
            AnyOf(p \o <<"r8-abc">>,
              <<AllOf(a, <<Costs(a, "lt"), IsInvoiced(a), DaysOld(a, 60)>>),
                AllOf(b, <<Costs(b, "lt"), NotOf(b \o <<"not-inv">>, IsInvoiced(b)), DaysOld(b, 75)>>),
                AllOf(c, <<Costs(c, "gte"), DaysOld(c, 180)>>)>>)>>)
R8(p) == AllOf(p \o <<"r8-effective">>,
          <<Open(p \o <<"r8-go-live">>, Param("evaluationDate"), "gte", Param("timedReleaseEffectiveDate")),
            AnyOf(p \o <<"r8-branches">>, <<Yeast(p), Timed(p)>>)>>)
R5(p) == AllOf(p \o <<"r5-all">>,
          <<NotSpecial(p \o <<"r5">>), NonFramework(p \o <<"r5">>), IsEnterprise(p \o <<"r5">>),
            Pays(p \o <<"r5-pay">>, 100)>>)

\* The five branches in which a contract counts as sealed.
IsMini(id)        == Eq(id \o <<"mini">>, "contract.quota_kind", 3)
IsNonTemplate(id) == Eq(id \o <<"non-template">>, "contract.template_kind", 0)
IsSmall(id)       == Eq(id \o <<"small-quota">>, "contract.quota_kind", 0)
HasMode(id)       == Eq(id \o <<"mode">>, "contract.effective_mode", 1)
IsAfter(id)       == Asks(id \o <<"after">>, Fact("contract.countersign_date"), "gte",
                          Param("contractCountersignCutoffDate"), "fail")
Receipt(id, ns)   == InList(id \o <<"sealed">>, "contract.receipt_status", Ints(ns))
NotMini(id)       == NotOf(id \o <<"not-mini">>, IsMini(id))
IsTemplate(id)    == NotOf(id \o <<"not-non-template">>, IsNonTemplate(id))
NotSmall(id)      == NotOf(id \o <<"not-small">>, IsSmall(id))
SealPredicate(p) ==
    LET c2 == p \o <<"c2">>
        c3 == p \o <<"c3">>
        c4 == p \o <<"c4">>
        c5 == p \o <<"c5">>
        early == AnyOf(c5 \o <<"when">>, <<NotOf(c5 \o <<"not-after">>, IsAfter(c5)),
                                           NotOf(c5 \o <<"not-mode">>, HasMode(c5))>>)
        signed == AllOf(c5 \o <<"signed">>,
                    <<Eq(c5 \o <<"status0">>, "contract.receipt_status", 0),
                      NotOf(c5 \o <<"not-contact">>, Eq(c5 \o <<"contact">>, "contract.sign_method", 2))>>)
        inHand == AnyOf(c5 \o <<"receipt">>, <<Receipt(c5, <<1, 2>>), signed>>)
    IN  AnyOf(p \o <<"seal-five">>,
          <<IsMini(p \o <<"c1">>),
            AllOf(c2 \o <<"seal">>, <<NotMini(c2), IsNonTemplate(c2), Receipt(c2, <<1, 2>>)>>),
            AllOf(c3 \o <<"seal">>, <<NotMini(c3), IsTemplate(c3), IsSmall(c3), Receipt(c3, <<0, 1, 2>>)>>),
            AllOf(c4 \o <<"seal">>, <<NotMini(c4), IsTemplate(c4), NotSmall(c4), IsAfter(c4), HasMode(c4),
                                      Receipt(c4, <<1, 2>>)>>),
            AllOf(c5 \o <<"seal">>, <<NotMini(c5), IsTemplate(c5), NotSmall(c5), early, inHand>>)>>)

AllMembersOf(id, collection, empty, predicate) ==
    [id |-> id, kind |-> "allMembers", enabled |-> TRUE, collection |-> collection,
     emptyCollection |-> empty, missingMember |-> "indeterminate", memberPredicate |-> predicate]

AllSealed(p) == AllMembersOf(p \o <<"r6-contracts">>, "order.seal_scope_contract_ids", "fail", SealPredicate(p))
R6(p) == AllOf(p \o <<"r6-all">>,
          <<NotSpecial(p \o <<"r6">>), NonFramework(p \o <<"r6">>),
            NotOf(p \o <<"r6-non-enterprise">>, IsEnterprise(p \o <<"r6">>)),
            AnyOf(p \o <<"r6-ab">>,
              <<Pays(p \o <<"r6-a">>, 100),
                AllOf(p \o <<"r6-b">>,
                  <<Pays(p \o <<"r6-b1">>, 80), DepositPays(p \o <<"r6-b2">>), AllSealed(p)>>)>>)>>)
R7(p) == AllOf(p \o <<"r7-all">>,
          <<IsFramework(p \o <<"r7-framework">>),
            AnyOf(p \o <<"r7-or">>, <<Pays(p \o <<"r7-pay">>, 80), DepositPays(p \o <<"r7-deposit">>)>>)>>)

AllEligibility(p) == <<R0(p), R1(p), R9(p), R4(p), R2(p), R3(p), R8(p), R5(p), R6(p), R7(p)>>

\* A member is satisfied when it is released already, or is completed, has a report and
\* meets one of the rules of eligibility; its own guards and merge group are not asked.
MemberReady ==
    AllOf(<<"member-ready">>,
      <<AllOf(<<"member-prereq">>,
          <<Eq(<<"member-completed">>, "task.status_code", 19),
            AnyOf(<<"member-has-report">>, <<Eq(<<"member-project">>, "task.project_report_flag", 0),
                                             Eq(<<"member-qc">>, "task.qc_report_flag", 0)>>)>>),
        AnyOf(<<"member-any-eligibility">>, AllEligibility(<<"m">>))>>)
MergeUnsatisfied ==
    LET members == AllMembersOf(<<"merge-all-members">>, "report.merge_group_member_ids", "pass",
                                MemberReady)
    IN  AllOf(<<"merge-unsatisfied">>,
          <<IsTrue(<<"merge-present">>, "report.merge_group_present"),
            NotOf(<<"merge-not-all">>,
              Overlay([alreadySatisfied |-> StatusTerminal(<<"member-already">>, "report.release_status")],
                      members))>>)

ReportPrerequisites ==
    LET absent(id)  == AllOf(<<id, "both-absent">>, <<Eq(<<id, "project">>, "task.project_report_flag", 1),
                                                      Eq(<<id, "qc">>, "task.qc_report_flag", 1)>>)
        present(id) == AnyOf(<<id, "has-report">>, <<Eq(<<id, "project">>, "task.project_report_flag", 0),
                                                     Eq(<<id, "qc">>, "task.qc_report_flag", 0)>>)
    IN  <<Match("TASK_NOT_COMPLETED", 10, NotCompleted("report"), "WAITING_COMPLETION"),
          Match("EXPERIMENT_STATUS_OFFLINE", 20,
                Eq(<<"exp-2">>, "task.experiment_status_code", 2), "NO_RELEASE_REQUIRED"),
          Match("EXPERIMENT_STATUS_PROBLEM", 30,
                Eq(<<"exp-7">>, "task.experiment_status_code", 7), "NO_RELEASE_REQUIRED"),
          Match("OFFLINE_REPORT_RELEASED", 40,
                Eq(<<"offline-0">>, "task.offline_report_release_flag", 0), "ALREADY_RELEASED"),
          Match("NO_PROJECT_REPORT", 50, absent("none"), "NO_RELEASE_REQUIRED"),
          Match("REPORT_AVAILABILITY_PENDING", 60,
                AllOf(<<"report-pending">>, <<NotOf(<<"not-has-report">>, present("pending-has")),
                                              NotOf(<<"not-both-absent">>, absent("pending-no"))>>),
                "WAITING_CONDITIONS")>>

ReportStages ==
    LET codes == <<"R0", "R1", "R9", "R4", "R2", "R3", "R8", "R5", "R6", "R7">>
    IN  <<[stage |-> "stateGuards",
           rules |-> <<Match("REPORT_STATUS_TERMINAL", 10,
                             StatusTerminal(<<"status-terminal">>, "report.release_status"), "SKIPPED")>>],
          [stage |-> "prerequisites", rules |-> ReportPrerequisites],
          [stage |-> "eligibility",
           rules |-> [i \in DOMAIN codes |-> Ready(codes[i], 10 * i, AllEligibility(<<>>)[i])]],
          [stage |-> "postGates",
           rules |-> <<Match("MERGE_GROUP_UNSATISFIED", 10, MergeUnsatisfied, "WAITING_CONDITIONS")>>],
          [stage |-> "exclusions",
           rules |-> <<Match("OA_PROCESS_SCOPE", 10,
                             IsTrue(<<"oa-in-process">>, "task.in_project_report_release_oa"),
                             "WAITING_CONDITIONS")>>]>>

-----------------------------------------------------------------------------
\* catalogs.py: the facts of the two catalogues as <<code, type, grain>>.
ReportFacts ==
    <<<<"report.release_status", "enum", "task">>, <<"task.status_code", "integer", "task">>,
      <<"task.experiment_status_code", "integer", "task">>,
      <<"task.offline_report_release_flag", "integer", "task">>,
      <<"task.batch_report_release_flag", "integer", "task">>,
      <<"task.project_report_flag", "integer", "task">>, <<"task.qc_report_flag", "integer", "task">>,
      <<"order.amount", "money", "order">>, <<"release.special_application_count", "integer", "task">>,
      <<"task.raw_data_present_flag", "integer", "task">>, <<"task.completion_date", "date", "task">>,
      <<"order.source_code", "integer", "order">>, <<"task.product_id", "integer", "task">>,
      <<"task.product_type_code", "integer", "task">>, <<"task.no_main_service_flag", "integer", "task">>,
      <<"order.extraction_qc_amount", "money", "order">>, <<"task.task_amount", "money", "task">>,
      <<"order.report_release_amount", "money", "order">>,
      <<"order.arrival_amount_including_deposit", "money", "order">>,
      <<"order.deposit_amount", "money", "order">>, <<"order.invoice_amount", "money", "order">>,
      <<"order.framework_type", "integer", "order">>, <<"order.customer_org_type", "integer", "order">>,
      <<"report.merge_group_present", "boolean", "task">>,
      <<"report.merge_group_member_ids", "list", "task">>,
      <<"order.seal_scope_contract_ids", "list", "order">>,
      <<"contract.template_kind", "integer", "contract">>,
      <<"contract.effective_mode", "integer", "contract">>, <<"contract.quota_kind", "integer", "contract">>,
      <<"contract.countersign_date", "date", "contract">>,
      <<"contract.receipt_status", "integer", "contract">>, <<"contract.sign_method", "integer", "contract">>,
      <<"task.in_project_report_release_oa", "boolean", "task">>>>
DataFacts ==
    <<<<"data.release_status", "enum", "task">>, <<"task.status_code", "integer", "task">>,
      <<"task.data_lost_flag", "integer", "task">>, <<"task.offline_data_release_flag", "integer", "task">>,
      <<"task.raw_data_present_flag", "integer", "task">>, <<"order.amount", "money", "order">>,
      <<"release.special_application_count", "integer", "task">>,
      <<"order.source_code", "integer", "order">>, <<"order.closed_loop_status", "integer", "order">>,
      <<"order.extraction_qc_amount", "money", "order">>, <<"task.task_amount", "money", "task">>,
      <<"order.data_release_amount", "money", "order">>,
      <<"order.arrival_amount_including_deposit", "money", "order">>,
      <<"task.product_type_code", "integer", "task">>, <<"order.closed_flag", "integer", "order">>,
      <<"order.experiment_run_status", "integer", "order">>,
      <<"order.sequencing_services_complete", "boolean", "order">>,
      <<"task.in_raw_data_release_oa", "boolean", "task">>>>

Statuses == Terminal \o <<Text(4), Text(5), Text(6)>>
EntityKey(grain) == [name |-> CASE grain = "task" -> "taskId" [] grain = "order" -> "orderId"
                                [] grain = "contract" -> "contractId",
                     role |-> "entityKey"]
Confirmed(row) ==
    [code |-> row[1], type |-> row[2], grain |-> row[3], nullable |-> TRUE,
     nullPolicy |-> "indeterminate", parameters |-> <<EntityKey(row[3])>>,
     allowed |-> IF row[2] = "enum" THEN Statuses ELSE <<>>, evidence |-> <<"plan.structure">>,
     profile |-> FALSE, bindingIssues |-> <<"owned by metadataReview">>]

\* build_catalog: the digest is computed last, over everything else.
BuildCatalog(id, rows, file) ==
    LET body == [id |-> id, version |-> 1, evidence |-> <<[id |-> "plan.structure", source |-> file]>>,
                 facts |-> [i \in DOMAIN rows |-> Confirmed(rows[i])]]
    IN  Overlay([digest |-> CatalogDigest(body)], body)
ReportCatalog(file) == BuildCatalog("REPORT_RELEASE_OPTIMIZATION_FACTS", ReportFacts, file)
DataCatalog(file)   == BuildCatalog("RAW_DATA_RELEASE_OPTIMIZATION_FACTS", DataFacts, file)

\* The declared parameters of the two structures, and the candidates over their catalogues.
Bound(date) == [type |-> "date", bound |-> date]
DataParameters   == [evaluationDate |-> Bound(Missing)]
ReportParameters ==
    [rawDataReleasedCutoffDate |-> Bound(IsoDate(RawCutoff)),
     timedReleaseEffectiveDate |-> Bound(IsoDate(GoLive)),
     contractCountersignCutoffDate |-> Bound(IsoDate(Countersign))] @@ DataParameters

\* build_report_candidate_payload and build_data_candidate_payload; the order of sorted()
\* does not matter and is the catalogue's here.
BuildCandidate(set, catalog, stages, parameters, identity) ==
    LET refs == UNION {V31!ConditionRefs(rule.when) : rule \in ToSet(RulesOf(stages))}
    IN  [set |-> set, identity |-> identity, catalog |-> CatalogIdentity(catalog), stages |-> stages,
         parameters |-> parameters, safe |-> TRUE, issues |-> <<>>,
         required |-> SelectSeq(Codes(catalog.facts), LAMBDA code : code \in refs),
         semantics |-> [stage \in ToSet(StageOrder) |-> OnHit(stage)],
         defaultOutcome |-> "WAITING_CONDITIONS",
         defaultReason |-> <<"NO_ORDERED_RELEASE_RULE", "MATCHED">>]
ReportCandidate(identity) ==
    BuildCandidate("REPORT_RELEASE_ALL_001", ReportCatalog(identity.file), ReportStages, ReportParameters, identity)
DataCandidate(identity) ==
    BuildCandidate("RAW_DATA_RELEASE_ALL_001", DataCatalog(identity.file), DataStages, DataParameters, identity)
=============================================================================
