---------------------------- MODULE MCReleaseV3 ----------------------------
(* A small rule for ReleaseV3: three facts, one rule in each stage.         *)
EXTENDS ReleaseV3

Trees == INSTANCE ConditionsV2
TreeNodes(n)                       == Trees!Nodes(n)
TreeSize(n)                        == Trees!Size(n)
TreeTypeOf(e, facts)               == Trees!TypeOf(e, facts)
TreeIllTyped(e, facts)             == Trees!IllTyped(e, facts)
TreeHolds(n, given, facts, day)    == Trees!Holds(n, given, facts, day)

TaskKey == <<[name |-> "taskId", role |-> "entityKey"]>>
Confirmed(code, type, nullable, allowed) ==
    [code |-> code, type |-> type, grain |-> "task", nullable |-> nullable, nullPolicy |-> "indeterminate",
     allowed |-> allowed, parameters |-> TaskKey, evidence |-> <<"sheet">>, profile |-> TRUE,
     bindingIssues |-> <<>>]
Edition(facts) ==
    LET catalog == [id |-> "facts", version |-> "1", facts |-> facts,
                    evidence |-> <<[id |-> "sheet", source |-> "sha"]>>, digest |-> <<>>]
    IN  [catalog EXCEPT !.digest = CatalogDigest(catalog)]
TheCatalog == Edition(<<Confirmed("status", "enum", FALSE, <<Text(1), Text(2)>>),
                        Confirmed("due", "date", TRUE, <<>>),
                        Confirmed("paid", "money", TRUE, <<>>)>>)
TheKinds == [status |-> "source", due |-> "exists", paid |-> "aggregate"]

OfFact(code)   == [kind |-> "fact", code |-> code]
OfValue(value) == [kind |-> "literal", value |-> value]
Today          == [kind |-> "today"]
Compared(id, left, operator, right) ==
    [id |-> id, kind |-> "compare", enabled |-> TRUE, left |-> left, operator |-> operator,
     right |-> right, nullPolicy |-> "indeterminate"]
IsNull(id, code) == [id |-> id, kind |-> "compare", enabled |-> TRUE, left |-> OfFact(code),
                     operator |-> "is_null", nullPolicy |-> "fail"]
RuleOf(code, when, outcome) ==
    [code |-> code, priority |-> 10, status |-> "active", when |-> when, outcome |-> outcome,
     reason |-> code, issues |-> <<>>]
BlockedBy(code, issue) == [code |-> code, priority |-> 10, status |-> "blocked", issues |-> <<issue>>]

\* The candidate whose post gate compares the due date with `day`.
Structure(day) ==
    [set |-> "RELEASE", catalog |-> CatalogIdentity(TheCatalog), required |-> <<"status", "due", "paid">>,
     stages |-> <<[stage |-> "stateGuards",   rules |-> <<RuleOf("CLOSED", Compared("c1", OfFact("status"), "eq", OfValue(Text(1))), "SKIPPED")>>],
                  [stage |-> "prerequisites", rules |-> <<RuleOf("NO_DATE", IsNull("c2", "due"), "WAITING_COMPLETION")>>],
                  [stage |-> "eligibility",   rules |-> <<RuleOf("PAID", Compared("c3", OfFact("paid"), "gte", OfValue(Whole(100))), "READY")>>],
                  [stage |-> "postGates",     rules |-> <<RuleOf("OVERDUE", Compared("c4", day, "gt", OfFact("due")), "WAITING_CONDITIONS")>>],
                  [stage |-> "exclusions",    rules |-> <<RuleOf("TOO_MUCH", Compared("c5", OfFact("paid"), "gt", OfValue(Whole(1000))), "NO_RELEASE_REQUIRED")>>]>>,
     defaultOutcome |-> "WAITING_CONDITIONS", defaultReason |-> "NOTHING", issues |-> <<>>, proposed |-> <<>>,
     views |-> <<>>, safe |-> TRUE]

Dated    == Structure(OfValue(IsoDate(5)))
Floating == Structure(Today)
Mirrored == [Dated EXCEPT !.stages[5].rules[1].when =
                Compared("c5", [kind |-> "multiply", children |-> <<OfFact("paid"), OfValue(Whole(2))>>],
                         "lt", OfFact("paid"))]

\* What may be wrong with a candidate: its shape, its stages, an outcome, a type, what it
\* requires, its ids, or the catalogue it was written over; or it asks for a confirmation.
Unshaped    == [Dated EXCEPT !.stages[2].rules = <<>>]
Misordered  == [Dated EXCEPT !.stages[1].stage = "exclusions", !.stages[5].stage = "stateGuards"]
EarlyReady  == [Dated EXCEPT !.stages[2].rules[1].outcome = "READY"]
IllTypedOne == [Dated EXCEPT !.stages[3].rules[1].when = Compared("c3", OfFact("paid"), "gte", OfFact("due"))]
Unclosed    == [Dated EXCEPT !.required = <<"status", "paid">>]
SameIds     == [Dated EXCEPT !.stages[5].rules[1].when.id = "c3"]
Stale       == [Dated EXCEPT !.catalog[2] = "0"]
Asking      == [Dated EXCEPT !.stages[5].rules[1] = BlockedBy("TOO_MUCH", "i1"),
                             !.issues = <<[id |-> "i1", facts |-> {"paid"}]>>]

TheAnswers == {<<"failed", code>> : code \in {"timeout", "empty", "auth_failed"}}
              \cup {<<"content", c>> : c \in {NotJson, Dated, Floating, Mirrored, Unshaped, Misordered,
                                              EarlyReady, IllTypedOne, Unclosed, SameIds, Stale, Asking}}

\* The evaluation date of the cases is not the day on which they are written.
Given(status, due, paid) == [status |-> Text(status), due |-> due, paid |-> Whole(paid),
                             evaluationDate |-> IsoDate(4)]
TheGivens == <<Given(2, IsoDate(5), 100), Given(2, IsoDate(4), 2000), Given(1, Null, 99)>>
TheSlips   == {"none", "undated", "policy", "type", "kind", "optional", "parameter", "omitted", "repeated", "expected",
               "ungiven", "edition"}
TheChanges == {"dropped", "duplicated", "reordered", "requery", "unready", "restaged", "reissued"}

\* What becomes of an accepted structure does not depend on how often it was asked for.
FirstAnswerCounts == phase # "pending" => attempts = 1
=============================================================================
