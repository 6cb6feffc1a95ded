# A TLA+ verification of RuleReader

RuleReader turns the text of a business rule into a validated, versioned rule
document. A FastAPI service and a command line take the text, a LangGraph
workflow has DeepSeek draft a candidate and validates it, MongoDB keeps the
drafts as immutable versions, and an export hands the facts of a rule to a
second service ("Agent 2", SqlBot) that binds them to database fields. The
code is Python on asyncio, under `src/src/rule_reader/` (paths below are
relative to that directory unless they begin with `src/`).

This directory models the parts of that program whose behaviour depends on
interleavings, failures, retries and crashes, and the rule language whose
interpretation everything else rests on; model-checks them with TLC; and proves
safety properties of them, and the refinements of the abstract specifications,
for all parameters with TLAPS.

| modules | what they are |
|---|---|
| `IdempotentParsing` | the idempotency coordinator of `RuleParsingService` |
| `KeyBinding` | abstract: what idempotency keys promise |
| `ParseWorkflow` | the graph behind one parse, with the DeepSeek adapter |
| `Migrations` | `apply_migrations`, run by several processes |
| `HandoffPersistence` | rule versions and the V2 handoffs of their facts |
| `DeliveryPersistence` | the V3 and V3.1 deliveries, their reader, the recovery store |
| `DeliveryRegister` | abstract: what the two delivery stores promise together |
| `RuleValues`, `ConditionShapesV2`, `ConditionsV2`, `ConditionNodesV31`, `ConditionsV31`, `StagedDecision` | the rule language: values, conditions in its two dialects, five stages |
| `FactCatalog`, `StructureV3`, `StructureV31` | catalogues, structures of schema 3.0.0 and 3.1.0: validation and interpretation |
| `BindingsV3`, `ResultV3`, `ResultV31`, `ReadinessV3` | binding requests, results, exports, readiness, the gates before a write |
| `StructureWorkflow` | the V3 structure workflow |
| `ReleaseV3` | from an accepted structure to a delivery that may be written |
| `OptimizationPlan`, `PlanCases`, `PlanDelivery` | the two trees of the optimisation plan, their catalogues, cases, queries, deliveries |
| `PlanIdentity`, `PlanPackages` | the V3.1 offline workflow, the package directory, persisting it, over any deliveries and gates |
| `PlanRelease` | the same with the deliveries and the gates of the code |
| `PlanDecision` | a task decided by those trees while its facts become known |
| `MCIdempotentParsing`, `MCHandoffPersistence`, `MCDeliveryPersistence`, `MCReleaseV3`, `MCPlan` | instances for TLC |
| `IdempotentParsing_proofs`, `ParseWorkflow_proofs`, `Migrations_proofs`, `HandoffPersistence_proofs`, `DeliveryPersistence_proofs`, `ReleaseV3_proofs`, `PlanRelease_proofs`, `PlanDecision_proofs` | theorems |

`PROJECT.json` holds the same in machine-readable form: components, runs, the
lines of code behind every definition, hazards, findings, theorems, and for
every property a mutated operator that makes TLC refute it. Mutated forms stand
in the modules right before the operator they are a slip of.

## 1. The system

### Components, their state, operations and correctness

**Idempotency coordinator** (`application/rule_parsing/workflow.py`, class
`RuleParsingService`). State: an `OrderedDict` of completed parses, bounded and
kept in LRU order; a dict of parses in flight; one asyncio task per keyed
parse. Operations: `start`, `close`, `parse_text`, `_run_idempotent`. Hard:
concurrent calls with one key, cancelled callers, tasks that outlive `close()`,
eviction. Correct when one key has one parse at a time, answers are never
somebody else's, replays are exact, and nobody waits for ever.

**Parse workflow** (same file, the graph). State: `ParserState` - attempts,
audit entries, last raw candidate, last error, result. Operations: the nodes
`prepare_input`, `invoke_model`, `validate_candidate`, `build_result`, `error`
and the routes between them. Hard: two nodes share a retry budget, one node
writes an audit entry and another its outcome, candidate and feedback survive
from different attempts. Correct when the audit is what happened, the budget is
kept, the result stems from the last, valid candidate.

**DeepSeek adapter** (`infrastructure/deepseek.py`). State: the HTTP client.
Maps every outcome of a request to a candidate or a classified error.

**Schema migrations** (`infrastructure/migrations.py`, called through
`MongoManager.initialize`). State, all in MongoDB: `schema_migrations`, the
collections and indexes, `app_metadata`. Hard: the service, `init-db` and the
persistence scripts may run it at once with different targets, and may die
between any two commands; there is no lock and no transaction. Correct when
records have no gap and are never ahead of what is built.

**Rule version store** (`infrastructure/rule_versions.py`). `rule_versions`,
insert-only. **V2 handoffs** (`application/fact_binding_handoffs/`,
`infrastructure/fact_binding_handoffs.py`). State: `fact_binding_handoffs`, one
document per fact. Operation: `persist` - check what is there, insert what is
missing one by one, read back, compare, re-read the rule. Hard: partial
batches, concurrent runs, releases of the exporter that disagree. Correct when
records are immutable, a success is and stays true, and retries are safe.

**V3 and V3.1 deliveries** (`application/v3_persistence/`,
`application/v31_persistence/` and their adapters). A rule document and a batch
document, two inserts without a transaction, in collections both versions
share; verified by read-back and by counting legacy collections; read by
`get_complete_delivery` with two commands. **V3 recovery store**
(`infrastructure/v3_recovery.py`): insert-only candidates. Correct when nothing
stored is replaced, a reader gets one delivery or none, conflicts are real and
a reported delivery stays readable.

**V3 structure workflow** (`workflow_v3.py`): two nodes, explicit feedback
state. **V3.1 offline workflow** (`workflow_v31.py`): identity, two generations
and a gate, each with an exit; its packages are written to a directory
(`infrastructure/optimization_plan_artifacts.py`) and persisted from there
(`application/v31_persistence/packages.py`). Hard: files of different releases
in one directory, processes that break off. Correct when what is stored comes
from one generation and summaries tell the truth.

**Rule domain** (`domain/rules/`): pure functions over rule documents.
Conditions are three-valued; five stages are decided in order; a structure is
validated against a catalogue of confirmed facts; a result adds declarations
and cases; requests are exported for Agent 2; readiness gates and the gates
before a write check all of it again. Hard: four sets of rules for one delivery,
null policies, dates. Correct when what one part lets through the next can
use, and what is wrong is stopped by one of them.

**Optimization plan** (`domain/optimization_plan/`): two trees that Agent 1
writes itself, R0-R9 and D0-D4, with catalogues, queries and some hundred cases.
Correct when the cases hold, nothing is released that is not paid for, merge
groups are released together, and unknown amounts decide nothing.

**API, CLI, lifecycle** (`api/`, `cli.py`, `main.py`), **document reader**,
**scripts**: I/O around the above.

### How they interact

A request reaches `parse_text`; the coordinator answers from its table, refuses,
joins a task, or starts one; the task runs the workflow, which calls the
adapter; the caller gets the result and may have the rule version store save it.
Handoff runs, in other processes, read that rule version and write handoffs.
Every process that touches the database first runs the migrations. The V3
workflow calls the same adapter; a script makes an accepted structure into a
result, exports requests and leaves four files, which another script checks and
persists. The plan command generates two deliveries, writes their packages and
persists them from the files. Shared state
is of two kinds: in one process, the coordinator's tables, shared between
callers and tasks that switch at `await`; across processes, MongoDB, where one
command is atomic and nothing larger is.

## 2. The modules

### IdempotentParsing

`completed`, `order`, `inflight` are the two tables and the order of the first;
a task is named after the call that created it, so that an entry holds a call's
name, and result and fingerprint are found through it. `task` is the state of
each parse, seen from the coordinator (`ready`, `calling`, `parsed`,
`rejected`, then settled), `call` what each `parse_text` asked for and came to,
`client` the adapter's HTTP client, `service` where `start`/`close` stand.
`forgotten` and `since` are history variables: the tasks whose entry was evicted
or cleared, and the keys used since the last use of each key.

asyncio switches only at an `await`, and no section under `_idempotency_lock`
awaits, so each section is one action: `ReplayCompleted`, `RejectConflict`,
`JoinInflight`, `StartTask` (the paths through `parse_text`), `SettleSuccess`
and `SettleFailure` (the ends of `_run_idempotent`). `close()` awaits the
client's `aclose()` before it clears the tables: `BeginClose`, `FinishClose`.
`CancelCaller` is a cancelled request: a keyed task is shielded, a parse without
key is the caller's own coroutine. Hashing is abstracted: equal keys and equal
identities are equal values, different ones different.

`KeyBinding` knows keys that are free, pending or done, and says what may happen
to such a binding and which answers a call may get. `IdempotentParsing`
instantiates it with the mapping at the end of the module.

### ParseWorkflow

One action per node; `invoke_model` is split at its `await` into `CallProvider`
and `Receive`. An answer of the provider is one of six outages or a body of one
of seven kinds with or without usage; the set is every case the adapter or the
validation treats in a way of its own. Candidates and feedback are the numbers
of the attempts they come from, which is all that the questions "whose
candidate?" and "feedback about what?" need. `sent` (what each call was given),
`answers` and `slept` (the seconds waited before each call) are history. Left
out: an exception nobody expects inside a node, which for the coordinator is a
fatal failure.

### Migrations

One action per database command, or group of idempotent commands of the same
kind in one migration. `records` is `schema_migrations`, `built` what
collections and indexes exist, `metadata` the version in `app_metadata`. A run
may start from any version, also one newer than the service. Some processes are
of the next release (`Newer`), which knows one version more: it may take the
database beyond what this release knows while a process of this one is at work.
The code judges the highest record once, before the loop, and so does
`ReadLatest`: a process that has passed goes on afterwards, applying, stamping
and returning as if ready. No property says that it does not; the properties say
what records and structure are even so. `Crash` covers a dying process and a
command that raises; the process may be started again with any target.

### HandoffPersistence

The records of one rule version; those of others cannot interfere, since
identities contain the version. `rule` is the stored rule version's schema,
`store` the payload recorded for each fact, `run` where each run of `persist`
stands, what it takes as saved and what it claims to have inserted; `used` is
history. An action is a command with the checks behind it. The payload check,
the hash and the JSON Schema of a single record are abstracted to equality of
payloads. `BreakOff` is a command that fails or a process that dies. An export
is fixed when the run begins; `Exports` is what the deployed releases of the
exporter make of the same rule.

### DeliveryPersistence

`rules` and `batches` are the two collections V3 and V3.1 share, `recovery` the
candidate under one id, `legacy` the counts of the collections a delivery must
leave alone, `damage` what was altered behind the program's back. A run of
`persist` (of either service) counts, saves the rule, confirms a duplicate,
saves and confirms the batch, reads both back, and counts again: one action per
command. A reader reads rule and batch with two commands. `BreakOff` and its
like are commands that fail or processes that die. Documents are schema and
canonical content. `DeliveryRegister` is the promise: the rule, then the batch
that goes with it, nothing replaced, only what is whole is reported.

The rule collection has two unique indexes (`migrations.py:176`, `:181`): over the
rule version, and over the *source* of the rule - rule set, hash of the source
text, digest of the catalogue (`source` of a delivery, `SourceHolders`). A rule
version holds the time at which it was generated, so a delivery generated again
from the same source has a version of its own under which nothing is stored; its
insert is refused by the second index, and the repository, which looks under the
version alone, reports a conflict (`ConfirmRule`). Hence a conflict says that
another delivery has the version *or the source* (`HeldByAnother`), not that
something stands under the version. Editing a rule's wrapper may take it out of
the second index's way: both outcomes of the insert are allowed then. The recovery
store's candidates have a second index too, over the fields that their id is
computed from (`recovery_v3.py:38`, `:57`): two candidates agree in both or in
neither, so one id stands for both.

### The rule language and structures

A value is a pair or triple of its kind and its content (`RuleValues`), numbers
are fractions, dates days, so that comparisons across kinds do what Python's do:
equality says no, order raises, which is an undecided condition. Two values that
Python keeps apart are one here: a `Decimal` and a float of the same digits
(`Decimal('0.1') == 0.1` is `False`), since no tree compares a fraction for
equality. An instant given as text is one in UTC (`...Z`); one at another offset,
whose own day `_parse_evaluation_date` takes, is not among the values.
`ConditionsV2` (`validation_v2.py`, used by V3) and `ConditionsV31`
(`validation_v31.py`, with parameters, missing values, members of collections)
give the shape, types and value of expressions and conditions as recursive
functions; what does not recur over a tree stands in `ConditionShapesV2` and
`ConditionNodesV31`.
`StagedDecision` runs the stages, first hit first, and stops where a
stage is undecided. `StructureV3`/`StructureV31` say which candidates a
validator accepts and how they are interpreted; messages of issues are left out,
acceptance is not. `BindingsV3`, `ResultV3`/`ResultV31` and `ReadinessV3` are
the shapes of requests and results, the export and the gates, in the order of
the code where the order decides.

The proof system cannot use recursive operators, so `StructureV3` and
`StructureV31`, and what is built on them, take those that recur over trees
(`NodesOf`, `SizeOf`, `InferredTypeOf`, `ResultOf`, and `InferenceFails` or
`ValueOf`) as parameters; `MCReleaseV3` gives them those of `ConditionsV2`,
`MCPlan` those of `ConditionsV31`. The theorems about deliveries therefore hold
for whatever the trees and their interpreter are. It cannot expand `@@` either:
where a module with theorems lays one function over another it uses `Overlay`.

### StructureWorkflow and ReleaseV3

`StructureWorkflow` has the two nodes and their routes; an answer is a failure
of the adapter or a content. The two validations of a content (`MatchesSchema`,
`PassesSemantics`) are parameters; the `rules` run gives them those of
`StructureV3`, over the catalogue of the release. `ReleaseV3` goes on with an
accepted structure: the result is written by hand-made code that may slip
(`Slips`: a wrong type, a fact left out, another edition of the catalogue, ...),
the requests are exported, readiness is assessed before and after, files may
change on disk (`Changes`), days go by, and `Prepare` is `prepare_v3_delivery`
with its gates.

### The optimisation plan

`OptimizationPlan` has the two trees condition by condition, written with
operators that are the code's own builders (`expr.py`); `PlanCases` the cases;
`PlanDelivery` queries, declarations, result and requests. `PlanPackages` is the
state machine around them, with what a delivery holds (`Deliver`), the gates
(`PassesGates`) and the rule versions allowed (`MayGenerate`) as parameters: the
graph of `workflow_v31.py`, ten files and a summary written one by one, loading
by manifest and gates, persisting report and data, marking the summary, breaking
off anywhere. Three revisions of the plan have identities that hold: the frozen
one, an earlier one of another file, and one of the frozen file whose text was
read differently (`reread`: of the two hashes only the file's is a constant of the
code), which gives another candidate and result under the *same* rule version. A
file on the disk is known by the revision that wrote it; two are compared by
content (`Alike`), as the manifest's hashes do: the catalogue of `reread`, for
one, is the frozen one's, and a package in which only it is exchanged loads.
`stored` has the four files as they were read, and a delivery that contradicts
what is stored under its version is refused (`Conflicts`; in steps,
`DeliveryPersistence`). What the gates say of a mixture of files is computed once
(`Verdicts`), for mixtures of the revisions of the plan; that a directory never
holds anything else is a theorem (`RevisionsAreWritten`). `PlanRelease` extends
it with `PlanDelivery`, and the run gives it those deliveries and the gates of
`ResultV31`. `PlanDecision` looks at what the trees decide: a task starts with
some facts unknown, learns them and the members of its group in any order, and
is interpreted anew after each.

## 3. What TLC checks

| run | instance | question |
|---|---|---|
| `parsing_safety` | 3 calls, 2 keys, 2 fingerprints, capacity 1, 1 attempt | no foreign result, single flight, exact replay, no orphan returns, cancellation stays private |
| `parsing_lru` | 4 calls, 3 keys, capacity 2 | eviction is LRU |
| `parsing_live` | 2 calls, 2 keys, 2 fingerprints, 2 attempts | every call answered; implements `KeyBinding` |
| `migrations_concurrent` | 2 processes, one of the next release; 5 versions, targets 3, 4 and 5 | records, structure, returned versions, the only way to a downgrade |
| `migrations_downgrade` | the same | refuted: metadata never downgraded |
| `workflow_parse` | 4 attempts, every answer | audit and waits, budget, feedback, result; the parse ends; refines the coordinator's task |
| `workflow_usage` | 3 attempts, every answer | refuted: all returned usage is counted |
| `workflow_feedback` | 3 attempts, every answer | refuted: feedback is about the candidate sent |
| `handoffs_releases` | 2 workers, 3 facts, 4 exports | truth of reports, nesting, safe retries |
| `deliveries` | 2 runs, 1 reader, 2 recovery runs, 3 versions, 2 sources, 6 releases of both schemas, 1 legacy record, 1 damaged document | one delivery or none, promises kept, conflicts real, counts, recovery; implements `DeliveryRegister` |
| `rules` | 3 attempts, 15 answers, 12 slips, 7 changes, 2 days | each attempt judged on its own, feedback, a delivery of one piece, honest ones prepared |
| `plan` | 3 processes, 6 identities, 3 of which hold; 9 tasks with open facts | what is generated, how complete it is, what is stored, the summary; payment, groups, amounts |

**Why the bounds are enough.** Two calls can conflict, join or race; a third is
needed for a task that settles while another, started for the same key after a
restart, is in flight, or for a key evicted between two calls of another. One
entry makes every second key evict; the LRU run has two, so that order matters,
and three keys, so that there is one too many. Retries inside a task do not
touch the tables, hence one attempt in the safety run; the liveness run has two
and calls without key. `OnlyCallsWithKey` and `OnlyCacheTraffic` leave aside
behaviours with calls that touch no table, which the liveness run has. Calls and
keys are symmetric; symmetry is used for safety only. Two processes suffice for
one to overtake the other; four versions and two targets let the overtaken one
be several versions behind and let targets differ, and a fifth version is the
next release's; the real target set (4, 5, 6 of 6) has the same shape. Three retries with a cap of twice the base
delay let the backoff start, double and be capped. Two workers meet at each of
three facts, with exports that are equal, nested, overlapping and contradictory.
The proofs remove these bounds for every safety property of the coordinator, the
parse workflow, the migrations, the handoffs and the two delivery stores, and for
the three refinements; section 4 has the list.

For `deliveries`, two runs race for each of the two inserts with releases that
differ in rule and batch, so that the rule of one with the batch of the other is
no delivery; that agree in the rule and differ in the batch; with one of the other
schema; and with one of another version and the same source. The historical
version has its own rules. The constraint `Apart` leaves four
combinations unexplored, to stay within minutes: the counts of legacy
collections are watched with one run at a time and no reader, since no other
action of a run or a reader reads or writes them; damage meets one run at a
time; two recovery runs at once meet no run of `persist`; and nobody reads
the version that was generated again, of which there is one release only.

For `rules`, one structure with one rule in each stage is given in three forms
that are accepted and eight that are flawed each in its own way; what follows
acceptance does not read the attempts, so it is explored after the first only
(`FirstAnswerCounts`). For `plan`, three processes let one write over what
another left and a third load the mixture, of two revisions that can be stored and
one that cannot; the tasks' facts and their possible
values lie on both sides of each share of payment, and the group has a member
released, one ready, and ones that are not for different reasons. All cases of
the repository (some written as families) are interpreted in building what
`Built` holds: if one did not come out as the repository states it, nothing
would be generated.

**Deadlock** is checked where the system keeps going (migrations, handoffs,
deliveries: a run can always be started again, or the bound lets a reader go
on). It is off for the coordinator, where the calls of the instance run out and
the service may stop, for the workflows, which end, and for the plan, where all
facts of a task become known.

**Fairness.** `IdempotentParsing` and `ParseWorkflow` have a `FairSpec` for
their liveness properties. The event loop runs every task that can run, an HTTP
request ends because httpx has a timeout (`deepseek_timeout_seconds`), `close()`
ends: weak fairness of a task's attempt and settlement, of the delivery to a
caller, and of `FinishClose`; likewise of the workflow's step. Never assumed:
that somebody calls, cancels, starts, closes, crashes, or refrains from it. The
other modules state safety only: whether a command that broke off is repeated is
its operator's decision.

### Disagreements with the documentation

1. `migrations_downgrade`. The docstring of `apply_migrations` says the database
   is never downgraded. A process that found version *n* unrecorded and was
   overtaken stamps *n* over a higher version in `app_metadata`.
   `schema_migrations`, which decides what is applied, is not affected, and
   `OnlyTheOvertakenDowngrade` (checked and proved) says that this race is the
   only way.
2. `workflow_usage`. The call governance document wants the usage of every
   attempt that returned some; the adapter reads usage last, and drops it for
   answers it refuses before.
3. `workflow_feedback`. The system prompt says that feedback concerns the
   candidate sent along; after a rejected candidate and an empty answer it
   concerns the empty answer. `FeedbackIsFresh` says what does hold. The V3
   workflow does the same (`FeedbackIsOfTheLastAnswer`).

Differences met in the models that no run refutes, since no property of a run
states the documented form:

- `docs/DEV-20260917-01-optimization-plan-rule-handoff.md:62` calls a delivery
  consumable when tree, catalogue, result and batch can be read back with hashes,
  versions and closure that agree. `get_complete_delivery` asks for presence
  only; the 3.1.0 parsers compare the hash of the inner document and no field of
  its wrapper. A document whose wrapper is altered is handed out.
- The same document (:30) has dates compared as calendar days. A literal date in
  a 3.1.0 structure stays a string (`validation_v31.py:390`) and equals no date
  fact. The trees use parameters, which are converted.
- 3.1.0 interprets any ordering operator it does not name, `contains` among
  them, as "at most" (`validation_v31.py:540`). No tree uses one.
- A task whose `status_code` is missing, not null, is not held back by
  `TASK_NOT_COMPLETED` (`report_tree.py:750`): a missing fact is neither null
  nor unequal to 19. The same holds for the flags of the OA and of the merge
  group. The catalogues declare all of them nullable, so a caller that gives
  every fact, null where unknown, is not affected.
- Knowledge of facts is monotone for amounts and counts only
  (`AmountsNeverChangeADecision`): an unknown invoiced amount, organisation or
  framework type counts as "no".
- The gates of a 3.0.0 delivery compare its requests with the facts that its
  rules use; those of a 3.1.0 delivery (`application/v31_persistence/service.py:54`,
  `result_v31.py:215`) compare them with an export made from the delivery's own
  declarations. A fact that the declarations leave out would be asked of nobody.
  `build_delivery` leaves none out (`OnlyTheFrozenPlanIsGenerated`).
- `HonestDeliveryIsPrepared` has two exceptions, both in the code: a condition
  with one fact on both sides exports two pieces of evidence under one id, and a
  rule that asks for today with cases that fix no date is judged by the day on
  which it is persisted.

## 4. What is proved

Every theorem is of the form `Spec => []P`, `Spec => [][A]_vars` or `Spec =>
Abstract!Spec`, for any values of the constants that satisfy the modules' named
assumptions. The number of calls, keys, processes, workers, readers and runs is
arbitrary; finite sets are assumed only where `TypeOK` says so. The assumptions:

| module | assumed | because |
|---|---|---|
| `IdempotentParsing` | capacity and attempts are positive; "no key", "no task" are none; there is a fingerprint | settings are validated; names of the model |
| `ParseWorkflow` | `MaxRetries`, the delays are naturals, the base at most the cap; answers are among those the adapter tells apart | settings |
| `Migrations` | targets are known versions; those of the next release are among the processes | callers ask for 4, 5 or the latest; names of the model |
| `HandoffPersistence` | facts are numbered, exports are not empty and made of payloads | an export is a list; an empty one is refused |
| `DeliveryPersistence` | a delivery has one of the two schemas and a version; no document is the "absent" value | the services' own types; a name of the model |
| `StructureWorkflow` | one to three attempts; an answer is a content or a failure the adapter raises | `__init__` refuses another number |
| `ReleaseV3` | the catalogue is valid | the service refuses one that is not |
| `PlanDecision` | `OpenFactsFit`, `DossiersFit`: what is asked for, and what is known of a member, comes in the type that the catalogue declares | `evaluate_rule_structure_v31` refuses given facts of another type; a member's facts it does not check, the consumer answers both from one catalogue |

Each module defines an inductive invariant `IInv`, which implies the properties;
none of them is inductive alone. A lemma per action shows that it is kept.

**IdempotentParsing_proofs**: `TypeOK`, `TablesConsistent`, `NoForeignResult`,
`SingleFlight`, `ExactReplay`, `OrphansStayOut`,
`NeighbourCancellationIsInvisible`, `LeastRecentlyUsedGoes`. The invariant adds:
each call's record fits its state and its task (`CallInv`); table entries hold
tasks of their own key in the right state, and no forgotten task (`TableInv`);
only a task that began can be forgotten (`Forgettable`); **a keyed task that is
not forgotten is inflight under its key while it is alive, and completed under
its key when it has succeeded** (`Registered`) - this is what makes
`SingleFlight` and `ExactReplay` follow from the tables alone; and the
order lists the completed keys without repetition within the capacity
(`OrderInv`), which rests on lemmas about `Without`, `MoveToEnd` and `Newest`.
For eviction, `RecencyInv` relates two things kept separately, the table's order
and the history of uses: a completed key was followed by exactly the keys that
come after it in the order, and one that is gone by at least as many as fit.

The same module has `ImplementsKeyBinding`. The initial state maps to an
initial state, and each step of the coordinator to a step of `KeyBinding` or to
a stutter: a call that joins or is refused is a request that binds nothing, a
restart frees all bindings at once, a settlement after a restart changes none.
The mapping needs `IInv` (whose entry is it?) and that a call not made has asked
for nothing.

**ParseWorkflow_proofs**: `TypeOK`, `AuditTellsWhatHappened`, `RetryBudget`,
`ResultIsTheLastGoodCandidate`, `FeedbackIsFresh` and `RefinesTask`, for any
number of retries and any delays. The invariant: histories and audit grow
together (`LengthInv`); an entry carries its attempt's number, its delay and its
verdict, save while the last is pending (`EntryInv`); what was sent is explained by
the answer before (`SentInv`); what each node finds in the state (`NodeInv`) -
above all that a candidate to validate is from the last attempt, although `raw`
survives failures.

**Migrations_proofs**: its five invariants and `OnlyTheOvertakenDowngrade`, for
any number of processes of the two releases. The invariant says of a process in
the loop that everything below its cursor and everything it saw recorded is
recorded, and that the commands it has sent have had their effect (`LoopInv`);
for the metadata, that every version below the stamped one is recorded and that
a process applies a migration only if it did not see it recorded
(`MetadataInv`). A lemma turns gap-free records into `1 .. HighestRecord`.

**HandoffPersistence_proofs**: `TypeOK`, `RecordsAreImmutable`,
`RecordsHaveTheirRule`, `SuccessStaysTrue`, `ReportsAreNested`,
`InsertsAreClaimedOnce`, `OneExportNeverConflicts`. The invariant: what a run
takes as saved is stored as its export has it, and a run past verification has
saved its whole export (`RunInvOf`); every record comes from some export in use
(`StoreInv`); sets found complete are nested (`CompleteNested`), because the
collection only grows and was equal to each of them once.

**DeliveryPersistence_proofs**: `TypeOK`, `ReaderSeesOneDelivery`,
`PromiseIsKept`, `ConflictIsReal`, `CountsChangedIsStored`, `RecoveryIsKept` and
`ImplementsRegister`. Nothing in the two collections is ever replaced, so what a
run has found once stays true while others go on (`RunInv`): past the rule its
rule is stored, past the batch its batch, and a run that met another document
will meet it always. A batch is stored only beside the rule of its own delivery
(`RegisterInv`), so that a reader with a rule in hand holds the only one there
will be (`ReaderInv`). A run that the second index has refused met its source
under another version, where it stays, since no holder is taken out. What is proved of reads is subject to nothing having been
altered behind the program's back (`damage`), as in the runs. The refinement has
each insert as the register's insert, the last count, at which a run reports, as
its report, all else as stutter.

**ReleaseV3_proofs**: of the workflow `EachAttemptIsJudgedOnItsOwn` and
`FeedbackIsOfTheLastAnswer`, for any answers and any two validations; of what
follows it `DeliveryIsOfOnePiece`, for any catalogue, candidate, slip and change
of the files. The first two need that every attempt has its audit (`AuditInv`)
and that the raw candidate is the last content (`RawInv`). The third rests on no
invariant of the state: `GatesAskForOnePiece` derives from the gates of
`prepare_v3_delivery` alone what the consumer needs - requests for exactly the
facts the rules use, each once, with the type, the grain and the null policy of
the catalogue, with parameters the fact has and an example - through a chain of
lemmas, one per gate. `WorkflowGoesOnAlone` carries the first two over to the
whole.

**PlanRelease_proofs**: `StoredIsWhole`, `SummaryTellsTheTruth`, for any number of
processes and any generator and gates. What a process has
written stays there until it ends, since the model has one process at a time in
the directory (`WritingInv`); what it has persisted is stored with the files of
its own revision (`PersistingInv`). `StoredIsWhole` is about what MongoDB holds:
the four files of each stored delivery have the content that one revision of the
approved file gave them, and two deliveries under one rule version are the same.
The lemma `LoadedIsWhole` has the first from the manifest, whose hashes are of one
revision's files, whichever processes the files themselves come from;
`StoringKeeps` has the second from the refusal of conflicts. Nothing is asked of
the gates, which may be stricter or laxer.
`OnlyTheFrozenPlanIsGenerated` is about what is generated, so it takes the
generator to be `BuildDelivery` (`BuiltByTheCode`, which the run's cfg
substitutes). Nothing is generated but revisions (`NothingMadeButRevisions`);
that the requests of a generated delivery are those of the facts its tree
depends on, each once, follows from how declarations, queries and requests are
built one from another, whatever the conditions come to - the cases need not be
run for it.

**PlanDecision_proofs**: `AmountsNeverChangeADecision`, `NoReportWithoutPayment`,
`GroupIsReleasedTogether`, for any facts, any amounts, any values that are learnt
in any order, groups and seal scopes of any size. They are theorems of
`DecisionSpec`, which the run composes with the release part without either
touching the other's variables. Their hypothesis `Interpretation` says what the
two parameters of the language are: at each well-formed node, what `Valued` and
`Judged` compute from the nodes below - `ConditionsV31` defines them so, by a
recursion the provers cannot enter. The invariant `DecisionInv` ties the verdict
to what is known, and `MembersInv` a member's facts to the lookup of its
collection. The rest is about the trees, from the nodes up:

- What a node says, in any world (a world is what is known of a task): a lemma
  per kind of node, then per kind of question.
- *Nothing decided is taken back.* A world is `Later` than another if it differs
  in amounts that had no value, in further members and in the facts that guard a
  task. A condition `Follows` another if it says the same in the later world, or
  was indeterminate. Each of the ten rules and the five data rules follows
  itself (`EligibilityFollows`, `DataRulesFollow`), the merge condition too, with
  the members' worlds later as well; a stage whose rules follow adds the same to
  a decision or was undecided (`StepGrows`), and so for five of them in order
  (`DecisionFollows`).
- *What is released is paid for.* A ready report has every other stage calm and
  one rule of the ten passing, and it is the one that is matched
  (`ReadyReport`, in both directions). Of the four rules that no exemption
  covers, what holds when each passes is worked out down to the sums of
  rationals (`PaysHolds`, `DepositHolds`, `TierHolds`, `PaymentRulesHold`); that
  a deposit that is known is a number comes from the type that the catalogue
  declares for it (`ReportsArePlain`).
- *A group goes together.* When the merge stage is calm, every member is known,
  and terminal or ready (`GroupHolds`); a ready member, its guards replaced, is
  in a later world than the one it was asked in, so the rule that passed there
  passes by itself (`MemberIsReady`), the other stages being calm
  (`UnguardedIsCalm`). Here the flags' declared type matters: a flag that is 0 is
  not 1 as well.

Theorems that no run's property repeats, since the proof settles them:
`TablesConsistent`, `MetadataNotFarAhead`,
`RecordsAreImmutable`, `RecordsHaveTheirRule`, `InsertsAreClaimedOnce`, three type
invariants, `WorkflowGoesOnAlone`, and `OnlyRevisionsAreWritten`, which shows that
the mixtures `Verdicts` is computed for are all there can be.

**Only model-checked.** `EveryCallAnswered` and `ParseEnds`: liveness, out of the
proof system's reach. `ThePlanIsGenerated` and `HonestDeliveryIsPrepared`: that a
gate lets something pass needs the interpreter to reproduce every case, which is
a computation and not an argument. In general, what the interpreter computes for
every structure takes induction over data; what is proved of it is proved of the
two trees, whose shape is finite, and otherwise it is checked for the structures
at hand.

## 5. What is not modelled

- `bindings_v2.py` and `validate_candidate_v2` with its search for witnesses:
  the contract of schema 2.0.0, which the V3 modules replace; `ParseWorkflow`
  has its verdict as a choice.
- The confirmed profile, the reviewed rule, the tables of the formula profile,
  prompts, renderers, coverage rows: data and wording of one business document.
  `recovery_v3.py`: checks of one document without a state.
- `main.py`'s lifespan, routing, argument parsing, settings, the document
  reader: straight-line I/O.
- The consumer SqlBot, outside the repository.

Hazards that no property covers are listed in `PROJECT.json` with the reason.

## 6. What is left

1. A theorem on the gates of a 3.1.0 delivery, like `GatesAskForOnePiece` for
   3.0.0. They ask for less (section 3), so it would say less of a delivery than
   `OnlyTheFrozenPlanIsGenerated` says of those that `build_delivery` makes.
2. `ServiceLifecycle`, if the lifespan grows beyond a straight line.
