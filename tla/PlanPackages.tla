---------------------------- MODULE PlanPackages ---------------------------
(***************************************************************************)
(* From the optimisation plan to two stored deliveries                     *)
(* (application/rule_parsing/workflow_v31.py, infrastructure/              *)
(* optimization_plan_artifacts.py, application/v31_persistence/            *)
(* packages.py, cli.py): a process generates the report and the data       *)
(* delivery in four steps, writes them file by file as two packages into   *)
(* one directory, then reads the packages back and persists them.  It may  *)
(* break off between any two steps; another one then works in the same     *)
(* directory.  How persist() goes about it is module DeliveryPersistence:  *)
(* it is one step here, which stores what was read back or finds another   *)
(* delivery in its place.  What a delivery holds and which ones the gates  *)
(* let pass are parameters; module PlanRelease has the ones of the code.   *)
(***************************************************************************)
EXTENDS PlanIdentity, Naturals, Sequences

CONSTANTS
    MaxRuns,                \* bound: the processes that generate, one after the other
    Deliver(_, _),          \* <<the delivery of a kind for an identity>>, or <<>>
    PassesGates(_, _, _, _),\* what prepare_v31_delivery lets pass
    MayGenerate(_)          \* the rule versions that may be generated

Kinds == <<"report", "data">>
Parts == <<"catalog", "candidate", "result", "requests", "manifest">>
TheKinds == {Kinds[i] : i \in DOMAIN Kinds}
TheParts == {Parts[i] : i \in DOMAIN Parts}
Contents == TheParts \ {"manifest"}

\* The identities that generate() is asked for: of the plan as it is frozen, of the same
\* file with another text read from it (no constant holds the hash of the text), of an
\* earlier revision of the file (whose package an earlier release of the tool wrote), and
\* three that do not hold.  The plan's file is "frozen".
Identity(file, input, extractor, sections) ==
    [file |-> file, input |-> input, extractor |-> extractor, sections |-> sections]
Asked == [frozen  |-> Identity("frozen", "text", Extractor, Sections),
          reread  |-> Identity("frozen", "other text", Extractor, Sections),
          earlier |-> Identity("earlier", "text", Extractor, Sections),
          foreign |-> Identity("frozen", "text", "optimization-plan-sections-v0", Sections),
          partial |-> Identity("frozen", "text", Extractor, <<"1.3", "5.1">>),
          same    |-> Identity("frozen", "frozen", Extractor, Sections)]
Revisions == {"frozen", "reread", "earlier"}

\* What build_delivery gives for each of them, and what the gates of prepare_v31_delivery
\* say of a package of each mixture of files.
Built == [name \in DOMAIN Asked |-> [kind \in TheKinds |-> Deliver(kind, Asked[name])]]
Closes(catalog, candidate, result, requests) ==
    PassesGates(catalog.catalog, candidate.candidate, result.result, requests.requests)
ClosesOf(of, files) ==
    Closes(of[files["catalog"]], of[files["candidate"]], of[files["result"]], of[files["requests"]])
Verdicts ==
    {[kind |-> kind, files |-> files,
      closes |-> ClosesOf([name \in Revisions |-> Built[name][kind][1]], files)] :
         kind \in TheKinds, files \in [Contents -> Revisions]}

\* The file as a revision wrote it, and which revisions wrote the same.
FileOf(kind, part, revision) == Built[revision][kind][1][part]
Alike == {entry \in TheKinds \X Contents \X Revisions \X Revisions :
             FileOf(entry[1], entry[2], entry[3]) = FileOf(entry[1], entry[2], entry[4])}
SamePackage(kind, files, others) ==
    \A part \in Contents : <<kind, part, files[part], others[part]>> \in Alike
WhollyOf(revision) == [part \in Contents |-> revision]
ContentsOf(package) == [part \in Contents |-> package[part]]

None == "none"

VARIABLES runs,     \* how many processes have started to generate
          step,     \* where the process is
          plan,     \* the identity it works on
          made,     \* the deliveries it has generated
          written,  \* how many files of the packages it has written
          disk,     \* disk[kind][part]: the revision that wrote the file last
          summary,  \* summary.json: [of, mongodbWritten]
          stored    \* the deliveries that MongoDB has: [kind, files], files as on the disk
planVars == <<runs, step, plan, made, written, disk, summary, stored>>

NoSummary == [of |-> None, mongodbWritten |-> FALSE]

PlanInit ==
    /\ runs = 0 /\ step = "idle" /\ plan = None /\ made = {} /\ written = 0
    /\ disk = [kind \in TheKinds |-> [part \in TheParts |-> None]]
    /\ summary = NoSummary /\ stored = {}

-----------------------------------------------------------------------------
\* generate_from_source_bytes refuses bytes that are not the frozen file's; generate() is
\* given an identity by its caller.
Generate ==
    /\ step = "idle" /\ runs < MaxRuns
    /\ runs' = runs + 1
    /\ plan' \in DOMAIN Asked
    /\ step' = "check_identity" /\ made' = {}
    /\ UNCHANGED <<written, disk, summary, stored>>

Goto(node) == step' = node /\ UNCHANGED <<runs, plan, written, disk, summary, stored>>

CheckIdentity ==
    /\ step = "check_identity"
    /\ Goto(IF Frozen(Asked[plan]) /\ Asked[plan].file # Asked[plan].input
            THEN "generate_report" ELSE "refused")
    /\ UNCHANGED made

\* build_delivery validates, interprets every case and exports before it returns.
GenerateOne(kind, next) ==
    IF Built[plan][kind] # <<>> THEN made' = made \cup {kind} /\ Goto(next)
    ELSE Goto("refused") /\ UNCHANGED made
GenerateReport == step = "generate_report" /\ GenerateOne("report", "generate_data")
GenerateData   == step = "generate_data" /\ GenerateOne("data", "gate_delivery")

\* _gate_delivery: two independent reviewed imports.
Independent(report, data) ==
    /\ \A delivery \in {report, data} :
          /\ MayGenerate(delivery.result.version)
          /\ delivery.result.deliveryRef.purpose = "optimization-plan-generation"
          /\ delivery.result.parser = Parser /\ delivery.requests # <<>>
    /\ report.result.set # data.result.set
    /\ report.catalog.digest # data.catalog.digest
GateDelivery ==
    /\ step = "gate_delivery"
    /\ Goto(IF Independent(Built[plan].report[1], Built[plan].data[1]) THEN "generated" ELSE "refused")
    /\ UNCHANGED made

-----------------------------------------------------------------------------
\* write_optimization_plan_packages: the five files of each package, then the summary.
Package == Len(Parts)
WriteFile ==
    /\ step = "generated" /\ written < 2 * Package
    /\ disk' = [disk EXCEPT ![Kinds[1 + (written \div Package)]][Parts[1 + (written % Package)]] = plan]
    /\ written' = written + 1
    /\ UNCHANGED <<runs, step, plan, made, summary, stored>>
WriteSummary ==
    /\ step = "generated" /\ written = 2 * Package
    /\ summary' = [of |-> plan, mongodbWritten |-> FALSE]
    /\ step' = "written"
    /\ UNCHANGED <<runs, plan, made, written, disk, stored>>

\* load_v31_artifact_dir and the gates of prepare_v31_delivery, on whatever the files are:
\* the manifest has the hashes of the four files that its own writer wrote.
Approved == Asked.frozen.file
OfTheApproved(kind, revision) ==
    /\ MayGenerate(FileOf(kind, "result", revision).version)
    /\ FileOf(kind, "result", revision).source.file = Approved
\* Mutant: result.json alone is looked at.
LoadsByResult(kind, package) ==
    /\ \A part \in TheParts : package[part] # None
    /\ OfTheApproved(kind, package.result)
Loads(kind, package) ==
    /\ \A part \in TheParts : package[part] # None
    /\ OfTheApproved(kind, package.result)
    /\ SamePackage(kind, ContentsOf(package), WhollyOf(package.manifest))
    /\ [kind |-> kind, closes |-> TRUE, files |-> ContentsOf(package)] \in Verdicts

\* The two unique indexes agree on these deliveries: the version is made of the rule set,
\* the file, the catalogue and the time of generation, which is a constant.
SameVersion(kind, files, others) ==
    FileOf(kind, "result", files.result).version = FileOf(kind, "result", others.result).version
Conflicts(kind, files) ==
    \E entry \in stored : /\ entry.kind = kind /\ SameVersion(kind, entry.files, files)
                          /\ ~SamePackage(kind, entry.files, files)
Persistable(kind) ==
    Loads(kind, disk[kind]) /\ ~Conflicts(kind, ContentsOf(disk[kind]))
Store(kind) ==
    stored' = stored \cup {[kind |-> kind, files |-> ContentsOf(disk[kind])]}

\* persist_optimization_plan_output persists the report, then the data; a package that
\* does not load, or that conflicts with what is stored, ends the run.
PersistPackage(kind) ==
    IF Persistable(kind)
    THEN Store(kind) /\ step' = IF kind = "report" THEN "reportPersisted" ELSE "persisted"
    ELSE step' = "refused" /\ UNCHANGED stored
PersistReport == /\ step = "written" /\ PersistPackage("report")
                 /\ UNCHANGED <<runs, plan, made, written, disk, summary>>
PersistData   == /\ step = "reportPersisted" /\ PersistPackage("data")
                 /\ UNCHANGED <<runs, plan, made, written, disk, summary>>

\* Mutant: the summary is marked as soon as the report is persisted.
MarkAfterReport ==
    /\ step = "reportPersisted"
    /\ summary' = [summary EXCEPT !.mongodbWritten = TRUE]
    /\ step' = "done"
    /\ UNCHANGED <<runs, plan, made, written, disk, stored>>
\* mark_packages_persisted reads the summary back.
Mark ==
    /\ step = "persisted"
    /\ summary' = [summary EXCEPT !.mongodbWritten = TRUE]
    /\ step' = "done"
    /\ UNCHANGED <<runs, plan, made, written, disk, stored>>

\* persist_optimization_plan_v31_delivery.py persists one package that lies there.
PersistDirectory ==
    /\ step = "idle"
    /\ \E kind \in {k \in TheKinds : Persistable(k)} : Store(kind)
    /\ UNCHANGED <<runs, step, plan, made, written, disk, summary>>

\* A process ends by itself, or breaks off, or is run without --persist.
End ==
    /\ step # "idle"
    /\ step' = "idle" /\ plan' = None /\ made' = {} /\ written' = 0
    /\ UNCHANGED <<runs, disk, summary, stored>>

PlanNext ==
    \/ Generate \/ CheckIdentity \/ GenerateReport \/ GenerateData \/ GateDelivery
    \/ WriteFile \/ WriteSummary \/ PersistReport \/ PersistData \/ Mark
    \/ PersistDirectory \/ End

PlanSpec == PlanInit /\ [][PlanNext]_planVars

-----------------------------------------------------------------------------
\* A delivery is stored with the four files of one generation of the approved plan, and
\* under one rule version there is one delivery: however the files in the directory came
\* to be there, and whichever revisions were generated, written over or broken off.
StoredIsWhole ==
    /\ \A entry \in stored : \E revision \in Revisions :
          /\ SamePackage(entry.kind, entry.files, WhollyOf(revision))
          /\ FileOf(entry.kind, "result", revision).source.file = Approved
    /\ \A entry, other \in stored :
          entry.kind = other.kind /\ SameVersion(entry.kind, entry.files, other.files)
          => SamePackage(entry.kind, entry.files, other.files)

\* A summary that says mongodbWritten speaks of two deliveries that MongoDB has as the
\* summary's process generated them, not as another revision left them there.
SummaryTellsTheTruth ==
    summary.mongodbWritten =>
        \A kind \in TheKinds : [kind |-> kind, files |-> WhollyOf(summary.of)] \in stored
=============================================================================
