------------------------- MODULE PlanRelease_proofs -------------------------
(***************************************************************************)
(* Theorems about the packages of the plan: of module PlanPackages for any *)
(* number of processes, whatever the deliveries hold and whatever the      *)
(* gates let pass; and of module PlanRelease, with the deliveries that the *)
(* code builds and gates, whatever the conditions of their trees come to.  *)
(***************************************************************************)
EXTENDS PlanRelease, TLAPS, WellFoundedInduction

-----------------------------------------------------------------------------
(* The inductive invariant                                                 *)

Generating == {"check_identity", "generate_report", "generate_data", "gate_delivery"}
Persisting == {"written", "reportPersisted", "persisted"}
TheNames   == {"frozen", "reread", "earlier", "foreign", "partial", "same"}
Files      == 2 * Package
Deliveries == [kind : TheKinds, files : [Contents -> Revisions]]

TypeInv ==
    /\ runs \in Nat
    /\ step \in {"idle", "generated", "refused", "done"} \cup Generating \cup Persisting
    /\ plan \in TheNames \cup {None} /\ (step # "idle" => plan \in TheNames)
    /\ written \in 0 .. Files
    /\ summary \in [of : Revisions \cup {None}, mongodbWritten : BOOLEAN]
    /\ stored \subseteq Deliveries

\* Beyond the check of its identity a process works on a revision of the plan, so that the
\* directory never holds a file made for an identity that does not hold: the mixtures that
\* the gates are asked about (Verdicts) are all that there can be.
OnlyRevisionsAreWritten ==
    /\ step \notin {"idle", "check_identity", "refused"} => plan \in Revisions
    /\ disk \in [TheKinds -> [TheParts -> Revisions \cup {None}]]

\* The n-th file that a process writes, counted from 0.
KindAt(n) == Kinds[1 + (n \div Package)]
PartAt(n) == Parts[1 + (n % Package)]

\* What a process has written is still there: the files so far, then all of them and the
\* summary, which nobody has marked yet.
WritingInv ==
    /\ step \in {"idle"} \cup Generating => written = 0
    /\ step = "generated" => \A n \in 0 .. Files : n < written => disk[KindAt(n)][PartAt(n)] = plan
    /\ step \in Persisting =>
          /\ \A kind \in TheKinds : \A part \in TheParts : disk[kind][part] = plan
          /\ summary = [of |-> plan, mongodbWritten |-> FALSE]

\* What a process has persisted is stored with the files of the revision it works on.
Own(kind) == [kind |-> kind, files |-> WhollyOf(plan)]
PersistingInv ==
    /\ step = "reportPersisted" => Own("report") \in stored
    /\ step = "persisted" => \A kind \in TheKinds : Own(kind) \in stored

IInv ==
    /\ TypeInv /\ OnlyRevisionsAreWritten /\ WritingInv /\ PersistingInv
    /\ StoredIsWhole /\ SummaryTellsTheTruth

-----------------------------------------------------------------------------
(* The lemmas                                                              *)

LEMMA KindsAndParts ==
    /\ TheKinds = {"report", "data"}
    /\ TheParts = {"catalog", "candidate", "result", "requests", "manifest"}
    /\ Package = 5 /\ Files = 10
  <1>1. DOMAIN Kinds = {1, 2} /\ DOMAIN Parts = {1, 2, 3, 4, 5}
    BY DEF Kinds, Parts
  <1>2. TheKinds = {"report", "data"}
    BY <1>1 DEF TheKinds, Kinds
  <1>3. TheParts = {"catalog", "candidate", "result", "requests", "manifest"}
    BY <1>1 DEF TheParts, Parts
  <1>4. Package = 5 /\ Files = 10
    BY DEF Files, Package, Parts
  <1> QED
    BY <1>2, <1>3, <1>4

\* Of the identities that generate() is asked for, only the revisions' hold.
LEMMA HoldingAreRevisions ==
    ASSUME NEW name \in TheNames, Frozen(Asked[name]), Asked[name].file # Asked[name].input
    PROVE  name \in Revisions
  <1>1. name # "foreign"
    <2>1. Asked["foreign"].extractor # Extractor
      BY DEF Asked, Identity, Extractor
    <2> QED
      BY <2>1 DEF Frozen
  <1>2. name # "partial"
    <2>1. Asked["partial"].sections # Sections
      BY DEF Asked, Identity, Sections
    <2> QED
      BY <2>1 DEF Frozen
  <1>3. name # "same"
    <2>1. Asked["same"].file = Asked["same"].input
      BY DEF Asked, Identity
    <2> QED
      BY <2>1
  <1> QED
    BY <1>1, <1>2, <1>3 DEF TheNames, Revisions

\* Every file of the two packages is written once its turn has come.
LEMMA EveryFileHasItsTurn ==
    ASSUME NEW kind \in TheKinds, NEW part \in TheParts
    PROVE  \E n \in 0 .. Files : n < Files /\ KindAt(n) = kind /\ PartAt(n) = part
  <1> DEFINE Turn(n, k, p) == n \in 0 .. 9 /\ KindAt(n) = k /\ PartAt(n) = p
  <1>1. /\ Turn(0, "report", "catalog") /\ Turn(1, "report", "candidate")
        /\ Turn(2, "report", "result") /\ Turn(3, "report", "requests")
        /\ Turn(4, "report", "manifest")
    BY KindsAndParts DEF KindAt, PartAt, Kinds, Parts
  <1>2. /\ Turn(5, "data", "catalog") /\ Turn(6, "data", "candidate")
        /\ Turn(7, "data", "result") /\ Turn(8, "data", "requests")
        /\ Turn(9, "data", "manifest")
    BY KindsAndParts DEF KindAt, PartAt, Kinds, Parts
  <1>3. \E n : Turn(n, kind, part)
    <2> HIDE DEF Turn
    <2> QED
      BY <1>1, <1>2, KindsAndParts
  <1> QED
    BY <1>3, KindsAndParts

\* The turns name kinds and parts.
LEMMA TurnsAreFiles ==
    ASSUME NEW n \in 0 .. Files, n < Files
    PROVE  KindAt(n) \in TheKinds /\ PartAt(n) \in TheParts
  BY KindsAndParts DEF KindAt, PartAt, Kinds, Parts

\* Packages are the same when each of their files has the same content.
LEMMA SameContents ==
    ASSUME NEW kind \in TheKinds,
           NEW files \in [Contents -> Revisions], NEW others \in [Contents -> Revisions]
    PROVE  SamePackage(kind, files, others)
             <=> \A part \in Contents :
                    FileOf(kind, part, files[part]) = FileOf(kind, part, others[part])
  <1>1. ASSUME NEW part \in Contents
        PROVE  <<kind, part, files[part], others[part]>> \in Alike
                 <=> FileOf(kind, part, files[part]) = FileOf(kind, part, others[part])
    BY DEF Alike
  <1> QED
    BY <1>1 DEF SamePackage

\* The manifest decides: the files of a package that loads are as the revision wrote them
\* that wrote the manifest, and that revision is of the approved file.
LEMMA LoadedIsWhole ==
    ASSUME NEW kind \in TheKinds, NEW package \in [TheParts -> Revisions \cup {None}],
           Loads(kind, package)
    PROVE  /\ ContentsOf(package) \in [Contents -> Revisions]
           /\ package["manifest"] \in Revisions
           /\ SamePackage(kind, ContentsOf(package), WhollyOf(package["manifest"]))
           /\ FileOf(kind, "result", package["manifest"]).source.file = Approved
  <1>1. \A part \in TheParts : package[part] \in Revisions
    BY DEF Loads
  <1>2. /\ ContentsOf(package) \in [Contents -> Revisions]
        /\ package["manifest"] \in Revisions
        /\ WhollyOf(package["manifest"]) \in [Contents -> Revisions]
    BY <1>1, KindsAndParts DEF ContentsOf, WhollyOf, Contents
  <1>3. SamePackage(kind, ContentsOf(package), WhollyOf(package["manifest"]))
    <2>1. SamePackage(kind, ContentsOf(package), WhollyOf(package.manifest))
      BY DEF Loads
    <2> QED
      BY <2>1
  <1>4. "result" \in Contents
    BY KindsAndParts DEF Contents
  <1>5. FileOf(kind, "result", ContentsOf(package)["result"])
          = FileOf(kind, "result", WhollyOf(package["manifest"])["result"])
    BY <1>2, <1>3, <1>4, SameContents
  <1>6. /\ ContentsOf(package)["result"] = package["result"]
        /\ WhollyOf(package["manifest"])["result"] = package["manifest"]
    BY <1>4 DEF ContentsOf, WhollyOf
  <1>7. FileOf(kind, "result", package["result"]).source.file = Approved
    BY DEF Loads, OfTheApproved
  <1> QED
    BY <1>2, <1>3, <1>5, <1>6, <1>7

-----------------------------------------------------------------------------
(* The invariant is inductive                                              *)

LEMMA InitEstablishes == PlanInit => IInv
  <1> SUFFICES ASSUME PlanInit PROVE IInv
    OBVIOUS
  <1>1. TypeInv
    BY KindsAndParts DEF PlanInit, TypeInv, NoSummary, Revisions, None
  <1>2. OnlyRevisionsAreWritten
    BY DEF PlanInit, OnlyRevisionsAreWritten
  <1>3. WritingInv
    BY DEF PlanInit, WritingInv, Generating, Persisting
  <1>4. PersistingInv /\ StoredIsWhole /\ SummaryTellsTheTruth
    BY DEF PlanInit, PersistingInv, Own, StoredIsWhole, SummaryTellsTheTruth, NoSummary
  <1> QED
    BY <1>1, <1>2, <1>3, <1>4 DEF IInv

\* Generate and the nodes of the graph touch neither the directory nor the database.
LEMMA GeneratingKeeps ==
    ASSUME IInv,
           Generate \/ CheckIdentity \/ GenerateReport \/ GenerateData \/ GateDelivery
    PROVE  IInv'
  <1> USE DEF IInv
  <1>1. /\ step \in {"idle"} \cup Generating
        /\ step' \in {"refused", "generated"} \cup Generating
        /\ step' # "check_identity" => plan' = plan /\ step # "idle"
        /\ plan' \in TheNames /\ runs' \in Nat
    <2>1. CASE Generate
      BY <2>1 DEF Generate, TypeInv, Generating, TheNames, Asked
    <2>2. CASE CheckIdentity
      BY <2>2 DEF CheckIdentity, Goto, TypeInv, Generating
    <2>3. CASE GenerateReport
      BY <2>3 DEF GenerateReport, GenerateOne, Goto, TypeInv, Generating
    <2>4. CASE GenerateData
      BY <2>4 DEF GenerateData, GenerateOne, Goto, TypeInv, Generating
    <2>5. CASE GateDelivery
      BY <2>5 DEF GateDelivery, Goto, TypeInv, Generating
    <2> QED
      BY <2>1, <2>2, <2>3, <2>4, <2>5
  <1>2. UNCHANGED <<written, disk, summary, stored>>
    BY DEF Generate, CheckIdentity, GenerateReport, GenerateData, GateDelivery, GenerateOne, Goto
  <1>3. TypeInv'
    BY <1>1, <1>2 DEF TypeInv
  <1>4. OnlyRevisionsAreWritten'
    <2>1. step' \notin {"check_identity", "refused"} => plan' \in Revisions
      <3>1. CASE CheckIdentity
        <4>1. ASSUME step' # "refused" PROVE plan \in Revisions
          <5>1. Frozen(Asked[plan]) /\ Asked[plan].file # Asked[plan].input
            BY <3>1, <4>1 DEF CheckIdentity, Goto
          <5>2. plan \in TheNames
            BY <3>1 DEF CheckIdentity, TypeInv
          <5> QED
            BY <5>1, <5>2, HoldingAreRevisions
        <4> QED
          BY <4>1, <3>1 DEF CheckIdentity, Goto
      <3>2. CASE ~CheckIdentity
        BY <1>1, <3>2 DEF OnlyRevisionsAreWritten, Generate, GenerateReport, GenerateData, GateDelivery
      <3> QED
        BY <3>1, <3>2
    <2> QED
      BY <2>1, <1>2 DEF OnlyRevisionsAreWritten
  <1>5. WritingInv'
    BY <1>1, <1>2 DEF WritingInv, Generating, Persisting
  <1>6. PersistingInv'
    BY <1>1 DEF PersistingInv, Own, Generating
  <1>7. StoredIsWhole' /\ SummaryTellsTheTruth'
    BY <1>2 DEF StoredIsWhole, SummaryTellsTheTruth
  <1> QED
    BY <1>3, <1>4, <1>5, <1>6, <1>7

\* A file is written where its turn has it, and nothing else in the directory changes.
LEMMA WriteFileKeeps ==
    ASSUME IInv, WriteFile
    PROVE  IInv'
  <1> USE DEF IInv
  <1>1. /\ step = "generated" /\ step' = "generated" /\ plan' = plan /\ plan \in Revisions
        /\ written \in 0 .. Files /\ written < Files /\ written' = written + 1
        /\ UNCHANGED <<runs, summary, stored>>
    BY DEF WriteFile, OnlyRevisionsAreWritten, Generating, TypeInv, Files
  <1>2. KindAt(written) \in TheKinds /\ PartAt(written) \in TheParts
    BY <1>1, TurnsAreFiles
  <1>3. disk' = [disk EXCEPT ![KindAt(written)][PartAt(written)] = plan]
    BY DEF WriteFile, KindAt, PartAt
  <1>4. disk' \in [TheKinds -> [TheParts -> Revisions \cup {None}]]
    BY <1>1, <1>2, <1>3 DEF OnlyRevisionsAreWritten
  <1>5. \A kind \in TheKinds, part \in TheParts :
           disk'[kind][part] = IF kind = KindAt(written) /\ part = PartAt(written)
                               THEN plan ELSE disk[kind][part]
    BY <1>2, <1>3 DEF OnlyRevisionsAreWritten
  <1>6. TypeInv'
    BY <1>1, KindsAndParts DEF TypeInv, Generating
  <1>7. OnlyRevisionsAreWritten'
    BY <1>1, <1>4 DEF OnlyRevisionsAreWritten
  <1>8. WritingInv'
    <2>1. ASSUME NEW n \in 0 .. Files, n < written'
          PROVE  disk'[KindAt(n)][PartAt(n)] = plan
      <3>1. KindAt(n) \in TheKinds /\ PartAt(n) \in TheParts
        BY <1>1, <2>1, TurnsAreFiles, KindsAndParts
      <3>2. n = written \/ n < written
        BY <1>1, <2>1, KindsAndParts
      <3>3. n < written => disk[KindAt(n)][PartAt(n)] = plan
        BY <1>1 DEF WritingInv
      <3> QED
        BY <1>5, <3>1, <3>2, <3>3
    <2> QED
      BY <1>1, <2>1 DEF WritingInv, Generating, Persisting
  <1>9. PersistingInv' /\ StoredIsWhole' /\ SummaryTellsTheTruth'
    BY <1>1 DEF PersistingInv, Own, StoredIsWhole, SummaryTellsTheTruth
  <1> QED
    BY <1>6, <1>7, <1>8, <1>9

\* When all turns are over the whole directory is the process's own.
LEMMA WriteSummaryKeeps ==
    ASSUME IInv, WriteSummary
    PROVE  IInv'
  <1> USE DEF IInv
  <1>1. /\ step = "generated" /\ step' = "written" /\ plan' = plan /\ plan \in Revisions
        /\ written = Files
        /\ summary' = [of |-> plan, mongodbWritten |-> FALSE]
        /\ UNCHANGED <<runs, written, disk, stored>>
    BY DEF WriteSummary, OnlyRevisionsAreWritten, Generating, Files
  <1>2. TypeInv'
    BY <1>1 DEF TypeInv, Generating, Persisting, TheNames, Revisions
  <1>3. OnlyRevisionsAreWritten'
    BY <1>1 DEF OnlyRevisionsAreWritten
  <1>4. WritingInv'
    <2>1. ASSUME NEW kind \in TheKinds, NEW part \in TheParts
          PROVE  disk[kind][part] = plan
      <3>1. PICK n \in 0 .. Files : n < Files /\ KindAt(n) = kind /\ PartAt(n) = part
        BY EveryFileHasItsTurn
      <3>2. disk[KindAt(n)][PartAt(n)] = plan
        BY <1>1, <3>1 DEF WritingInv
      <3> QED
        BY <3>1, <3>2
    <2> QED
      BY <1>1, <2>1 DEF WritingInv, Generating, Persisting
  <1>5. PersistingInv' /\ StoredIsWhole' /\ SummaryTellsTheTruth'
    BY <1>1 DEF PersistingInv, Own, StoredIsWhole, SummaryTellsTheTruth
  <1> QED
    BY <1>2, <1>3, <1>4, <1>5

\* What is added to the database is of one generation, and does not contradict what is
\* there under its version.
LEMMA StoringKeeps ==
    ASSUME IInv, NEW kind \in TheKinds, Persistable(kind), Store(kind), summary' = summary
    PROVE  /\ stored' \subseteq Deliveries
           /\ StoredIsWhole' /\ SummaryTellsTheTruth'
  <1> DEFINE files == ContentsOf(disk[kind])
             new   == [kind |-> kind, files |-> files]
  <1>1. Loads(kind, disk[kind]) /\ ~Conflicts(kind, files) /\ stored' = stored \cup {new}
    BY DEF Persistable, Store
  <1>2. PICK revision \in Revisions :
           /\ files \in [Contents -> Revisions]
           /\ SamePackage(kind, files, WhollyOf(revision))
           /\ FileOf(kind, "result", revision).source.file = Approved
    BY <1>1, LoadedIsWhole DEF IInv, OnlyRevisionsAreWritten
  <1> HIDE DEF files
  <1>3. new \in Deliveries /\ stored \subseteq Deliveries
    BY <1>2 DEF IInv, TypeInv, Deliveries
  <1>4. \A entry \in stored' : \E r \in Revisions :
           /\ SamePackage(entry.kind, entry.files, WhollyOf(r))
           /\ FileOf(entry.kind, "result", r).source.file = Approved
    BY <1>1, <1>2 DEF IInv, StoredIsWhole
  <1>5. ASSUME NEW entry \in stored, entry.kind = kind,
               SameVersion(kind, entry.files, files)
        PROVE  SamePackage(kind, entry.files, files) /\ SamePackage(kind, files, entry.files)
    <2>1. SamePackage(kind, entry.files, files)
      BY <1>1, <1>5 DEF Conflicts
    <2>2. entry.files \in [Contents -> Revisions]
      BY <1>3 DEF Deliveries
    <2> QED
      BY <1>2, <2>1, <2>2, SameContents
  <1>6. SamePackage(kind, files, files)
    BY <1>2, SameContents
  <1>7. ASSUME NEW entry \in stored', NEW other \in stored', entry.kind = other.kind,
               SameVersion(entry.kind, entry.files, other.files)
        PROVE  SamePackage(entry.kind, entry.files, other.files)
    <2>1. CASE entry \in stored /\ other \in stored
      BY <1>7, <2>1 DEF IInv, StoredIsWhole
    <2>2. CASE entry = new /\ other = new
      BY <1>6, <2>2
    <2>3. CASE entry \in stored /\ other = new
      BY <1>5, <1>7, <2>3
    <2>4. CASE entry = new /\ other \in stored
      <3>1. SameVersion(kind, other.files, files)
        BY <1>7, <2>4 DEF SameVersion
      <3> QED
        BY <1>5, <1>7, <2>4, <3>1
    <2> QED
      BY <1>1, <2>1, <2>2, <2>3, <2>4
  <1>8. StoredIsWhole'
    BY <1>4, <1>7 DEF StoredIsWhole
  <1>9. SummaryTellsTheTruth'
    BY <1>1 DEF IInv, SummaryTellsTheTruth
  <1> QED
    BY <1>1, <1>3, <1>8, <1>9

\* Report and data are stored one after the other, each only if its package can be.
LEMMA PersistingKeeps ==
    ASSUME IInv, PersistReport \/ PersistData
    PROVE  IInv'
  <1> USE DEF IInv
  <1>1. /\ step \in Persisting
        /\ UNCHANGED <<runs, plan, made, written, disk, summary>>
    BY DEF PersistReport, PersistData, Persisting
  <1>2. PICK kind \in TheKinds :
           /\ PersistPackage(kind)
           /\ kind = "report" => step = "written"
           /\ kind = "data" => step = "reportPersisted"
    <2>1. CASE PersistReport
      BY <2>1, KindsAndParts DEF PersistReport
    <2>2. CASE PersistData
      BY <2>2, KindsAndParts DEF PersistData
    <2> QED
      BY <2>1, <2>2
  <1>3. CASE Persistable(kind)
    <2>1. /\ Store(kind)
          /\ step' = IF kind = "report" THEN "reportPersisted" ELSE "persisted"
      BY <1>2, <1>3 DEF PersistPackage
    <2>2. /\ stored' \subseteq Deliveries
          /\ StoredIsWhole' /\ SummaryTellsTheTruth'
      BY <1>1, <1>3, <2>1, StoringKeeps
    <2>3. stored \subseteq stored' /\ Own(kind) \in stored'
      <3>1. \A part \in Contents : disk[kind][part] = plan
        BY <1>1, KindsAndParts DEF WritingInv, Contents
      <3>2. ContentsOf(disk[kind]) = WhollyOf(plan)
        BY <3>1 DEF ContentsOf, WhollyOf
      <3> QED
        BY <2>1, <3>2 DEF Store, Own
    <2>4. TypeInv'
      BY <1>1, <2>1, <2>2 DEF TypeInv, Persisting
    <2>5. OnlyRevisionsAreWritten'
      BY <1>1, <2>1 DEF OnlyRevisionsAreWritten, Persisting
    <2>6. WritingInv'
      BY <1>1, <2>1 DEF WritingInv, Persisting, Generating
    <2>7. PersistingInv'
      BY <1>1, <1>2, <2>1, <2>3, KindsAndParts DEF PersistingInv, Own
    <2> QED
      BY <2>2, <2>4, <2>5, <2>6, <2>7
  <1>4. CASE ~Persistable(kind)
    <2>1. step' = "refused" /\ UNCHANGED stored
      BY <1>2, <1>4 DEF PersistPackage
    <2>2. TypeInv'
      BY <1>1, <2>1 DEF TypeInv, Persisting
    <2>3. OnlyRevisionsAreWritten'
      BY <1>1, <2>1 DEF OnlyRevisionsAreWritten
    <2>4. WritingInv' /\ PersistingInv'
      BY <2>1 DEF WritingInv, PersistingInv, Own, Persisting, Generating
    <2>5. StoredIsWhole' /\ SummaryTellsTheTruth'
      BY <1>1, <2>1 DEF StoredIsWhole, SummaryTellsTheTruth
    <2> QED
      BY <2>2, <2>3, <2>4, <2>5
  <1> QED
    BY <1>3, <1>4

\* The summary that is marked is the process's own, and both its deliveries are stored.
LEMMA MarkKeeps ==
    ASSUME IInv, Mark
    PROVE  IInv'
  <1> USE DEF IInv
  <1>1. /\ step = "persisted" /\ step' = "done" /\ plan \in Revisions
        /\ summary' = [summary EXCEPT !.mongodbWritten = TRUE]
        /\ UNCHANGED <<runs, plan, written, disk, stored>>
    BY DEF Mark, OnlyRevisionsAreWritten
  <1>2. summary' = [of |-> plan, mongodbWritten |-> TRUE]
    <2>1. summary = [of |-> plan, mongodbWritten |-> FALSE]
      BY <1>1 DEF WritingInv, Persisting
    <2> QED
      BY <1>1, <2>1, Zenon
  <1>3. TypeInv'
    BY <1>1, <1>2 DEF TypeInv
  <1>4. OnlyRevisionsAreWritten'
    BY <1>1 DEF OnlyRevisionsAreWritten
  <1>5. WritingInv' /\ PersistingInv'
    BY <1>1 DEF WritingInv, PersistingInv, Own, Generating, Persisting
  <1>6. StoredIsWhole'
    BY <1>1 DEF StoredIsWhole
  <1>7. SummaryTellsTheTruth'
    BY <1>1, <1>2 DEF SummaryTellsTheTruth, PersistingInv, Own
  <1> QED
    BY <1>3, <1>4, <1>5, <1>6, <1>7

\* A package that lies in the directory is persisted by itself.
LEMMA PersistDirectoryKeeps ==
    ASSUME IInv, PersistDirectory
    PROVE  IInv'
  <1> USE DEF IInv
  <1>1. /\ step = "idle"
        /\ UNCHANGED <<runs, step, plan, made, written, disk, summary>>
    BY DEF PersistDirectory
  <1>2. PICK kind \in TheKinds : Persistable(kind) /\ Store(kind)
    BY DEF PersistDirectory
  <1>3. /\ stored' \subseteq Deliveries
        /\ StoredIsWhole' /\ SummaryTellsTheTruth'
    BY <1>1, <1>2, StoringKeeps
  <1>4. TypeInv'
    BY <1>1, <1>3 DEF TypeInv
  <1>5. OnlyRevisionsAreWritten' /\ WritingInv' /\ PersistingInv'
    BY <1>1 DEF OnlyRevisionsAreWritten, WritingInv, PersistingInv, Own, Persisting
  <1> QED
    BY <1>3, <1>4, <1>5

\* A process that ends anywhere leaves directory, summary and database as they are.
LEMMA EndKeeps ==
    ASSUME IInv, End
    PROVE  IInv'
  <1> USE DEF IInv
  <1>1. TypeInv'
    BY KindsAndParts DEF End, TypeInv
  <1>2. OnlyRevisionsAreWritten'
    BY DEF End, OnlyRevisionsAreWritten
  <1>3. WritingInv' /\ PersistingInv'
    BY DEF End, WritingInv, PersistingInv, Own, Generating, Persisting
  <1>4. StoredIsWhole' /\ SummaryTellsTheTruth'
    BY DEF End, StoredIsWhole, SummaryTellsTheTruth
  <1> QED
    BY <1>1, <1>2, <1>3, <1>4

LEMMA StutteringKeeps ==
    ASSUME IInv, UNCHANGED planVars
    PROVE  IInv'
  <1> USE DEF IInv, planVars
  <1>1. TypeInv' /\ OnlyRevisionsAreWritten'
    BY DEF TypeInv, OnlyRevisionsAreWritten
  <1>2. WritingInv' /\ PersistingInv'
    BY DEF WritingInv, PersistingInv, Own
  <1>3. StoredIsWhole' /\ SummaryTellsTheTruth'
    BY DEF StoredIsWhole, SummaryTellsTheTruth
  <1> QED
    BY <1>1, <1>2, <1>3

-----------------------------------------------------------------------------
(* The theorems                                                            *)

\* The inductive invariant holds in every reachable state.
THEOREM Invariance == PlanSpec => []IInv
  <1>1. IInv /\ [PlanNext]_planVars => IInv'
    BY GeneratingKeeps, WriteFileKeeps, WriteSummaryKeeps, PersistingKeeps, MarkKeeps,
       PersistDirectoryKeeps, EndKeeps, StutteringKeeps
       DEF PlanNext
  <1> QED
    BY InitEstablishes, <1>1, PTL DEF PlanSpec

\* The directory only ever holds files of revisions of the plan whose identity was checked
\* (_check_identity before write_optimization_plan_packages), wherever processes break off.
THEOREM RevisionsAreWritten == PlanSpec => []OnlyRevisionsAreWritten
  BY Invariance, PTL DEF IInv

\* What persist_v31_artifact_dir has stored has the four files of one generation of the
\* approved plan, and nothing else is stored under its rule version, whatever mixture of
\* files the directory held and whatever the deliveries are.
THEOREM StoredDeliveriesAreWhole == PlanSpec => []StoredIsWhole
  BY Invariance, PTL DEF IInv

\* mark_packages_persisted marks a summary only when both deliveries it speaks of are
\* stored, and no later process makes it untrue.
THEOREM SummariesTellTheTruth == PlanSpec => []SummaryTellsTheTruth
  BY Invariance, PTL DEF IInv

-----------------------------------------------------------------------------
(* What the code builds                                                    *)

\* Deliveries are built by build_delivery.
BuiltByTheCode == \A kind \in TheKinds : \A name \in DOMAIN Asked :
                     Deliver(kind, Asked[name]) = BuildDelivery(kind, Asked[name])

\* A set of numbers up to n that is not empty has a greatest element.
LEMMA GreatestElement ==
    ASSUME NEW n \in Nat, NEW T, T \subseteq 1 .. n, T # {}
    PROVE  Max(T) \in T
  <1> DEFINE Smaller == {ss \in Nat \X Nat : ss[1] < ss[2]}
             above   == {k \in Nat : n - k \in T}
  <1>1. OpToRel(<, Nat) = Smaller
    BY DEF OpToRel
  <1>2. above \subseteq Nat /\ above # {}
    <2>1. PICK i \in T : TRUE
      OBVIOUS
    <2>2. n - i \in above
      BY <2>1
    <2> QED
      BY <2>2
  <1>3. PICK m \in above : \A k \in above : ~(<<k, m>> \in Smaller)
    <2> HIDE DEF above, Smaller
    <2> QED
      BY <1>1, <1>2, NatLessThanWellFounded, WFMin
  <1>4. PICK i \in T : m = n - i
    OBVIOUS
  <1>5. \A j \in T : i >= j
    <2> TAKE j \in T
    <2>1. j \in 1 .. n /\ i \in 1 .. n
      OBVIOUS
    <2>2. n - j \in Nat /\ n - (n - j) = j
      BY <2>1
    <2>3. n - j \in above
      BY <2>2
    <2>4. ~(n - j < n - i)
      BY <1>2, <1>3, <1>4, <2>3
    <2> QED
      BY <2>1, <2>4
  <1> QED
    BY <1>5 DEF Max

\* The catalogue's fact of a code has that code.
LEMMA FactsKeepTheirCodes ==
    ASSUME NEW catalog, NEW n \in Nat, DOMAIN catalog.facts = 1 .. n, Len(catalog.facts) = n,
           \A i \in 1 .. n : "code" \in DOMAIN catalog.facts[i],
           NEW code \in DOMAIN FactMap(catalog)
    PROVE  FactMap(catalog)[code].code = code /\ "code" \in DOMAIN FactMap(catalog)[code]
  <1> DEFINE facts == catalog.facts
             places == {i \in 1 .. Len(facts) : facts[i].code = code}
             last == LastPlace(facts, code)
  <1>1. FactMap(catalog) = [c \in ToSet(Codes(facts)) |-> Overlay([kind |-> "source"], facts[LastPlace(facts, c)])]
    BY DEF FactMap
  <1>2. code \in ToSet(Codes(facts)) /\ FactMap(catalog)[code] = Overlay([kind |-> "source"], facts[last])
    <2> HIDE DEF facts
    <2> QED
      BY <1>1
  <1>3. PICK i \in DOMAIN facts : facts[i].code = code
    BY <1>2 DEF ToSet, Codes
  <1>4. places # {}
    BY <1>3
  <1>5. last = Max(places)
    BY <1>4 DEF LastPlace, SelectLastInSeq
  <1>6. last \in places
    BY <1>4, <1>5, GreatestElement
  <1>7. facts[last].code = code /\ "code" \in DOMAIN facts[last]
    BY <1>6
  <1>8. /\ Overlay([kind |-> "source"], facts[last]).code = facts[last].code
        /\ "code" \in DOMAIN Overlay([kind |-> "source"], facts[last])
    <2> HIDE DEF facts, last
    <2> QED
      BY <1>7 DEF Overlay
  <1> QED
    BY <1>2, <1>7, <1>8

\* Every declaration is of the fact of its place among the required ones.
LEMMA DeclarationsHaveTheirCodes ==
    ASSUME NEW catalog, NEW n \in Nat, DOMAIN catalog.facts = 1 .. n, Len(catalog.facts) = n,
           \A i \in 1 .. n : "code" \in DOMAIN catalog.facts[i],
           NEW candidate, ToSet(candidate.required) \subseteq DOMAIN FactMap(catalog),
           NEW kind, NEW declarations, declarations = Declarations(catalog, candidate, kind)
    PROVE  /\ DOMAIN declarations = DOMAIN candidate.required
           /\ \A i \in DOMAIN candidate.required :
                 declarations[i].fact.code = candidate.required[i]
  <1>1. declarations = [i \in DOMAIN candidate.required |->
            LET fact == [FactMap(catalog)[candidate.required[i]] EXCEPT !.kind = KindOf(candidate.required[i])]
            IN  [fact |-> fact, query |-> BuildQuery(fact, kind), uncertain |-> {}]]
    BY DEF Declarations
  <1>2. ASSUME NEW i \in DOMAIN candidate.required
        PROVE  declarations[i].fact.code = candidate.required[i]
    <2> DEFINE code == candidate.required[i]
               fact == [FactMap(catalog)[code] EXCEPT !.kind = KindOf(code)]
    <2>1. code \in DOMAIN FactMap(catalog)
      BY DEF ToSet
    <2>2. declarations[i] = [fact |-> fact, query |-> BuildQuery(fact, kind), uncertain |-> {}]
      BY <1>1
    <2>3. FactMap(catalog)[code].code = code /\ "code" \in DOMAIN FactMap(catalog)[code]
      BY <2>1, FactsKeepTheirCodes
    <2>4. fact.code = code
      <3> HIDE DEF code
      <3> QED
        BY <2>3
    <2> QED
      <3> HIDE DEF fact, code
      <3>1. declarations[i].fact.code = code
        BY <2>2, <2>4
      <3> QED
        BY <3>1 DEF code
  <1> QED
    BY <1>1, <1>2

\* The exporter makes the requests of the declarations, in their order.
LEMMA RequestsHaveTheirCodes ==
    ASSUME NEW result, NEW candidate, NEW i \in DOMAIN result.declarations
    PROVE  Export(result, candidate)[i].fact.code = result.declarations[i].fact.code
  <1> DEFINE code == result.declarations[i].fact.code
             request == RequestFor(result, i, UsagesOf(candidate, code), ExamplesOf(result, code))
  <1>1. Export(result, candidate)[i] = Overwritten(request)
    BY DEF Export
  <1>2. request.fact = result.declarations[i].fact
    BY DEF RequestFor
  <1>3. Overwritten(request).fact = request.fact
    BY DEF RequestFor, Overwritten
  <1> QED
    BY <1>1, <1>2, <1>3

\* The gates that build_delivery calls make the requests those of the tree: the structure's
\* validation compares the required facts with the tree, and each of them has a declaration.
LEMMA DeliveredIsComplete ==
    ASSUME NEW catalog, NEW n \in Nat, DOMAIN catalog.facts = 1 .. n, Len(catalog.facts) = n,
           \A i \in 1 .. n : "code" \in DOMAIN catalog.facts[i],
           NEW candidate, NEW kind, NEW cases,
           WithResult(kind, catalog, candidate, cases) # <<>>
    PROVE  Complete(WithResult(kind, catalog, candidate, cases)[1])
  <1> DEFINE result   == BuildResult(kind, catalog, candidate, cases)
             delivery == [catalog |-> catalog, candidate |-> candidate, result |-> result,
                          requests |-> Export(result, candidate)]
  <1>1. MayExport(result, candidate, catalog) /\ WithResult(kind, catalog, candidate, cases) = <<delivery>>
    BY DEF WithResult, Delivered
  <1>2. Accepts(candidate, catalog)
    BY <1>1 DEF MayExport, Belongs
  <1>3. /\ ~Repeats(candidate.required)
        /\ ToSet(candidate.required) = ActiveRefs(candidate)
        /\ ActiveRefs(candidate) \subseteq DOMAIN FactMap(catalog)
    BY <1>2 DEF Accepts, ConditionFlaw
  <1>4. result.declarations = Declarations(catalog, candidate, kind)
    BY DEF BuildResult
  <1>5. /\ DOMAIN result.declarations = DOMAIN candidate.required
        /\ \A i \in DOMAIN candidate.required :
              result.declarations[i].fact.code = candidate.required[i]
    <2> HIDE DEF result
    <2> QED
      BY <1>3, <1>4, DeclarationsHaveTheirCodes
  <1>6. DOMAIN Export(result, candidate) = DOMAIN candidate.required
    BY <1>5 DEF Export
  <1>7. \A i \in DOMAIN candidate.required :
           Export(result, candidate)[i].fact.code = candidate.required[i]
    <2> HIDE DEF result
    <2> QED
      BY <1>5, RequestsHaveTheirCodes
  <1>8. /\ DOMAIN Requested(delivery) = DOMAIN candidate.required
        /\ \A i \in DOMAIN candidate.required : Requested(delivery)[i] = candidate.required[i]
    <2> HIDE DEF result
    <2> QED
      BY <1>6, <1>7 DEF Requested
  <1>9. Complete(delivery)
    <2>1. ToSet(Requested(delivery)) = ToSet(candidate.required)
      BY <1>8 DEF ToSet
    <2>2. ~Repeats(Requested(delivery))
      BY <1>3, <1>8 DEF Repeats, IsInjective
    <2> QED
      BY <1>3, <2>1, <2>2 DEF Complete
  <1> QED
    BY <1>1, <1>9

\* The facts of a catalogue that is built of rows.
LEMMA CatalogsAreBuiltOfRows ==
    ASSUME NEW id, NEW file, NEW n \in Nat, NEW rows, DOMAIN rows = 1 .. n, Len(rows) = n
    PROVE  /\ DOMAIN BuildCatalog(id, rows, file).facts = 1 .. n
           /\ Len(BuildCatalog(id, rows, file).facts) = n
           /\ \A i \in 1 .. n : "code" \in DOMAIN BuildCatalog(id, rows, file).facts[i]
  <1> DEFINE facts == [i \in DOMAIN rows |-> Confirmed(rows[i])]
  <1>1. BuildCatalog(id, rows, file).facts = facts
    BY DEF BuildCatalog, Overlay
  <1>2. DOMAIN facts = 1 .. n /\ Len(facts) = n
    OBVIOUS
  <1>3. \A i \in 1 .. n : "code" \in DOMAIN facts[i]
    BY DEF Confirmed
  <1> QED
    BY <1>1, <1>2, <1>3

LEMMA RowsOfTheCatalogs ==
    /\ DOMAIN ReportFacts = 1 .. 33 /\ Len(ReportFacts) = 33
    /\ DOMAIN DataFacts = 1 .. 18 /\ Len(DataFacts) = 18
  BY DEF ReportFacts, DataFacts

\* What build_delivery returns requests every fact of its tree once.
LEMMA BuiltIsComplete ==
    ASSUME NEW kind, NEW identity, BuildDelivery(kind, identity) # <<>>
    PROVE  Complete(BuildDelivery(kind, identity)[1])
  <1>1. CASE kind = "report"
    <2>1. BuildDelivery(kind, identity)
            = WithResult(kind, ReportCatalog(identity.file), ReportCandidate(identity), ReportCases)
      BY <1>1 DEF BuildDelivery
    <2>2. /\ DOMAIN ReportCatalog(identity.file).facts = 1 .. 33
          /\ Len(ReportCatalog(identity.file).facts) = 33
          /\ \A i \in 1 .. 33 : "code" \in DOMAIN ReportCatalog(identity.file).facts[i]
      BY RowsOfTheCatalogs, CatalogsAreBuiltOfRows DEF ReportCatalog
    <2> QED
      BY <2>1, <2>2, DeliveredIsComplete
  <1>2. CASE kind # "report"
    <2>1. BuildDelivery(kind, identity)
            = WithResult(kind, DataCatalog(identity.file), DataCandidate(identity), DataCases)
      BY <1>2 DEF BuildDelivery
    <2>2. /\ DOMAIN DataCatalog(identity.file).facts = 1 .. 18
          /\ Len(DataCatalog(identity.file).facts) = 18
          /\ \A i \in 1 .. 18 : "code" \in DOMAIN DataCatalog(identity.file).facts[i]
      BY RowsOfTheCatalogs, CatalogsAreBuiltOfRows DEF DataCatalog
    <2> QED
      BY <2>1, <2>2, DeliveredIsComplete
  <1> QED
    BY <1>1, <1>2

\* The deliveries that a process has generated are of a revision, and there.
MadeInv == \A kind \in made : plan \in Revisions /\ kind \in TheKinds /\ Built[plan][kind] # <<>>

LEMMA NothingMadeButRevisions == PlanSpec => []MadeInv
  <1>1. PlanInit => MadeInv
    BY DEF PlanInit, MadeInv
  <1>2. ASSUME MadeInv, OnlyRevisionsAreWritten, [PlanNext]_planVars
        PROVE  MadeInv'
    <2> USE DEF MadeInv
    <2>1. CASE Generate
      BY <1>2, <2>1 DEF Generate
    <2>2. ASSUME NEW kind \in TheKinds, NEW next, plan \in Revisions, GenerateOne(kind, next)
          PROVE  MadeInv'
      BY <1>2, <2>2 DEF GenerateOne, Goto
    <2>3. CASE GenerateReport
      BY <1>2, <2>2, <2>3, KindsAndParts DEF GenerateReport, OnlyRevisionsAreWritten
    <2>4. CASE GenerateData
      BY <1>2, <2>2, <2>4, KindsAndParts DEF GenerateData, OnlyRevisionsAreWritten
    <2>5. CASE End
      BY <1>2, <2>5 DEF End
    <2>6. CASE \/ CheckIdentity \/ GateDelivery \/ WriteFile \/ WriteSummary \/ PersistReport
               \/ PersistData \/ Mark \/ PersistDirectory \/ UNCHANGED planVars
      <3>1. UNCHANGED <<plan, made>>
        BY <2>6 DEF CheckIdentity, GateDelivery, Goto, WriteFile, WriteSummary, PersistReport,
                    PersistData, Mark, PersistDirectory, planVars
      <3> QED
        BY <1>2, <3>1
    <2> QED
      BY <1>2, <2>1, <2>3, <2>4, <2>5, <2>6 DEF PlanNext
  <1> QED
    BY <1>1, <1>2, RevisionsAreWritten, PTL DEF PlanSpec

\* build_delivery generates nothing for an identity that is not a revision of the plan, and
\* what it generates requests each fact that the tree depends on once, though the gates
\* never compare the two (build_delivery, validate_rule_structure_candidate_v31).
THEOREM GeneratedIsComplete ==
    ASSUME BuiltByTheCode
    PROVE  PlanSpec => []OnlyTheFrozenPlanIsGenerated
  <1>1. ASSUME MadeInv
        PROVE  OnlyTheFrozenPlanIsGenerated
    <2> SUFFICES ASSUME NEW kind \in made
                 PROVE  plan \in Revisions /\ CompleteOf[plan][kind]
      BY DEF OnlyTheFrozenPlanIsGenerated
    <2>1. plan \in Revisions /\ kind \in TheKinds /\ Built[plan][kind] # <<>>
      BY <1>1 DEF MadeInv
    <2>2. plan \in DOMAIN Asked
      BY <2>1 DEF Revisions, Asked
    <2>3. Built[plan][kind] = BuildDelivery(kind, Asked[plan])
      BY <2>1, <2>2 DEF Built, BuiltByTheCode
    <2>4. Complete(Built[plan][kind][1])
      BY <2>1, <2>3, BuiltIsComplete
    <2> QED
      BY <2>1, <2>4 DEF CompleteOf
  <1> QED
    BY <1>1, NothingMadeButRevisions, PTL
=============================================================================
