--------------------- MODULE DeliveryPersistence_proofs ---------------------
(***************************************************************************)
(* Theorems about DeliveryPersistence, for any number of workers, readers  *)
(* and recoverers, any deliveries and any bounds.                          *)
(***************************************************************************)
EXTENDS DeliveryPersistence, TLAPS, SequenceTheorems

-----------------------------------------------------------------------------
(* The inductive invariant                                                 *)

\* The states of a run by what the run has gone through: it has a delivery, it has
\* seen the rule of that delivery stored, it has seen the batch stored too.
Begun    == Running \cup {"refused", "conflict", "unverified", "countsChanged", "done"}
HasBatch == {"readRule", "readBatch", "recount", "countsChanged", "done"}
HasRule  == HasBatch \cup {"saveBatch", "confirmBatch"}

StoredWhole(d) == /\ rules[d.version] = RuleDocument(d)
                  /\ batches[d.version] = BatchDocument(d)

\* What a run knows of the two collections: nothing is replaced there, so what it
\* has found once stays true while others go on.
RunInvOf(w) ==
    LET d == run[w].d
    IN  /\ run[w].pc \in Begun => d \in Deliveries
        /\ At(w, "count") => Len(run[w].before) < Len(Collections)
        /\ Len(run[w].after) < Len(Collections)
        /\ At(w, "confirmRule") => rules[d.version] # Absent \/ SourceHolders(d) # {}
        /\ run[w].pc \in HasRule => rules[d.version] = RuleDocument(d)
        /\ At(w, "confirmBatch") => batches[d.version] # Absent
        /\ run[w].pc \in HasBatch => batches[d.version] = BatchDocument(d)
        /\ At(w, "readBatch") /\ damage = {} => run[w].ruleIsOurs
        /\ run[w].pc \in {"conflict", "unverified"} /\ damage = {} => HeldByAnother(d)

RunInv == \A w \in Workers : RunInvOf(w)

\* A batch is stored only with the rule of its own delivery, and what has been
\* reported is stored whole.
RegisterInv ==
    /\ \A v \in Versions : batches[v] # Absent =>
          \E d \in Deliveries : d.version = v /\ StoredWhole(d)
    /\ \A d \in reported : StoredWhole(d)

\* Between its two reads a reader holds the rule that is stored, or nothing; what
\* it was promised was reported.
ReaderInvOf(r) ==
    LET v == reader[r].version
    IN  /\ reader[r].pc # "idle" => v \in Versions
        /\ \A d \in reader[r].promised :
              d \in reported /\ d.version = v /\ d.schema = "3.1.0"
        /\ reader[r].pc = "readBatch" /\ damage = {} =>
              /\ reader[r].rule # Absent =>
                    /\ rules[v] # Absent
                    /\ rules[v].schema = "3.1.0" /\ rules[v].content = reader[r].rule
              /\ \A d \in reader[r].promised : reader[r].rule = d.rule

ReaderInv == \A r \in Readers : ReaderInvOf(r)

\* The recovery candidate is never replaced, so what a recoverer has seen under the
\* id stays there.
RecovererInvOf(x) ==
    /\ recoverer[x].pc # "idle" => recoverer[x].candidate \in Candidates
    /\ recoverer[x].pc = "confirm" => recovery # Absent
    /\ recoverer[x].pc \in {"readBack", "done"} => recovery = recoverer[x].candidate

RecovererInv == \A x \in Recoverers : RecovererInvOf(x)

\* The bounds on what the legacy collections hold.
LegacyInv ==
    /\ legacy["rule_versions"] + legacy["fact_binding_handoffs"] <= MaxLegacy
    /\ legacy["rule_structure_candidates_v3"] = IF recovery = Absent THEN 0 ELSE 1

IInv == /\ TypeOK
        /\ RunInv
        /\ RegisterInv
        /\ ReaderInv
        /\ RecovererInv
        /\ LegacyInv
        /\ ReaderSeesOneDelivery
        /\ PromiseIsKept

-----------------------------------------------------------------------------
(* Facts about documents and parsers                                       *)

\* A delivery names a version, and its two documents are documents.
LEMMA DeliveryFacts ==
    ASSUME NEW d \in Deliveries
    PROVE  /\ d.version \in Versions /\ d.schema \in Schemas
           /\ RuleDocument(d) \in Documents /\ RuleDocument(d) # Absent
           /\ BatchDocument(d) \in Documents /\ BatchDocument(d) # Absent
BY DeliveriesAssumption, DocumentsAssumption, Zenon DEF Documents, RuleDocument, BatchDocument

\* The placeholder of a run without a delivery is none.
LEMMA NoDeliveryIsNone == NoDelivery \notin Deliveries
BY DeliveriesAssumption DEF NoDelivery

\* There are three legacy collections.
LEMMA CollectionFacts ==
    /\ Len(Collections) = 3
    /\ \A i \in 1..3 : Collections[i] \in CollectionNames
    /\ CollectionNames = {"rule_versions", "fact_binding_handoffs",
                          "rule_structure_candidates_v3"}
<1>1. Len(Collections) = 3
  BY DEF Collections
<1>2. /\ Collections[1] = "rule_versions"
      /\ Collections[2] = "fact_binding_handoffs"
      /\ Collections[3] = "rule_structure_candidates_v3"
  BY DEF Collections
<1>3. \A i \in 1..3 : i = 1 \/ i = 2 \/ i = 3
  OBVIOUS
<1> QED
  BY <1>1, <1>2, <1>3 DEF CollectionNames

\* What the repositories call the same is the same.
LEMMA SameIsSame ==
    ASSUME NEW schema, NEW store, NEW v, NEW document, NEW expected,
           Finds(schema, store, v, document, expected) = "same"
    PROVE  document = expected
BY DEF Finds, ParseV3, ParseV31

\* And while nothing is altered they know the same when they see it.
LEMMA UndamagedIsSame ==
    ASSUME NEW schema \in Schemas, NEW store, NEW v, NEW document,
           damage = {}, document # Absent, document.schema = schema
    PROVE  Finds(schema, store, v, document, document) = "same"
<1>1. \A part : ~Altered(store, v, part)
  BY DEF Altered
<1>2. schema = "3.0.0" => ParseV3(store, v, document) = "read"
  BY <1>1 DEF ParseV3, Intact
<1>3. schema = "3.1.0" => ParseV31(store, v, document) = "read"
  BY <1>1 DEF ParseV31
<1> QED
  BY <1>2, <1>3 DEF Finds, Schemas

\* While nothing is altered the reader's parser hands out a document for 3.1.0 as it
\* was written, overlooks every other and never complains.
LEMMA UndamagedParse ==
    ASSUME NEW store, NEW v, NEW document, damage = {}
    PROVE  LET parse == ParseV31(store, v, document)
           IN  IF document # Absent /\ document.schema = "3.1.0"
               THEN parse = "read" /\ HandedOut(parse, document) = document.content
               ELSE parse = "none" /\ HandedOut(parse, document) = Absent
<1>1. \A part : ~Altered(store, v, part)
  BY DEF Altered
<1> QED
  BY <1>1 DEF ParseV31, HandedOut

-----------------------------------------------------------------------------
(* What others do leaves standing what a run or a reader knows             *)

\* Nothing stored is replaced, no damage is undone and no report is taken back.
Grow == /\ \A v \in Versions : rules[v] # Absent => rules'[v] = rules[v]
        /\ \A v \in Versions : batches[v] # Absent => batches'[v] = batches[v]
        /\ damage \subseteq damage'
        /\ reported \subseteq reported'

\* What a run knows survives growth.
LEMMA RunKept ==
    ASSUME NEW w \in Workers, RunInvOf(w), Grow, run'[w] = run[w]
    PROVE  RunInvOf(w)'
<1> DEFINE d == run[w].d
<1>1. CASE run[w].pc \in Begun
  <2>1. d \in Deliveries
    BY <1>1 DEF RunInvOf
  <2>2. d.version \in Versions /\ RuleDocument(d) # Absent /\ BatchDocument(d) # Absent
    BY <2>1, DeliveryFacts
  <2>5. SourceHolders(d) \subseteq SourceHolders(d)'
    BY DEF SourceHolders, Grow
  <2>3. HeldByAnother(d) => HeldByAnother(d)'
    BY <2>2, <2>5 DEF HeldByAnother, Grow, RuleDocument, BatchDocument
  <2>4. damage' = {} => damage = {}
    BY DEF Grow
  <2> QED
    BY <2>1, <2>2, <2>3, <2>4, <2>5
    DEF RunInvOf, At, Grow, HasRule, HasBatch, RuleDocument, BatchDocument
<1>2. CASE run[w].pc \notin Begun
  BY <1>2 DEF RunInvOf, At, Begun, Running, HasRule, HasBatch
<1> QED
  BY <1>1, <1>2

\* What a reader knows survives growth.
LEMMA ReaderKept ==
    ASSUME NEW r \in Readers, ReaderInvOf(r), Grow, reader'[r] = reader[r]
    PROVE  ReaderInvOf(r)'
<1>1. damage' = {} => damage = {}
  BY DEF Grow
<1> QED
  BY <1>1 DEF ReaderInvOf, Grow

\* So does what a delivery that is stored whole is.
LEMMA WholeKept ==
    ASSUME NEW d \in Deliveries, StoredWhole(d), Grow
    PROVE  StoredWhole(d)'
BY DeliveryFacts DEF StoredWhole, Grow, RuleDocument, BatchDocument

-----------------------------------------------------------------------------
(* Steps of one process                                                    *)

RunType == [pc : Running \cup Failures \cup {"idle", "done"},
            d  : Deliveries \cup {NoDelivery},
            before : Snapshots, after : Snapshots, ruleIsOurs : BOOLEAN]

ReaderType == [pc : {"idle", "readRule", "readBatch", "denied", "unverified",
                     "unavailable", "consumable", "incomplete"},
               version : Versions \cup {Absent},
               rule : Contents, batch : Contents, promised : SUBSET Deliveries]

RecovererType == [pc : {"idle", "save", "confirm", "readBack", "done",
                        "conflict", "unverified", "unavailable"},
                  candidate : Candidates \cup {Absent}]

\* What the two properties of the readers ask of one reader.
SeesOneDelivery(r) ==
    reader[r].pc = "consumable" /\ damage = {} =>
        \E d \in Deliveries : /\ d.schema = "3.1.0"
                              /\ d.version = reader[r].version
                              /\ <<d.rule, d.batch>> = <<reader[r].rule, reader[r].batch>>

PromiseKeptTo(r) ==
    \A d \in reader[r].promised :
        reader[r].pc \in {"consumable", "incomplete", "unverified"} /\ damage = {} =>
            /\ reader[r].pc = "consumable"
            /\ <<d.rule, d.batch>> = <<reader[r].rule, reader[r].batch>>

\* A step of w that adds to the two delivery collections keeps the invariant, when w
\* knows what it should and every version still holds one delivery.
LEMMA WorkerStepKeeps ==
    ASSUME IInv, NEW w \in Workers, NEW q \in RunType, run' = [run EXCEPT ![w] = q],
           UNCHANGED <<recovery, legacy, damage, reader, recoverer>>,
           rules' \in [Versions -> Documents], batches' \in [Versions -> Documents],
           reported' \subseteq Deliveries,
           Grow, RegisterInv', RunInvOf(w)'
    PROVE  IInv'
<1> USE DEF IInv
<1>1. TypeOK'
  <2>1. run' \in [Workers -> RunType]
    BY DEF TypeOK, RunType
  <2> QED
    BY <2>1 DEF TypeOK, RunType
<1>2. RunInv'
  <2>1. ASSUME NEW v \in Workers, v # w PROVE RunInvOf(v)'
    <3>1. run'[v] = run[v]
      BY <2>1 DEF TypeOK
    <3> QED
      BY <3>1, RunKept DEF RunInv
  <2> QED
    BY <2>1 DEF RunInv
<1>3. ReaderInv'
  BY ReaderKept DEF ReaderInv
<1>4. RecovererInv' /\ LegacyInv'
  BY DEF RecovererInv, RecovererInvOf, LegacyInv
<1>5. ReaderSeesOneDelivery' /\ PromiseIsKept'
  BY DEF ReaderSeesOneDelivery, PromiseIsKept
<1> QED
  BY <1>1, <1>2, <1>3, <1>4, <1>5

\* In particular one that leaves the stores alone, provided that whatever it reports
\* is stored whole.
LEMMA RunStepKeeps ==
    ASSUME IInv, NEW w \in Workers, NEW q \in RunType, run' = [run EXCEPT ![w] = q],
           UNCHANGED <<stores, reader, recoverer>>,
           reported \subseteq reported', reported' \subseteq Deliveries,
           \A d \in reported' \ reported : StoredWhole(d),
           RunInvOf(w)'
    PROVE  IInv'
<1>1. RegisterInv'
  <2>1. \A d : StoredWhole(d) => StoredWhole(d)'
    BY DEF stores, StoredWhole, RuleDocument, BatchDocument
  <2> QED
    BY <2>1 DEF IInv, stores, RegisterInv
<1>2. Grow
  BY DEF Grow, stores
<1> QED
  BY <1>1, <1>2, WorkerStepKeeps, Zenon DEF IInv, TypeOK, stores

\* A step of r keeps the invariant, when r knows what it should and sees what the
\* two properties of readers ask.
LEMMA ReaderStepKeeps ==
    ASSUME IInv, NEW r \in Readers, NEW q \in ReaderType, reader' = [reader EXCEPT ![r] = q],
           UNCHANGED <<stores, run, recoverer, reported>>,
           ReaderInvOf(r)', SeesOneDelivery(r)', PromiseKeptTo(r)'
    PROVE  IInv'
<1> USE DEF IInv, stores
<1>1. Grow
  BY DEF Grow
<1>2. TypeOK'
  <2>1. reader' \in [Readers -> ReaderType]
    BY DEF TypeOK, ReaderType
  <2> QED
    BY <2>1 DEF TypeOK, ReaderType
<1>3. RunInv'
  BY <1>1, RunKept DEF RunInv
<1>4. RegisterInv'
  BY Zenon DEF RegisterInv, StoredWhole, RuleDocument, BatchDocument
<1>5. \A s \in Readers : s # r => reader'[s] = reader[s]
  BY DEF TypeOK
<1>6. ReaderInv'
  BY <1>1, <1>5, ReaderKept DEF ReaderInv
<1>7. RecovererInv' /\ LegacyInv'
  BY DEF RecovererInv, RecovererInvOf, LegacyInv
<1>8. \A s \in Readers : SeesOneDelivery(s)' /\ PromiseKeptTo(s)'
  <2>1. ASSUME NEW s \in Readers, s # r PROVE SeesOneDelivery(s)' /\ PromiseKeptTo(s)'
    BY <1>5, <2>1 DEF ReaderSeesOneDelivery, PromiseIsKept, SeesOneDelivery, PromiseKeptTo
  <2> QED
    BY <2>1
<1>9. ReaderSeesOneDelivery' /\ PromiseIsKept'
  BY <1>8 DEF ReaderSeesOneDelivery, PromiseIsKept, SeesOneDelivery, PromiseKeptTo
<1> QED
  BY <1>2, <1>3, <1>4, <1>6, <1>7, <1>9

\* A step of x keeps the invariant, when it replaces no candidate, x knows what it
\* should and the collection grows with the candidate.
LEMMA RecovererStepKeeps ==
    ASSUME IInv, NEW x \in Recoverers, NEW q \in RecovererType,
           recoverer' = [recoverer EXCEPT ![x] = q],
           UNCHANGED <<rules, batches, damage, run, reader, reported>>,
           recovery # Absent => UNCHANGED recovery,
           recovery' \in Candidates \cup {Absent},
           legacy' \in [CollectionNames -> Counts], LegacyInv',
           RecovererInvOf(x)'
    PROVE  IInv'
<1> USE DEF IInv
<1>1. Grow
  BY DEF Grow
<1>2. TypeOK'
  <2>1. recoverer' \in [Recoverers -> RecovererType]
    BY DEF TypeOK, RecovererType
  <2> QED
    BY <2>1 DEF TypeOK, RecovererType
<1>3. RunInv' /\ ReaderInv'
  BY <1>1, RunKept, ReaderKept DEF RunInv, ReaderInv
<1>4. RegisterInv'
  BY Zenon DEF RegisterInv, StoredWhole, RuleDocument, BatchDocument
<1>5. RecovererInv'
  <2>1. ASSUME NEW y \in Recoverers, y # x PROVE RecovererInvOf(y)'
    <3>1. recoverer'[y] = recoverer[y]
      BY <2>1 DEF TypeOK
    <3> QED
      BY <3>1, CandidatesAssumption DEF RecovererInv, RecovererInvOf
  <2> QED
    BY <2>1 DEF RecovererInv
<1>6. ReaderSeesOneDelivery' /\ PromiseIsKept'
  BY DEF ReaderSeesOneDelivery, PromiseIsKept
<1> QED
  BY <1>2, <1>3, <1>4, <1>5, <1>6

-----------------------------------------------------------------------------
(* One lemma per action                                                    *)

\* A step of w that only goes elsewhere leaves a run's record typed.
LEMMA GotoType ==
    ASSUME TypeOK, NEW w \in Workers, NEW pc \in Running \cup Failures \cup {"idle", "done"}
    PROVE  [run[w] EXCEPT !.pc = pc] \in RunType
BY DEF TypeOK, RunType

\* A step that only takes w from one state to another keeps the invariant when w
\* knows what it should in the new state.
LEMMA GotoKeeps ==
    ASSUME IInv, NEW w \in Workers, NEW pc \in Running \cup Failures \cup {"idle", "done"},
           Goto(w, pc), OnlyRun,
           RunInvOf(w)'
    PROVE  IInv'
<1> DEFINE q == [run[w] EXCEPT !.pc = pc]
<1>1. q \in RunType
  BY GotoType DEF IInv
<1>2. run' = [run EXCEPT ![w] = q]
  BY DEF Goto
<1> HIDE DEF q
<1> QED
  BY <1>1, <1>2, RunStepKeeps, Zenon DEF OnlyRun, IInv, TypeOK

\* No counts are a snapshot.
LEMMA EmptySnapshot == <<>> \in Snapshots
<1>1. <<>> \in [1..0 -> Counts] /\ 0 \in 0..Len(Collections)
  BY CollectionFacts
<1> QED
  BY <1>1 DEF Snapshots

\* A count added to a snapshot that lacks one gives a snapshot.
LEMMA SnapshotGrows ==
    ASSUME NEW s \in Snapshots, NEW c \in Counts, Len(s) < Len(Collections)
    PROVE  /\ Append(s, c) \in Snapshots
           /\ Len(Append(s, c)) = Len(s) + 1
           /\ Len(s) \in 0..2
<1>1. PICK n \in 0..Len(Collections) : s \in [1..n -> Counts]
  BY DEF Snapshots
<1>2. s \in Seq(Counts) /\ Len(s) = n
  BY <1>1, CollectionFacts
<1>3. /\ Append(s, c) \in [1..(n + 1) -> Counts]
      /\ Len(Append(s, c)) = n + 1
  <2>1. Append(s, c) \in Seq(Counts) /\ Len(Append(s, c)) = n + 1
    BY <1>2
  <2> QED
    BY <2>1, LenProperties, Zenon
<1>4. n + 1 \in 0..Len(Collections) /\ n \in 0..2
  BY <1>2, CollectionFacts
<1> QED
  BY <1>2, <1>3, <1>4 DEF Snapshots

\* The count of the next collection is a count, and grows the snapshot.
LEMMA NextCount ==
    ASSUME TypeOK, NEW s \in Snapshots, Len(s) < Len(Collections)
    PROVE  LET next == Len(s) + 1
               t    == Append(s, legacy[Collections[next]])
           IN  /\ t \in Snapshots /\ Len(t) = next /\ <<>> \in Snapshots
               /\ next \in 1..3
<1> DEFINE next == Len(s) + 1
<1>1. 0 \in Counts
  BY BoundsAssumption DEF Counts
<1>2. Len(s) \in 0..2
  BY <1>1, SnapshotGrows
<1>3. \A k \in 0..2 : k + 1 \in 1..3
  OBVIOUS
<1>4. next \in 1..3
  BY <1>2, <1>3, Zenon
<1>5. legacy[Collections[next]] \in Counts
  BY <1>4, CollectionFacts DEF TypeOK
<1> QED
  BY <1>4, <1>5, SnapshotGrows, EmptySnapshot

LEMMA BeginKeeps == ASSUME IInv, NEW w \in Workers, Begin(w) PROVE IInv'
<1>1. PICK d \in Deliveries :
         run' = [run EXCEPT ![w] = [NoRun EXCEPT !.d = d,
                    !.pc = IF d.schema = "3.1.0" /\ d.version = Historical
                           THEN "refused" ELSE "count"]]
  BY Zenon DEF Begin
<1> DEFINE q == [NoRun EXCEPT !.d = d,
                    !.pc = IF d.schema = "3.1.0" /\ d.version = Historical
                           THEN "refused" ELSE "count"]
<1>2. <<>> \in Snapshots
  BY EmptySnapshot
<1>3. /\ q.pc \in {"refused", "count"} /\ q.d = d /\ q.before = <<>> /\ q.after = <<>>
      /\ q \in RunType
  BY <1>2, Zenon DEF NoRun, RunType, Running, Failures
<1>4. run'[w] = q
  BY <1>1 DEF IInv, TypeOK
<1>5. RunInvOf(w)'
  BY <1>3, <1>4, CollectionFacts DEF RunInvOf, At, HasRule, HasBatch
<1>6. run' = [run EXCEPT ![w] = q]
  BY <1>1
<1> HIDE DEF q
<1> QED
  BY <1>3, <1>5, <1>6, RunStepKeeps, Zenon DEF Begin, OnlyRun, IInv, TypeOK

LEMMA CountBeforeKeeps == ASSUME IInv, NEW w \in Workers, CountBefore(w) PROVE IInv'
<1> DEFINE next  == Len(run[w].before) + 1
           count == legacy[Collections[next]]
           q     == [run[w] EXCEPT !.before = Append(@, count),
                                   !.pc = IF next = Len(Collections) THEN "saveRule" ELSE "count"]
<1>1. /\ run[w] \in RunType /\ run[w].before \in Snapshots
      /\ Len(run[w].before) < Len(Collections) /\ Len(run[w].after) < Len(Collections)
      /\ run[w].d \in Deliveries
  BY DEF IInv, TypeOK, RunInv, RunInvOf, CountBefore, At, RunType, Begun, Running
<1>2. /\ Append(run[w].before, count) \in Snapshots
      /\ Len(Append(run[w].before, count)) = next
      /\ next \in 1..3
  BY <1>1, NextCount DEF IInv
<1>3. run' = [run EXCEPT ![w] = q]
  BY Zenon DEF CountBefore
<1>4. q \in RunType
  BY <1>1, <1>2, Zenon DEF RunType, Running
<1>5. /\ run'[w].pc = IF next = Len(Collections) THEN "saveRule" ELSE "count"
      /\ run'[w].before = Append(run[w].before, count)
      /\ run'[w].d = run[w].d /\ run'[w].after = run[w].after
  BY <1>1, <1>3 DEF IInv, TypeOK, RunType
<1>6. RunInvOf(w)'
  BY <1>1, <1>2, <1>5, CollectionFacts DEF RunInvOf, At, HasRule, HasBatch
<1> HIDE DEF q
<1> QED
  BY <1>3, <1>4, <1>6, RunStepKeeps, Zenon DEF CountBefore, OnlyRun, IInv, TypeOK

\* What a run in a state of Begun is typed as.
LEMMA RunFacts ==
    ASSUME IInv, NEW w \in Workers, run[w].pc \in Begun
    PROVE  run[w] \in RunType /\ run[w].d \in Deliveries
BY DEF IInv, TypeOK, RunInv, RunInvOf, RunType

\* Going elsewhere changes nothing else of a run.
LEMMA GotoFacts ==
    ASSUME IInv, NEW w \in Workers, NEW pc, Goto(w, pc)
    PROVE  /\ run'[w].pc = pc /\ run'[w].d = run[w].d
           /\ Len(run'[w].after) < Len(Collections)
BY DEF IInv, TypeOK, Goto, RunInv, RunInvOf

LEMMA SaveRuleKeeps == ASSUME IInv, NEW w \in Workers, SaveRule(w) PROVE IInv'
<1>1. run[w].pc = "saveRule"
  BY DEF SaveRule, At
<1>d. PICK d \in Deliveries : run[w].d = d
  BY <1>1, RunFacts DEF Begun, Running
<1>2. /\ d.version \in Versions
      /\ RuleDocument(d) \in Documents /\ RuleDocument(d) # Absent
  BY DeliveryFacts
<1>3. CASE /\ rules[d.version] # Absent \/ SourceHolders(d) # {}
           /\ Goto(w, "confirmRule") /\ OnlyRun
  <2>1. (SourceHolders(d) # {})' <=> SourceHolders(d) # {}
    BY <1>3 DEF SourceHolders, OnlyRun, stores
  <2>2. RunInvOf(w)'
    BY <1>1, <1>d, <1>2, <1>3, <2>1, GotoFacts
    DEF RunInvOf, At, HasRule, HasBatch, Begun, Running, OnlyRun, stores
  <2> QED
    BY <1>3, <2>2, GotoKeeps DEF Running
<1>4. CASE /\ rules[d.version] = Absent
           /\ rules' = [rules EXCEPT ![d.version] = RuleDocument(d)]
           /\ Goto(w, "saveBatch")
  <2> DEFINE q == [run[w] EXCEPT !.pc = "saveBatch"]
  <2>1. /\ rules' = [rules EXCEPT ![d.version] = RuleDocument(d)]
        /\ Goto(w, "saveBatch")
        /\ UNCHANGED <<batches, recovery, legacy, damage, reader, recoverer, reported>>
    BY <1>4 DEF SaveRule
  <2>2. run' = [run EXCEPT ![w] = q] /\ q \in RunType
    BY <2>1, GotoType DEF Goto, Running, IInv
  <2>3. /\ rules' \in [Versions -> Documents]
        /\ rules'[d.version] = RuleDocument(d)
        /\ \A v \in Versions : v # d.version => rules'[v] = rules[v]
    BY <1>2, <2>1 DEF IInv, TypeOK
  <2>4. Grow
    BY <1>4, <2>1, <2>3 DEF Grow
  <2>5. RunInvOf(w)'
    BY <1>1, <1>d, <1>2, <2>1, <2>3, GotoFacts
    DEF RunInvOf, At, HasRule, HasBatch, Begun, Running, RuleDocument
  <2>6. \A e \in Deliveries : StoredWhole(e) => StoredWhole(e)'
    BY <2>4, WholeKept
  <2>7. RegisterInv'
    BY <2>1, <2>6 DEF RegisterInv, IInv, TypeOK
  <2> HIDE DEF q
  <2> QED
    BY <2>1, <2>2, <2>3, <2>4, <2>5, <2>7, WorkerStepKeeps, Zenon DEF IInv, TypeOK
<1> QED
  BY <1>d, <1>3, <1>4 DEF SaveRule, OnlyRun, stores

LEMMA SaveBatchKeeps == ASSUME IInv, NEW w \in Workers, SaveBatch(w) PROVE IInv'
<1>1. run[w].pc = "saveBatch"
  BY DEF SaveBatch, At
<1>d. PICK d \in Deliveries : run[w].d = d
  BY <1>1, RunFacts DEF Begun, Running
<1>2. /\ d.version \in Versions
      /\ BatchDocument(d) \in Documents /\ BatchDocument(d) # Absent
  BY DeliveryFacts
<1>3. rules[d.version] = RuleDocument(d)
  BY <1>1, <1>d DEF IInv, RunInv, RunInvOf, HasRule
<1>4. CASE batches[d.version] # Absent
  <2>1. Goto(w, "confirmBatch") /\ OnlyRun
    BY <1>d, <1>4 DEF SaveBatch, OnlyRun, stores
  <2>2. RunInvOf(w)'
    BY <1>1, <1>d, <1>2, <1>3, <1>4, <2>1, GotoFacts
    DEF RunInvOf, At, HasRule, HasBatch, Begun, Running, OnlyRun, stores, RuleDocument
  <2> QED
    BY <2>1, <2>2, GotoKeeps DEF Running
<1>5. CASE batches[d.version] = Absent
  <2> DEFINE q == [run[w] EXCEPT !.pc = "readRule"]
  <2>1. /\ batches' = [batches EXCEPT ![d.version] = BatchDocument(d)]
        /\ Goto(w, "readRule")
        /\ UNCHANGED <<rules, recovery, legacy, damage, reader, recoverer, reported>>
    BY <1>d, <1>5 DEF SaveBatch
  <2>2. run' = [run EXCEPT ![w] = q] /\ q \in RunType
    BY <2>1, GotoType DEF Goto, Running, IInv
  <2>3. /\ batches' \in [Versions -> Documents]
        /\ batches'[d.version] = BatchDocument(d)
        /\ \A v \in Versions : v # d.version => batches'[v] = batches[v]
    BY <1>2, <2>1 DEF IInv, TypeOK
  <2>4. Grow
    BY <1>5, <2>1, <2>3 DEF Grow
  <2>5. RunInvOf(w)'
    BY <1>1, <1>d, <1>2, <1>3, <2>1, <2>3, GotoFacts
    DEF RunInvOf, At, HasRule, HasBatch, Begun, Running, RuleDocument, BatchDocument
  <2>6. \A e \in Deliveries : StoredWhole(e) => StoredWhole(e)'
    BY <2>4, WholeKept
  <2>7. StoredWhole(d)'
    BY <1>3, <2>1, <2>3 DEF StoredWhole, RuleDocument, BatchDocument
  <2>8. RegisterInv'
    BY <1>2, <2>1, <2>3, <2>6, <2>7 DEF RegisterInv, IInv, TypeOK
  <2> HIDE DEF q
  <2> QED
    BY <2>1, <2>2, <2>3, <2>4, <2>5, <2>8, WorkerStepKeeps, Zenon DEF IInv, TypeOK
<1> QED
  BY <1>4, <1>5

LEMMA ConfirmRuleKeeps == ASSUME IInv, NEW w \in Workers, ConfirmRule(w) PROVE IInv'
<1> DEFINE pc == CASE FindsRule(w) = "same"    -> "saveBatch"
                  [] FindsRule(w) = "invalid" -> "unverified"
                  [] OTHER                    -> "conflict"
<1>1. run[w].pc = "confirmRule" /\ Goto(w, pc) /\ OnlyRun
  BY DEF ConfirmRule, At
<1>d. PICK d \in Deliveries : run[w].d = d
  BY <1>1, RunFacts DEF Begun, Running
<1>2. d.schema \in Schemas
  BY DeliveryFacts
<1>3. rules[d.version] # Absent \/ SourceHolders(d) # {}
  BY <1>1, <1>d DEF IInv, RunInv, RunInvOf, At
<1>4. pc \in {"saveBatch", "unverified", "conflict"}
  OBVIOUS
<1>5. pc = "saveBatch" => rules[d.version] = RuleDocument(d)
  BY <1>d, SameIsSame DEF FindsRule
<1>6. pc # "saveBatch" /\ damage = {} => HeldByAnother(d)
  <2>1. pc # "saveBatch" /\ damage = {} => rules[d.version] # RuleDocument(d)
    BY <1>d, <1>2, DeliveryFacts, UndamagedIsSame DEF FindsRule, RuleDocument
  <2>2. rules[d.version] = Absent => d.version \notin SourceHolders(d)
    BY DEF SourceHolders
  <2> QED
    BY <1>3, <2>1, <2>2 DEF HeldByAnother
<1>8. HeldByAnother(d)' <=> HeldByAnother(d)
  BY <1>1 DEF OnlyRun, stores, HeldByAnother, SourceHolders, RuleDocument, BatchDocument
<1> HIDE DEF pc
<1>7. RunInvOf(w)'
  BY <1>1, <1>d, <1>2, <1>3, <1>4, <1>5, <1>6, <1>8, GotoFacts
  DEF RunInvOf, At, HasRule, HasBatch, Begun, Running, OnlyRun, stores, RuleDocument
<1> QED
  BY <1>1, <1>4, <1>7, GotoKeeps DEF Running, Failures

LEMMA ConfirmBatchKeeps == ASSUME IInv, NEW w \in Workers, ConfirmBatch(w) PROVE IInv'
<1> DEFINE pc == CASE FindsBatch(w) = "same"    -> "readRule"
                  [] FindsBatch(w) = "invalid" -> "unverified"
                  [] OTHER                     -> "conflict"
<1>1. run[w].pc = "confirmBatch" /\ Goto(w, pc) /\ OnlyRun
  BY DEF ConfirmBatch, At
<1>d. PICK d \in Deliveries : run[w].d = d
  BY <1>1, RunFacts DEF Begun, Running
<1>2. d.schema \in Schemas
  BY DeliveryFacts
<1>3. rules[d.version] = RuleDocument(d) /\ batches[d.version] # Absent
  BY <1>1, <1>d DEF IInv, RunInv, RunInvOf, At, HasRule
<1>4. pc \in {"readRule", "unverified", "conflict"}
  OBVIOUS
<1>5. pc = "readRule" => batches[d.version] = BatchDocument(d)
  BY <1>d, SameIsSame DEF FindsBatch
<1>6. pc # "readRule" /\ damage = {} => batches[d.version] # BatchDocument(d)
  BY <1>d, <1>2, <1>3, UndamagedIsSame DEF FindsBatch, BatchDocument
<1> HIDE DEF pc
<1>7. RunInvOf(w)'
  BY <1>1, <1>d, <1>2, <1>3, <1>4, <1>5, <1>6, GotoFacts
  DEF RunInvOf, At, HasRule, HasBatch, Begun, Running, OnlyRun, stores, RuleDocument,
      BatchDocument, HeldByAnother
<1> QED
  BY <1>1, <1>4, <1>7, GotoKeeps DEF Running, Failures

\* A run's record stays typed when it goes elsewhere with a finding about the rule.
LEMMA FindingType ==
    ASSUME IInv, NEW w \in Workers, NEW found \in BOOLEAN,
           NEW pc \in Running \cup Failures,
           run' = [run EXCEPT ![w] = [run[w] EXCEPT !.ruleIsOurs = found, !.pc = pc]]
    PROVE  /\ [run[w] EXCEPT !.ruleIsOurs = found, !.pc = pc] \in RunType
           /\ run'[w].pc = pc /\ run'[w].ruleIsOurs = found
           /\ run'[w].d = run[w].d /\ run'[w].after = run[w].after
<1>1. run \in [Workers -> RunType]
  BY DEF IInv, TypeOK, RunType
<1>2. run'[w] = [run[w] EXCEPT !.ruleIsOurs = found, !.pc = pc]
  BY <1>1
<1>3. run[w] \in RunType
  BY <1>1
<1>4. [run[w] EXCEPT !.ruleIsOurs = found, !.pc = pc] \in RunType
  BY <1>3, Zenon DEF RunType
<1> DEFINE q == [run[w] EXCEPT !.ruleIsOurs = found, !.pc = pc]
<1>5. q.pc = pc /\ q.d = run[w].d /\ q.after = run[w].after
  BY <1>3 DEF RunType
<1>6. q.ruleIsOurs = found
  BY <1>3 DEF RunType
<1>7. run'[w] = q
  BY <1>2
<1> HIDE DEF q
<1> QED
  BY <1>4, <1>5, <1>6, <1>7, Zenon DEF q

LEMMA ReadRuleKeeps == ASSUME IInv, NEW w \in Workers, ReadRule(w) PROVE IInv'
<1> DEFINE same == FindsRule(w) = "same"
           pc == IF \/ FindsRule(w) = "invalid"
                    \/ ~same /\ run[w].d.schema = "3.0.0"
                 THEN "unverified" ELSE "readBatch"
           q == [run[w] EXCEPT !.ruleIsOurs = same, !.pc = pc]
<1>1. run[w].pc = "readRule" /\ run' = [run EXCEPT ![w] = q] /\ OnlyRun
  BY Zenon DEF ReadRule, At
<1>2. PICK d \in Deliveries : run[w].d = d
  BY <1>1, RunFacts DEF Begun, Running
<1>3. /\ rules[d.version] = RuleDocument(d) /\ batches[d.version] = BatchDocument(d)
      /\ Len(run[w].after) < Len(Collections)
  BY <1>1, <1>2 DEF IInv, RunInv, RunInvOf, HasRule, HasBatch
<1>4. d.schema \in Schemas /\ RuleDocument(d) # Absent /\ RuleDocument(d).schema = d.schema
  BY DeliveryFacts, Zenon DEF RuleDocument
<1>5. damage = {} => FindsRule(w) = "same"
  BY <1>2, <1>3, <1>4, UndamagedIsSame DEF FindsRule
<1>6. /\ same \in BOOLEAN /\ pc \in {"unverified", "readBatch"}
      /\ damage = {} => same
      /\ damage = {} => pc = "readBatch"
  BY <1>5
<1> HIDE DEF same, pc
<1>7. /\ q \in RunType
      /\ run'[w].pc = pc /\ run'[w].ruleIsOurs = same
      /\ run'[w].d = d /\ run'[w].after = run[w].after
  BY <1>1, <1>2, <1>6, FindingType, Zenon DEF Running, Failures
<1>8. RunInvOf(w)'
  BY <1>1, <1>3, <1>6, <1>7
  DEF RunInvOf, At, HasRule, HasBatch, OnlyRun, stores, RuleDocument, BatchDocument
<1> HIDE DEF q
<1> QED
  BY <1>1, <1>7, <1>8, RunStepKeeps, Zenon DEF OnlyRun, IInv, TypeOK

LEMMA ReadBatchKeeps == ASSUME IInv, NEW w \in Workers, ReadBatch(w) PROVE IInv'
<1> DEFINE pc == IF run[w].ruleIsOurs /\ FindsBatch(w) = "same" THEN "recount" ELSE "unverified"
           q  == [run[w] EXCEPT !.ruleIsOurs = FALSE, !.pc = pc]
<1>1. run[w].pc = "readBatch" /\ run' = [run EXCEPT ![w] = q] /\ OnlyRun
  BY Zenon DEF ReadBatch, At
<1>2. PICK d \in Deliveries : run[w].d = d
  BY <1>1, RunFacts DEF Begun, Running
<1>3. /\ rules[d.version] = RuleDocument(d) /\ batches[d.version] = BatchDocument(d)
      /\ damage = {} => run[w].ruleIsOurs
      /\ Len(run[w].after) < Len(Collections)
  BY <1>1, <1>2 DEF IInv, RunInv, RunInvOf, HasRule, HasBatch, At
<1>4. d.schema \in Schemas /\ BatchDocument(d) # Absent /\ BatchDocument(d).schema = d.schema
  BY DeliveryFacts, Zenon DEF BatchDocument
<1>5. damage = {} => FindsBatch(w) = "same"
  BY <1>2, <1>3, <1>4, UndamagedIsSame DEF FindsBatch
<1>6. pc \in {"unverified", "recount"} /\ (damage = {} => pc = "recount")
  BY <1>3, <1>5
<1> HIDE DEF pc
<1>7. /\ q \in RunType
      /\ run'[w].pc = pc /\ run'[w].d = d /\ run'[w].after = run[w].after
  BY <1>1, <1>2, <1>6, FindingType, Zenon DEF Running, Failures
<1>8. RunInvOf(w)'
  BY <1>1, <1>3, <1>6, <1>7
  DEF RunInvOf, At, HasRule, HasBatch, OnlyRun, stores, RuleDocument, BatchDocument
<1> HIDE DEF q
<1> QED
  BY <1>1, <1>7, <1>8, RunStepKeeps, Zenon DEF OnlyRun, IInv, TypeOK

LEMMA CountAfterKeeps == ASSUME IInv, NEW w \in Workers, CountAfter(w) PROVE IInv'
<1> DEFINE next  == Len(run[w].after) + 1
           count == legacy[Collections[next]]
           after == Append(run[w].after, count)
           ends  == next = Len(Collections)
           done  == ends /\ after = run[w].before
           q     == [run[w] EXCEPT !.after  = IF ends THEN <<>> ELSE after,
                                   !.before = IF ends THEN <<>> ELSE @,
                                   !.pc     = CASE done -> "done"
                                                [] ends /\ ~done -> "countsChanged"
                                                [] OTHER -> "recount"]
<1>1. /\ run[w].pc = "recount" /\ run' = [run EXCEPT ![w] = q]
      /\ reported' = IF done THEN reported \cup {run[w].d} ELSE reported
      /\ UNCHANGED <<stores, reader, recoverer>>
  BY Zenon DEF CountAfter, At
<1>2. PICK d \in Deliveries : run[w].d = d
  BY <1>1, RunFacts DEF Begun, Running
<1>3. rules[d.version] = RuleDocument(d) /\ batches[d.version] = BatchDocument(d)
  BY <1>1, <1>2 DEF IInv, RunInv, RunInvOf, HasRule, HasBatch
<1>4. /\ run[w] \in RunType /\ run[w].after \in Snapshots
      /\ Len(run[w].after) < Len(Collections)
  BY <1>1, RunFacts DEF IInv, RunInv, RunInvOf, At, Begun, Running, RunType
<1>5. after \in Snapshots /\ <<>> \in Snapshots
      /\ (~ends => Len(after) < Len(Collections))
  <2>1. /\ after \in Snapshots /\ Len(after) = next /\ <<>> \in Snapshots
        /\ next \in 1..3
    BY <1>4, NextCount DEF IInv
  <2> HIDE DEF next, after
  <2> QED
    BY <2>1, CollectionFacts
<1>6. q \in RunType
  BY <1>4, <1>5, Zenon DEF RunType, Running, Failures
<1>7. /\ run'[w].pc \in {"done", "countsChanged", "recount"} /\ run'[w].d = d
      /\ run'[w].after = IF ends THEN <<>> ELSE after
  <2>1. run'[w] = q
    BY <1>1 DEF IInv, TypeOK
  <2> HIDE DEF after, ends, done
  <2>2. /\ q.pc \in {"done", "countsChanged", "recount"} /\ q.d = run[w].d
        /\ q.after = IF ends THEN <<>> ELSE after
    BY <1>4 DEF RunType
  <2> HIDE DEF q
  <2> QED
    BY <1>2, <2>1, <2>2
<1>8. RunInvOf(w)'
  <2>1. Len(run'[w].after) < Len(Collections)
    BY <1>5, <1>7, CollectionFacts
  <2>2. d \in Deliveries /\ run'[w].d = d
    BY <1>2, <1>7
  <2>3. (rules[d.version] = RuleDocument(d) /\ batches[d.version] = BatchDocument(d))'
    BY <1>1, <1>3 DEF stores, RuleDocument, BatchDocument
  <2> HIDE DEF q, after, ends, done
  <2> QED
    BY <1>7, <2>1, <2>2, <2>3 DEF RunInvOf, At, HasRule, HasBatch
<1>9. \A e \in reported' \ reported : e = d
  BY <1>1, <1>2
<1>10. \A e \in reported' \ reported : StoredWhole(e)
  BY <1>3, <1>9 DEF StoredWhole
<1>11. reported \subseteq reported' /\ reported' \subseteq Deliveries
  BY <1>1, <1>2 DEF IInv, TypeOK
<1> HIDE DEF q, done
<1> QED
  BY <1>1, <1>6, <1>8, <1>10, <1>11, RunStepKeeps, Zenon

LEMMA BreakOffKeeps == ASSUME IInv, NEW w \in Workers, BreakOff(w) PROVE IInv'
<1> DEFINE q == [NoRun EXCEPT !.pc = "unavailable"]
<1>1. run' = [run EXCEPT ![w] = q] /\ OnlyRun
  BY DEF BreakOff
<1>2. q \in RunType
  BY EmptySnapshot, Zenon DEF NoRun, RunType, Failures
<1>3. run'[w].pc = "unavailable" /\ run'[w].after = <<>>
  BY <1>1 DEF IInv, TypeOK, NoRun
<1>4. RunInvOf(w)'
  BY <1>3, CollectionFacts DEF RunInvOf, At, Begun, Running, HasRule, HasBatch
<1> HIDE DEF q
<1> QED
  BY <1>1, <1>2, <1>4, RunStepKeeps, Zenon DEF OnlyRun, IInv, TypeOK

\* Every step of persist() keeps the invariant.
LEMMA PersistKeeps == ASSUME IInv, NEW w \in Workers, Persist(w) PROVE IInv'
BY BeginKeeps, CountBeforeKeeps, SaveRuleKeeps, ConfirmRuleKeeps, SaveBatchKeeps,
   ConfirmBatchKeeps, ReadRuleKeeps, ReadBatchKeeps, CountAfterKeeps, BreakOffKeeps
DEF Persist

\* What the repository hands out of a stored document is some content.
LEMMA HandedOutType ==
    ASSUME NEW store, NEW v, NEW document \in Documents,
           ParseV31(store, v, document) # "invalid"
    PROVE  HandedOut(ParseV31(store, v, document), document) \in Contents
<1>1. document # Absent => document.content \in Contents
  BY DEF Documents, Contents, RuleDocument, BatchDocument
<1>2. Absent \in Contents /\ "altered" \in Contents
  BY DEF Contents
<1>3. document = Absent => ParseV31(store, v, document) = "none"
  BY DEF ParseV31
<1> QED
  BY <1>1, <1>2, <1>3 DEF HandedOut

\* A reader's record is typed, also after it has gone elsewhere with some content.
LEMMA ReaderFacts ==
    ASSUME IInv, NEW r \in Readers,
           NEW pc \in {"readRule", "readBatch", "unverified", "unavailable", "consumable",
                       "incomplete"},
           NEW content \in Contents
    PROVE  /\ [reader[r] EXCEPT !.pc = pc] \in ReaderType
           /\ [reader[r] EXCEPT !.pc = pc, !.rule = content] \in ReaderType
           /\ [reader[r] EXCEPT !.batch = content, !.pc = pc] \in ReaderType
<1>1. reader[r] \in ReaderType
  BY DEF IInv, TypeOK, ReaderType
<1> QED
  BY <1>1, Zenon DEF ReaderType

\* What a reader was promised is stored, for the version that it reads.
LEMMA PromisedFacts ==
    ASSUME IInv, NEW r \in Readers, NEW d \in reader[r].promised
    PROVE  /\ d \in Deliveries /\ d \in reported
           /\ d.version = reader[r].version /\ d.schema = "3.1.0"
           /\ rules[d.version] = RuleDocument(d) /\ RuleDocument(d) # Absent
           /\ batches[d.version] = BatchDocument(d) /\ BatchDocument(d) # Absent
<1>1. d \in reported /\ d.version = reader[r].version /\ d.schema = "3.1.0"
  BY Zenon DEF IInv, ReaderInv, ReaderInvOf
<1>2. d \in Deliveries
  BY <1>1 DEF IInv, TypeOK
<1> QED
  BY <1>1, <1>2, DeliveryFacts DEF IInv, RegisterInv, StoredWhole

\* Of what parts the documents consist that a reader was promised.
LEMMA PromisedParts ==
    ASSUME IInv, NEW r \in Readers, NEW d \in reader[r].promised,
           NEW v, v = reader[r].version
    PROVE  /\ rules[v] # Absent /\ rules[v].schema = "3.1.0" /\ rules[v].content = d.rule
           /\ batches[v] # Absent /\ batches[v].schema = "3.1.0" /\ batches[v].content = d.batch
           /\ reader[r].pc = "readBatch" /\ damage = {} => reader[r].rule = d.rule
<1>1. rules[v] = RuleDocument(d) /\ batches[v] = BatchDocument(d) /\ d.schema = "3.1.0"
  BY PromisedFacts
<1>2. RuleDocument(d) # Absent /\ BatchDocument(d) # Absent
  BY PromisedFacts
<1>3. reader[r].pc = "readBatch" /\ damage = {} => reader[r].rule = d.rule
  BY Zenon DEF IInv, ReaderInv, ReaderInvOf
<1> QED
  BY <1>1, <1>2, <1>3 DEF RuleDocument, BatchDocument

LEMMA ReadBeginKeeps == ASSUME IInv, NEW r \in Readers, ReadBegin(r) PROVE IInv'
<1>1. PICK v \in Versions, purpose \in {"historical-audit", "optimization-plan-generation",
                                        "sql-compilation"} :
          reader' = [reader EXCEPT ![r] = [NoRead EXCEPT
                        !.version  = v,
                        !.pc       = IF Allowed(v, purpose) THEN "readRule" ELSE "denied",
                        !.promised = {d \in reported : d.version = v /\ d.schema = "3.1.0"}]]
  BY Zenon DEF ReadBegin
<1> DEFINE promised == {d \in reported : d.version = v /\ d.schema = "3.1.0"}
           q == [NoRead EXCEPT !.version  = v,
                               !.pc       = IF Allowed(v, purpose) THEN "readRule" ELSE "denied",
                               !.promised = promised]
<1>2. reader' = [reader EXCEPT ![r] = q]
  BY <1>1
<1>3. promised \subseteq Deliveries
  BY DEF IInv, TypeOK
<1>4. Absent \in Contents
  BY DEF Contents
<1>5. q \in ReaderType
  BY <1>3, <1>4, Zenon DEF NoRead, ReaderType
<1>6. /\ reader'[r].pc \in {"readRule", "denied"} /\ reader'[r].version = v
      /\ reader'[r].promised = promised
  BY <1>2 DEF IInv, TypeOK, NoRead
<1>7. UNCHANGED <<stores, run, recoverer, reported>>
  BY DEF ReadBegin
<1>8. ReaderInvOf(r)' /\ SeesOneDelivery(r)' /\ PromiseKeptTo(r)'
  BY <1>6, <1>7 DEF ReaderInvOf, SeesOneDelivery, PromiseKeptTo
<1> HIDE DEF q
<1> QED
  BY <1>2, <1>5, <1>7, <1>8, ReaderStepKeeps, Zenon

LEMMA ReadStoredRuleKeeps == ASSUME IInv, NEW r \in Readers, ReadStoredRule(r) PROVE IInv'
<1>1. PICK v \in Versions : reader[r].version = v
  BY Zenon DEF ReadStoredRule, IInv, ReaderInv, ReaderInvOf
<1> DEFINE parse == ParseV31("rules", v, rules[v])
           rule  == IF parse = "invalid" THEN Absent ELSE HandedOut(parse, rules[v])
           q == [reader[r] EXCEPT !.pc = IF parse = "invalid" THEN "unverified" ELSE "readBatch",
                                  !.rule = rule]
<1>2. reader' = [reader EXCEPT ![r] = q] /\ UNCHANGED <<stores, run, recoverer, reported>>
  BY <1>1, Zenon DEF ReadStoredRule
<1>3. rule \in Contents
  BY HandedOutType DEF IInv, TypeOK, Contents
<1>4. q \in ReaderType
  BY <1>3, ReaderFacts, Zenon
<1>5. /\ reader'[r].pc \in {"unverified", "readBatch"} /\ reader'[r].version = v
      /\ reader'[r].rule = rule /\ reader'[r].promised = reader[r].promised
      /\ parse # "invalid" => reader'[r].pc = "readBatch"
  BY <1>1, <1>2 DEF IInv, TypeOK
<1>6. damage = {} => /\ parse # "invalid"
                     /\ rule # Absent => rules[v] # Absent /\ rules[v].schema = "3.1.0"
                     /\ rules[v] # Absent /\ rules[v].schema = "3.1.0" => rule = rules[v].content
  BY UndamagedParse
<1>8. \A d \in reader[r].promised :
         /\ d \in Deliveries /\ d \in reported /\ d.version = v /\ d.schema = "3.1.0"
         /\ rules[v].schema = "3.1.0" /\ rules[v].content = d.rule /\ rules[v] # Absent
  BY <1>1, PromisedFacts, PromisedParts
<1>9. damage = {} => \A d \in reader[r].promised : rule = d.rule
  <2> HIDE DEF rule
  <2> QED
    BY <1>6, <1>8
<1>10. ReaderInvOf(r)'
  BY <1>2, <1>5, <1>6, <1>8, <1>9 DEF ReaderInvOf, stores
<1>11. SeesOneDelivery(r)' /\ PromiseKeptTo(r)'
  BY <1>2, <1>5, <1>6 DEF SeesOneDelivery, PromiseKeptTo, stores
<1> HIDE DEF q
<1> QED
  BY <1>2, <1>4, <1>10, <1>11, ReaderStepKeeps, Zenon

LEMMA ReadStoredBatchKeeps == ASSUME IInv, NEW r \in Readers, ReadStoredBatch(r) PROVE IInv'
<1>1. PICK v \in Versions : reader[r].version = v
  BY Zenon DEF ReadStoredBatch, IInv, ReaderInv, ReaderInvOf
<1> DEFINE parse == ParseV31("batches", v, batches[v])
           batch == IF parse = "invalid" THEN Absent ELSE HandedOut(parse, batches[v])
           pc    == CASE parse = "invalid" -> "unverified"
                      [] parse # "invalid" /\ Absent \in {reader[r].rule, batch} -> "incomplete"
                      [] OTHER -> "consumable"
           q     == [reader[r] EXCEPT !.batch = batch, !.pc = pc]
<1>2. /\ reader[r].pc = "readBatch" /\ reader' = [reader EXCEPT ![r] = q]
      /\ UNCHANGED <<stores, run, recoverer, reported>>
  BY <1>1, Zenon DEF ReadStoredBatch
<1>3. batch \in Contents
  BY HandedOutType DEF IInv, TypeOK, Contents
<1>4. pc \in {"unverified", "incomplete", "consumable"}
  OBVIOUS
<1>5. q \in ReaderType
  BY <1>3, <1>4, ReaderFacts, Zenon
<1>6. /\ reader'[r].pc = pc /\ reader'[r].version = v /\ reader'[r].batch = batch
      /\ reader'[r].rule = reader[r].rule /\ reader'[r].promised = reader[r].promised
  BY <1>1, <1>2 DEF IInv, TypeOK
<1>7. damage = {} => /\ parse # "invalid"
                     /\ batch # Absent => batches[v] # Absent /\ batches[v].schema = "3.1.0"
                     /\ batches[v] # Absent /\ batches[v].schema = "3.1.0"
                           => batch = batches[v].content
  BY UndamagedParse
<1>8. \A d \in reader[r].promised :
         /\ d \in Deliveries /\ d \in reported /\ d.version = v /\ d.schema = "3.1.0"
         /\ batches[v].schema = "3.1.0" /\ batches[v].content = d.batch /\ batches[v] # Absent
         /\ damage = {} => reader[r].rule = d.rule
  BY <1>1, <1>2, PromisedFacts, PromisedParts
<1>9. ReaderInvOf(r)'
  BY <1>2, <1>4, <1>6, <1>8 DEF ReaderInvOf
<1>10. SeesOneDelivery(r)'
  <2>1. ASSUME pc = "consumable", damage = {}
        PROVE  \E d \in Deliveries : /\ d.schema = "3.1.0" /\ d.version = v
                                     /\ d.rule = reader[r].rule /\ d.batch = batch
    <3>1. reader[r].rule # Absent /\ batch # Absent
      BY <2>1
    <3>2. PICK d \in Deliveries : d.version = v /\ StoredWhole(d)
      BY <2>1, <3>1, <1>7 DEF IInv, RegisterInv
    <3>3. rules[v].schema = "3.1.0" /\ rules[v].content = reader[r].rule
      BY <1>1, <1>2, <2>1, <3>1 DEF IInv, ReaderInv, ReaderInvOf
    <3>4. batch = batches[v].content
      BY <2>1, <3>1, <1>7
    <3> QED
      BY <3>2, <3>3, <3>4 DEF StoredWhole, RuleDocument, BatchDocument
  <2> QED
    BY <1>2, <1>6, <2>1 DEF SeesOneDelivery, stores
<1>11. PromiseKeptTo(r)'
  <2>1. ASSUME NEW d \in reader[r].promised, damage = {}
        PROVE  pc = "consumable" /\ d.rule = reader[r].rule /\ d.batch = batch
    <3>1. d.rule = reader[r].rule
      BY <1>8, <2>1
    <3>2. d.batch = batch /\ parse # "invalid"
      <4> HIDE DEF parse, batch
      <4> QED
        BY <1>7, <1>8, <2>1
    <3>3. d.rule # Absent /\ d.batch # Absent
      BY <1>8, DeliveriesAssumption
    <3> QED
      BY <3>1, <3>2, <3>3
  <2> QED
    BY <1>2, <1>6, <2>1 DEF PromiseKeptTo, stores
<1> HIDE DEF q
<1> QED
  BY <1>2, <1>5, <1>9, <1>10, <1>11, ReaderStepKeeps, Zenon

LEMMA ReadBreaksOffKeeps == ASSUME IInv, NEW r \in Readers, ReadBreaksOff(r) PROVE IInv'
<1> DEFINE q == [reader[r] EXCEPT !.pc = "unavailable"]
<1>1. /\ reader[r].pc # "idle" /\ reader' = [reader EXCEPT ![r] = q]
      /\ UNCHANGED <<stores, run, recoverer, reported>>
  BY DEF ReadBreaksOff
<1>2. q \in ReaderType
  BY ReaderFacts, Zenon DEF Contents
<1>3. /\ reader'[r].pc = "unavailable" /\ reader'[r].version = reader[r].version
      /\ reader'[r].promised = reader[r].promised
  BY <1>1 DEF IInv, TypeOK
<1>4. ReaderInvOf(r)' /\ SeesOneDelivery(r)' /\ PromiseKeptTo(r)'
  BY <1>1, <1>3 DEF ReaderInvOf, SeesOneDelivery, PromiseKeptTo, IInv, ReaderInv
<1> HIDE DEF q
<1> QED
  BY <1>1, <1>2, <1>4, ReaderStepKeeps, Zenon

\* Every step of a reader keeps the invariant.
LEMMA ReadKeeps == ASSUME IInv, NEW r \in Readers, Read(r) PROVE IInv'
BY ReadBeginKeeps, ReadStoredRuleKeeps, ReadStoredBatchKeeps, ReadBreaksOffKeeps DEF Read

\* A recoverer's record stays typed when it goes elsewhere, and nothing else changes.
LEMMA RecovererFacts ==
    ASSUME IInv, NEW x \in Recoverers,
           NEW pc \in {"save", "confirm", "readBack", "done", "conflict", "unverified",
                       "unavailable"},
           recoverer' = [recoverer EXCEPT ![x].pc = pc]
    PROVE  /\ [recoverer[x] EXCEPT !.pc = pc] \in RecovererType
           /\ recoverer' = [recoverer EXCEPT ![x] = [recoverer[x] EXCEPT !.pc = pc]]
           /\ recoverer'[x].pc = pc /\ recoverer'[x].candidate = recoverer[x].candidate
BY DEF IInv, TypeOK, RecovererType

\* A step that only takes x elsewhere keeps the invariant when x knows what it should.
LEMMA RecovererGoes ==
    ASSUME IInv, NEW x \in Recoverers,
           NEW pc \in {"save", "confirm", "readBack", "done", "conflict", "unverified",
                       "unavailable"},
           recoverer' = [recoverer EXCEPT ![x].pc = pc],
           UNCHANGED <<stores, run, reader, reported>>,
           RecovererInvOf(x)'
    PROVE  IInv'
<1> DEFINE q == [recoverer[x] EXCEPT !.pc = pc]
<1>1. q \in RecovererType /\ recoverer' = [recoverer EXCEPT ![x] = q]
  BY RecovererFacts, Zenon
<1>2. /\ LegacyInv'
      /\ legacy' \in [CollectionNames -> Counts]
      /\ recovery' \in Candidates \cup {Absent}
  BY DEF IInv, TypeOK, LegacyInv, stores
<1> HIDE DEF q
<1> QED
  BY <1>1, <1>2, RecovererStepKeeps, Zenon DEF stores

LEMMA RecoveryBeginKeeps == ASSUME IInv, NEW x \in Recoverers, RecoveryBegin(x) PROVE IInv'
<1>1. PICK c \in Candidates :
         recoverer' = [recoverer EXCEPT ![x] = [pc |-> "save", candidate |-> c]]
  BY Zenon DEF RecoveryBegin
<1>2. [pc |-> "save", candidate |-> c] \in RecovererType
  BY DEF RecovererType
<1>3. UNCHANGED <<stores, run, reader, reported>>
  BY DEF RecoveryBegin
<1>4. RecovererInvOf(x)'
  BY <1>1 DEF RecovererInvOf, IInv, TypeOK
<1>5. /\ LegacyInv'
      /\ legacy' \in [CollectionNames -> Counts]
      /\ recovery' \in Candidates \cup {Absent}
  BY <1>3 DEF IInv, TypeOK, LegacyInv, stores
<1> QED
  BY <1>1, <1>2, <1>3, <1>4, <1>5, RecovererStepKeeps, Zenon DEF stores

LEMMA RecoverySaveKeeps == ASSUME IInv, NEW x \in Recoverers, RecoverySave(x) PROVE IInv'
<1>1. recoverer[x].pc = "save" /\ recoverer[x].candidate \in Candidates
  BY DEF RecoverySave, IInv, RecovererInv, RecovererInvOf
<1>2. CASE recovery # Absent
  <2>1. /\ recoverer' = [recoverer EXCEPT ![x].pc = "confirm"]
        /\ UNCHANGED <<stores, run, reader, reported>>
    BY <1>2 DEF RecoverySave, stores
  <2>2. RecovererInvOf(x)'
    BY <1>1, <1>2, <2>1, RecovererFacts DEF RecovererInvOf, stores
  <2> QED
    BY <2>1, <2>2, RecovererGoes, Zenon
<1>3. CASE recovery = Absent
  <2> DEFINE q == [recoverer[x] EXCEPT !.pc = "readBack"]
  <2>1. /\ recovery' = recoverer[x].candidate
        /\ legacy' = [legacy EXCEPT !["rule_structure_candidates_v3"] = @ + 1]
        /\ recoverer' = [recoverer EXCEPT ![x].pc = "readBack"]
        /\ UNCHANGED <<rules, batches, damage, run, reader, reported>>
    BY <1>3 DEF RecoverySave
  <2>2. q \in RecovererType /\ recoverer' = [recoverer EXCEPT ![x] = q]
    BY <2>1, RecovererFacts, Zenon
  <2>3. RecovererInvOf(x)'
    BY <1>1, <2>1, RecovererFacts DEF RecovererInvOf
  <2>4. legacy["rule_structure_candidates_v3"] = 0 /\ 1 \in Counts
    BY <1>3, BoundsAssumption DEF IInv, LegacyInv, Counts
  <2>5. legacy' \in [CollectionNames -> Counts]
    <3>1. legacy["rule_structure_candidates_v3"] + 1 \in Counts
      BY <2>4
    <3>2. legacy \in [CollectionNames -> Counts]
      BY DEF IInv, TypeOK
    <3> QED
      BY <2>1, <3>1, <3>2, Zenon
  <2>6. /\ legacy'["rule_structure_candidates_v3"] = 1
        /\ legacy'["rule_versions"] = legacy["rule_versions"]
        /\ legacy'["fact_binding_handoffs"] = legacy["fact_binding_handoffs"]
    BY <2>1, <2>4, CollectionFacts DEF IInv, TypeOK
  <2>7. LegacyInv'
    BY <1>1, <2>1, <2>6, CandidatesAssumption DEF IInv, LegacyInv
  <2> HIDE DEF q
  <2> QED
    BY <1>1, <1>3, <2>1, <2>2, <2>3, <2>5, <2>7, RecovererStepKeeps, Zenon
<1> QED
  BY <1>2, <1>3

LEMMA RecoveryConfirmKeeps == ASSUME IInv, NEW x \in Recoverers, RecoveryConfirm(x) PROVE IInv'
<1> DEFINE pc == IF recovery = recoverer[x].candidate THEN "readBack" ELSE "conflict"
<1>1. /\ recoverer[x].pc = "confirm" /\ recoverer' = [recoverer EXCEPT ![x].pc = pc]
      /\ UNCHANGED <<stores, run, reader, reported>>
  BY DEF RecoveryConfirm
<1>2. /\ pc \in {"readBack", "conflict"}
      /\ pc = "readBack" => recovery = recoverer[x].candidate
  OBVIOUS
<1> HIDE DEF pc
<1>3. recoverer'[x].pc = pc /\ recoverer'[x].candidate = recoverer[x].candidate
  BY <1>1, <1>2, RecovererFacts, Zenon
<1>4. RecovererInvOf(x)'
  BY <1>1, <1>2, <1>3 DEF RecovererInvOf, IInv, RecovererInv, stores
<1> QED
  BY <1>1, <1>2, <1>4, RecovererGoes, Zenon

LEMMA RecoveryReadBackKeeps == ASSUME IInv, NEW x \in Recoverers, RecoveryReadBack(x) PROVE IInv'
<1> DEFINE pc == IF recovery = recoverer[x].candidate THEN "done" ELSE "unverified"
<1>1. /\ recoverer[x].pc = "readBack" /\ recoverer' = [recoverer EXCEPT ![x].pc = pc]
      /\ UNCHANGED <<stores, run, reader, reported>>
  BY DEF RecoveryReadBack
<1>2. /\ pc \in {"done", "unverified"}
      /\ pc = "done" => recovery = recoverer[x].candidate
  OBVIOUS
<1> HIDE DEF pc
<1>3. recoverer'[x].pc = pc /\ recoverer'[x].candidate = recoverer[x].candidate
  BY <1>1, <1>2, RecovererFacts, Zenon
<1>4. RecovererInvOf(x)'
  BY <1>1, <1>2, <1>3 DEF RecovererInvOf, IInv, RecovererInv, stores
<1> QED
  BY <1>1, <1>2, <1>4, RecovererGoes, Zenon

LEMMA RecoveryBreaksOffKeeps == ASSUME IInv, NEW x \in Recoverers, RecoveryBreaksOff(x) PROVE IInv'
<1>1. /\ recoverer[x].pc # "idle" /\ recoverer' = [recoverer EXCEPT ![x].pc = "unavailable"]
      /\ UNCHANGED <<stores, run, reader, reported>>
  BY DEF RecoveryBreaksOff, Recovering
<1>2. recoverer'[x].pc = "unavailable" /\ recoverer'[x].candidate = recoverer[x].candidate
  BY <1>1, RecovererFacts, Zenon
<1>3. RecovererInvOf(x)'
  BY <1>1, <1>2 DEF RecovererInvOf, IInv, RecovererInv
<1> QED
  BY <1>1, <1>3, RecovererGoes, Zenon

\* Every step of a recoverer keeps the invariant.
LEMMA RecoverKeeps == ASSUME IInv, NEW x \in Recoverers, Recover(x) PROVE IInv'
BY RecoveryBeginKeeps, RecoverySaveKeeps, RecoveryConfirmKeeps, RecoveryReadBackKeeps,
   RecoveryBreaksOffKeeps DEF Recover

LEMMA LegacyWriteKeeps == ASSUME IInv, LegacyWrite PROVE IInv'
<1>1. PICK c \in {"rule_versions", "fact_binding_handoffs"} : legacy' = [legacy EXCEPT ![c] = @ + 1]
  BY Zenon DEF LegacyWrite
<1>2. /\ UNCHANGED <<rules, batches, recovery, damage, run, reader, recoverer, reported>>
      /\ legacy["rule_versions"] + legacy["fact_binding_handoffs"] < MaxLegacy
  BY DEF LegacyWrite
<1>3. /\ legacy["rule_versions"] \in Counts /\ legacy["fact_binding_handoffs"] \in Counts
      /\ legacy \in [CollectionNames -> Counts]
  BY CollectionFacts DEF IInv, TypeOK
<1>4. legacy[c] + 1 \in Counts
  BY <1>2, <1>3, BoundsAssumption DEF Counts
<1>5. legacy' \in [CollectionNames -> Counts]
  BY <1>1, <1>3, <1>4, Zenon
<1>6. TypeOK'
  BY <1>2, <1>5 DEF IInv, TypeOK
<1>7. Grow
  BY <1>2 DEF Grow
<1>8. RunInv' /\ ReaderInv'
  BY <1>2, <1>7, RunKept, ReaderKept DEF IInv, RunInv, ReaderInv
<1>9. RegisterInv' /\ RecovererInv'
  BY <1>2, Zenon
  DEF IInv, RegisterInv, StoredWhole, RuleDocument, BatchDocument, RecovererInv, RecovererInvOf
<1>10. LegacyInv'
  <2>1. legacy'["rule_versions"] + legacy'["fact_binding_handoffs"] <= MaxLegacy
    BY <1>1, <1>2, <1>3, CollectionFacts, BoundsAssumption DEF Counts
  <2>2. legacy'["rule_structure_candidates_v3"] = legacy["rule_structure_candidates_v3"]
    BY <1>1, <1>3, CollectionFacts
  <2> QED
    BY <1>2, <2>1, <2>2 DEF IInv, LegacyInv
<1>11. ReaderSeesOneDelivery' /\ PromiseIsKept'
  BY <1>2 DEF IInv, ReaderSeesOneDelivery, PromiseIsKept
<1> QED
  BY <1>6, <1>8, <1>9, <1>10, <1>11 DEF IInv

LEMMA DamageKeeps == ASSUME IInv, Damage PROVE IInv'
<1>1. PICK v \in Versions, part \in Parts, store \in {"rules", "batches"} :
         damage' = damage \cup {[store |-> store, version |-> v, part |-> part]}
  BY DEF Damage
<1>2. UNCHANGED <<rules, batches, recovery, legacy, run, reader, recoverer, reported>>
  BY DEF Damage
<1>3. TypeOK'
  BY <1>1, <1>2 DEF IInv, TypeOK
<1>4. Grow /\ damage' # {}
  BY <1>1, <1>2, Zenon DEF Grow
<1>5. RunInv' /\ ReaderInv'
  BY <1>2, <1>4, RunKept, ReaderKept DEF IInv, RunInv, ReaderInv
<1>6. RegisterInv' /\ RecovererInv' /\ LegacyInv'
  BY <1>2, Zenon
  DEF IInv, RegisterInv, StoredWhole, RuleDocument, BatchDocument, RecovererInv, RecovererInvOf,
      LegacyInv
<1>7. ReaderSeesOneDelivery' /\ PromiseIsKept'
  BY <1>4 DEF ReaderSeesOneDelivery, PromiseIsKept
<1> QED
  BY <1>3, <1>5, <1>6, <1>7 DEF IInv

-----------------------------------------------------------------------------
(* The theorems                                                            *)

\* The invariant holds initially.
LEMMA InitIInv == ASSUME Init PROVE IInv
<1>1. 0 \in Counts /\ MaxLegacy \in Nat
  BY BoundsAssumption DEF Counts
<1>2. NoRun \in RunType /\ NoRead \in ReaderType /\ NoRecovery \in RecovererType
  BY EmptySnapshot DEF NoRun, RunType, NoRead, ReaderType, NoRecovery, RecovererType, Contents
<1>3. TypeOK
  <2>1. /\ rules \in [Versions -> Documents] /\ batches \in [Versions -> Documents]
        /\ legacy \in [CollectionNames -> Counts]
    BY <1>1 DEF Init, Documents
  <2>2. /\ run \in [Workers -> RunType] /\ reader \in [Readers -> ReaderType]
        /\ recoverer \in [Recoverers -> RecovererType]
    BY <1>2 DEF Init
  <2> QED
    BY <2>1, <2>2 DEF Init, TypeOK, RunType, ReaderType, RecovererType
<1>4. RunInv
  BY CollectionFacts
  DEF Init, RunInv, RunInvOf, NoRun, At, Begun, Running, HasRule, HasBatch
<1>5. RegisterInv
  BY DEF Init, RegisterInv
<1>6. ReaderInv
  BY DEF Init, ReaderInv, ReaderInvOf, NoRead
<1>7. RecovererInv
  BY DEF Init, RecovererInv, RecovererInvOf, NoRecovery
<1>8. LegacyInv
  BY <1>1, CollectionFacts DEF Init, LegacyInv
<1>9. ReaderSeesOneDelivery /\ PromiseIsKept
  BY DEF Init, ReaderSeesOneDelivery, PromiseIsKept, NoRead
<1> QED
  BY <1>3, <1>4, <1>5, <1>6, <1>7, <1>8, <1>9 DEF IInv

\* Every step, stuttering included, keeps the invariant.
LEMMA NextKeeps == IInv /\ [Next]_vars => IInv'
<1>1. ASSUME IInv, UNCHANGED vars PROVE IInv'
  <2>1. UNCHANGED <<rules, batches, recovery, legacy, damage, run, reader, recoverer, reported>>
    BY <1>1 DEF vars, stores
  <2>2. TypeOK' /\ LegacyInv'
    BY <1>1, <2>1 DEF IInv, TypeOK, LegacyInv
  <2>3. RegisterInv'
    BY <1>1, <2>1, Zenon DEF IInv, RegisterInv, StoredWhole, RuleDocument, BatchDocument
  <2>4. Grow
    BY <2>1 DEF Grow
  <2>5. RunInv' /\ ReaderInv'
    BY <1>1, <2>1, <2>4, RunKept, ReaderKept DEF IInv, RunInv, ReaderInv
  <2>6. RecovererInv'
    BY <1>1, <2>1 DEF IInv, RecovererInv, RecovererInvOf
  <2>7. ReaderSeesOneDelivery' /\ PromiseIsKept'
    BY <1>1, <2>1 DEF IInv, ReaderSeesOneDelivery, PromiseIsKept
  <2> QED
    BY <2>2, <2>3, <2>5, <2>6, <2>7 DEF IInv
<1>2. IInv /\ Next => IInv'
  BY PersistKeeps, ReadKeeps, RecoverKeeps, LegacyWriteKeeps, DamageKeeps DEF Next
<1> QED
  BY <1>1, <1>2

\* The inductive invariant holds throughout.
THEOREM Invariance == Spec => []IInv
<1> QED
  BY InitIInv, NextKeeps, PTL DEF Spec

\* The services, the reader and the recovery script keep to their types, whatever the
\* number of processes and the deliveries.
THEOREM TypeCorrect == Spec => []TypeOK
BY Invariance, PTL DEF IInv

\* A run ends in a conflict or a failed verification only when another delivery stands
\* in its way, under its version or with its source under another: the retry of a
\* delivery, also one that races with itself, is safe.
THEOREM ConflictsAreReal == Spec => []ConflictIsReal
<1>1. IInv => ConflictIsReal
  BY DEF IInv, RunInv, RunInvOf, HeldByAnother, ConflictIsReal
<1> QED
  BY <1>1, Invariance, PTL

\* The error about the legacy counts is reported of a delivery that is stored whole.
THEOREM CountsChangedComesAfterTheFact == Spec => []CountsChangedIsStored
<1>1. IInv => CountsChangedIsStored
  BY DEF IInv, RunInv, RunInvOf, At, HasRule, HasBatch, CountsChangedIsStored
<1> QED
  BY <1>1, Invariance, PTL

\* A reader that reads the rule and the batch at two moments sees one delivery.
THEOREM ReadersSeeOneDelivery == Spec => []ReaderSeesOneDelivery
BY Invariance, PTL DEF IInv

\* What was reported as persisted is what every later reader of the version gets.
THEOREM PromisesAreKept == Spec => []PromiseIsKept
BY Invariance, PTL DEF IInv

\* The recovery candidate that a run has verified is never replaced.
THEOREM RecoveriesAreKept == Spec => []RecoveryIsKept
<1>1. IInv => RecoveryIsKept
  BY DEF IInv, RecovererInv, RecovererInvOf, RecoveryIsKept
<1> QED
  BY <1>1, Invariance, PTL

-----------------------------------------------------------------------------
(* The two collections implement the register                              *)

\* The register that the two collections stand for.
registered == [v \in Versions |-> [rule |-> rules[v], batch |-> batches[v]]]

\* Documents are what the register is made of.
LEMMA RegisterDocuments ==
    ASSUME NEW d \in Deliveries
    PROVE  /\ Register!Half(d) = [rule |-> RuleDocument(d), batch |-> Absent]
           /\ Register!Whole(d) = [rule |-> RuleDocument(d), batch |-> BatchDocument(d)]
BY DEF Register!Half, Register!Whole, Register!RuleOf, Register!BatchOf, RuleDocument,
       BatchDocument

\* A step that leaves the collections and the reports alone is a stutter of the register.
LEMMA QuietStutters ==
    ASSUME UNCHANGED <<rules, batches, reported>>
    PROVE  UNCHANGED <<registered, reported>>
BY DEF registered

\* Inserting a rule is PutRule: there is no batch without a rule.
LEMMA SaveRuleMaps ==
    ASSUME IInv, NEW w \in Workers, SaveRule(w)
    PROVE  Register!Next \/ UNCHANGED <<registered, reported>>
<1>1. run[w].pc = "saveRule"
  BY DEF SaveRule, At
<1>2. PICK d \in Deliveries : run[w].d = d
  BY <1>1, RunFacts DEF Begun, Running
<1>3. CASE UNCHANGED rules
  BY <1>3, QuietStutters DEF SaveRule
<1>4. CASE rules[d.version] = Absent /\ rules' = [rules EXCEPT ![d.version] = RuleDocument(d)]
  <2>1. /\ rules' = [rules EXCEPT ![d.version] = RuleDocument(d)]
        /\ UNCHANGED <<batches, reported>>
    BY <1>4 DEF SaveRule
  <2>2. d.version \in Versions /\ RuleDocument(d) # Absent
    BY DeliveryFacts
  <2>3. batches[d.version] = Absent
    BY <1>4, <2>2, DocumentsAssumption DEF IInv, RegisterInv, StoredWhole
  <2>4. registered[d.version] = Register!Nothing
    BY <1>4, <2>2, <2>3 DEF registered, Register!Nothing
  <2>5. registered' = [registered EXCEPT ![d.version] = Register!Half(d)]
    BY <2>1, <2>2, <2>3, RegisterDocuments, Zenon DEF registered, IInv, TypeOK
  <2>6. Register!PutRule(d)
    BY <2>1, <2>4, <2>5 DEF Register!PutRule, registered
  <2> QED
    BY <2>6 DEF Register!Next
<1> QED
  BY <1>2, <1>3, <1>4 DEF SaveRule

\* Inserting a batch is PutBatch: the rule with which it goes is there.
LEMMA SaveBatchMaps ==
    ASSUME IInv, NEW w \in Workers, SaveBatch(w)
    PROVE  Register!Next \/ UNCHANGED <<registered, reported>>
<1>1. run[w].pc = "saveBatch"
  BY DEF SaveBatch, At
<1>2. PICK d \in Deliveries : run[w].d = d
  BY <1>1, RunFacts DEF Begun, Running
<1>3. CASE batches[d.version] # Absent
  BY <1>2, <1>3, QuietStutters DEF SaveBatch
<1>4. CASE batches[d.version] = Absent
  <2>1. /\ batches' = [batches EXCEPT ![d.version] = BatchDocument(d)]
        /\ UNCHANGED <<rules, reported>>
    BY <1>2, <1>4 DEF SaveBatch
  <2>2. d.version \in Versions
    BY DeliveryFacts
  <2>3. rules[d.version] = RuleDocument(d)
    BY <1>1, <1>2 DEF IInv, RunInv, RunInvOf, HasRule
  <2>4. registered[d.version] = Register!Half(d)
    BY <1>4, <2>2, <2>3, RegisterDocuments DEF registered
  <2>5. registered' = [registered EXCEPT ![d.version] = Register!Whole(d)]
    BY <2>1, <2>2, <2>3, RegisterDocuments, Zenon DEF registered, IInv, TypeOK
  <2>6. Register!PutBatch(d)
    BY <2>1, <2>4, <2>5 DEF Register!PutBatch, registered
  <2> QED
    BY <2>6 DEF Register!Next
<1> QED
  BY <1>3, <1>4

\* The last count is Report: what a run reports is registered whole.
LEMMA CountAfterMaps ==
    ASSUME IInv, NEW w \in Workers, CountAfter(w)
    PROVE  Register!Next \/ UNCHANGED <<registered, reported>>
<1>1. run[w].pc = "recount" /\ UNCHANGED <<rules, batches>>
  BY DEF CountAfter, At, stores
<1>2. PICK d \in Deliveries : run[w].d = d
  BY <1>1, RunFacts DEF Begun, Running
<1>3. reported' = reported \cup {d} \/ UNCHANGED reported
  BY <1>2 DEF CountAfter
<1>4. CASE UNCHANGED reported
  BY <1>1, <1>4, QuietStutters
<1>5. CASE reported' = reported \cup {d}
  <2>1. rules[d.version] = RuleDocument(d) /\ batches[d.version] = BatchDocument(d)
    BY <1>1, <1>2 DEF IInv, RunInv, RunInvOf, HasRule, HasBatch
  <2>2. registered[d.version] = Register!Whole(d)
    BY <2>1, DeliveryFacts, RegisterDocuments DEF registered
  <2>3. Register!Report(d)
    BY <1>1, <1>5, <2>2 DEF Register!Report, registered
  <2> QED
    BY <2>3 DEF Register!Next
<1> QED
  BY <1>3, <1>4, <1>5

\* Every other step is a stutter.
LEMMA StepMaps ==
    ASSUME IInv, [Next]_vars
    PROVE  [Register!Next]_<<registered, reported>>
<1>1. ASSUME NEW w \in Workers, Persist(w)
      PROVE  Register!Next \/ UNCHANGED <<registered, reported>>
  <2>1. \/ OnlyRun
        \/ SaveRule(w) \/ SaveBatch(w) \/ CountAfter(w)
    BY <1>1, Zenon
    DEF Persist, Begin, CountBefore, ConfirmRule, ConfirmBatch, ReadRule, ReadBatch, BreakOff
  <2>2. OnlyRun => UNCHANGED <<rules, batches, reported>>
    BY DEF OnlyRun, stores
  <2>3. CASE OnlyRun
    BY <2>2, <2>3, QuietStutters, Zenon
  <2>4. CASE SaveRule(w)
    BY <2>4, SaveRuleMaps, Zenon
  <2>5. CASE SaveBatch(w)
    BY <2>5, SaveBatchMaps, Zenon
  <2>6. CASE CountAfter(w)
    BY <2>6, CountAfterMaps, Zenon
  <2> QED
    BY <2>1, <2>3, <2>4, <2>5, <2>6
<1>2. ASSUME NEW r \in Readers, Read(r) PROVE UNCHANGED <<rules, batches, reported>>
  BY <1>2, Zenon DEF Read, ReadBegin, ReadStoredRule, ReadStoredBatch, ReadBreaksOff, stores
<1>3. ASSUME NEW x \in Recoverers, Recover(x) PROVE UNCHANGED <<rules, batches, reported>>
  BY <1>3 DEF Recover, RecoveryBegin, RecoverySave, RecoveryConfirm, RecoveryReadBack,
              RecoveryBreaksOff, stores
<1>4. LegacyWrite \/ Damage \/ UNCHANGED vars => UNCHANGED <<rules, batches, reported>>
  BY DEF LegacyWrite, Damage, vars, stores
<1> QED
  BY <1>1, <1>2, <1>3, <1>4, QuietStutters DEF Next

\* The two collections implement the register: the services, whichever runs race, break
\* off and are repeated, put a rule first, then the batch that goes with it, replace
\* nothing, and report only what is stored whole.
THEOREM RegisterImplemented == Spec => ImplementsRegister
<1>1. Init => Register!Init
  BY DEF Init, Register!Init, Register!Nothing
<1>2. IInv /\ [Next]_vars => [Register!Next]_<<registered, reported>>
  BY StepMaps
<1> QED
  BY <1>1, <1>2, Invariance, PTL DEF Spec, ImplementsRegister, Register!Spec, registered


=============================================================================
