------------------------ MODULE DeliveryPersistence ------------------------
(***************************************************************************)
(* The V3 and V3.1 deliveries of a rule version: V3PersistenceService and  *)
(* V31PersistenceService (application/v3_persistence/service.py,           *)
(* application/v31_persistence/service.py) with their MongoDB repositories *)
(* (infrastructure/v3_persistence.py, v31_persistence.py), which share two *)
(* insert-only collections; the reader of a complete delivery; and the     *)
(* store of blocked candidates (infrastructure/v3_recovery.py), which is   *)
(* one of the collections whose counts a delivery must leave alone.        *)
(*                                                                         *)
(* One action is one database command with the checks up to the next.  A   *)
(* stored document is what was inserted, its schema and canonical content, *)
(* and what has been done to it since behind the program's back.           *)
(***************************************************************************)
EXTENDS Naturals, Sequences, FiniteSets

CONSTANTS Workers,        \* runs of the two persist() services
          Readers,        \* runs of get_complete_delivery()
          Versions,       \* rule versions
          Historical,     \* the rule version of 2026-09-05
          Deliveries,     \* [version, source, schema, rule, batch] that pass the gates
          Recoverers,     \* runs of the recovery script
          Candidates,     \* payloads that recovery runs may save under the one id
          Absent,         \* no document
          MaxLegacy,      \* bound: records that V2 writers add while we watch
          MaxDamage       \* bound: documents altered behind the program's back

Schemas == {"3.0.0", "3.1.0"}

ASSUME DeliveriesAssumption ==
    \A d \in Deliveries : /\ d.version \in Versions
                          /\ d.schema \in Schemas
                          /\ Absent \notin {d.schema, d.rule, d.batch}
ASSUME CandidatesAssumption == Absent \notin Candidates
ASSUME BoundsAssumption == MaxLegacy \in Nat /\ MaxDamage \in Nat

VARIABLES rules,      \* rule_versions_v3
          batches,    \* fact_binding_handoff_batches_v3
          recovery,   \* rule_structure_candidates_v3: the candidate under the id
          legacy,     \* how many documents the legacy collections hold
          damage,     \* what was altered: a set of [store, version, part]
          run,        \* the run of persist() that each worker is in
          reader,     \* the read of a complete delivery that each reader is in
          recoverer,  \* the recovery run that each recoverer is in
          reported    \* history: the deliveries reported as persisted

stores == <<rules, batches, recovery, legacy, damage>>
vars   == <<stores, run, reader, recoverer, reported>>

\* LEGACY_DELIVERY_COLLECTIONS, in the order in which they are counted.
Collections == <<"rule_versions", "fact_binding_handoffs", "rule_structure_candidates_v3">>
CollectionNames == {Collections[i] : i \in 1..Len(Collections)}

Running  == {"count", "saveRule", "confirmRule", "saveBatch", "confirmBatch",
             "readRule", "readBatch", "recount"}
Failures == {"refused", "conflict", "unverified", "countsChanged", "unavailable"}
NoDelivery == [version |-> Absent, source |-> Absent, schema |-> Absent, rule |-> Absent,
               batch |-> Absent]
NoRun  == [pc |-> "idle", d |-> NoDelivery, before |-> <<>>, after |-> <<>>,
           ruleIsOurs |-> FALSE]
NoRead == [pc |-> "idle", version |-> Absent, rule |-> Absent, batch |-> Absent,
           promised |-> {}]
NoRecovery == [pc |-> "idle", candidate |-> Absent]

\* What is inserted.  The source of a rule is its rule set, the hash of the source text
\* and the digest of the catalogue: a delivery generated again from the same source has
\* another version, for the version holds the time of generation, but the same source.
RuleDocument(d)  == [schema |-> d.schema, source |-> d.source, content |-> d.rule]
BatchDocument(d) == [schema |-> d.schema, content |-> d.batch]

ASSUME DocumentsAssumption ==
    \A d \in Deliveries : Absent \notin {RuleDocument(d), BatchDocument(d)}

Documents == {RuleDocument(d) : d \in Deliveries} \cup {BatchDocument(d) : d \in Deliveries}
             \cup {Absent}
Counts    == 0..(MaxLegacy + 1)
Snapshots == UNION {[1..n -> Counts] : n \in 0..Len(Collections)}
Parts     == {"payload", "wrapper", "version"}
Contents  == {d.rule : d \in Deliveries} \cup {d.batch : d \in Deliveries} \cup
             {Absent, "altered"}

TypeOK ==
    /\ rules \in [Versions -> Documents]
    /\ batches \in [Versions -> Documents]
    /\ recovery \in Candidates \cup {Absent}
    /\ legacy \in [CollectionNames -> Counts]
    /\ damage \subseteq [store : {"rules", "batches"}, version : Versions, part : Parts]
    /\ run \in [Workers -> [pc : Running \cup Failures \cup {"idle", "done"},
                            d  : Deliveries \cup {NoDelivery},
                            before : Snapshots, after : Snapshots,
                            ruleIsOurs : BOOLEAN]]
    /\ reader \in [Readers -> [pc : {"idle", "readRule", "readBatch", "denied", "unverified",
                                     "unavailable", "consumable", "incomplete"},
                               version : Versions \cup {Absent},
                               rule : Contents, batch : Contents,
                               promised : SUBSET Deliveries]]
    /\ recoverer \in [Recoverers -> [pc : {"idle", "save", "confirm", "readBack", "done",
                                           "conflict", "unverified", "unavailable"},
                                     candidate : Candidates \cup {Absent}]]
    /\ reported \subseteq Deliveries

Init ==
    /\ rules = [v \in Versions |-> Absent]
    /\ batches = [v \in Versions |-> Absent]
    /\ recovery = Absent
    /\ legacy = [c \in CollectionNames |-> 0]
    /\ damage = {}
    /\ run = [w \in Workers |-> NoRun]
    /\ reader = [r \in Readers |-> NoRead]
    /\ recoverer = [x \in Recoverers |-> NoRecovery]
    /\ reported = {}

-----------------------------------------------------------------------------
(* Documents and what the two parsers make of them                         *)

Altered(store, v, part) == [store |-> store, version |-> v, part |-> part] \in damage
Intact(store, v)        == \A part \in Parts : ~Altered(store, v, part)

\* The 3.0.0 parser holds every wrapper field against the payload and knows no
\* other schema.
ParseV3(store, v, document) ==
    CASE document = Absent -> "none"
      [] document # Absent /\ document.schema = "3.0.0" /\ Intact(store, v) -> "read"
      [] OTHER -> "invalid"

\* The 3.1.0 parser does not look at documents of another version, and holds only
\* the identity and the hashes of the payloads against the wrapper.
ParseV31(store, v, document) ==
    CASE document = Absent -> "none"
      [] document # Absent /\ (document.schema # "3.1.0" \/ Altered(store, v, "version")) -> "none"
      [] document # Absent /\ document.schema = "3.1.0" /\ ~Altered(store, v, "version")
            /\ Altered(store, v, "payload") -> "invalid"
      [] OTHER -> IF Altered(store, v, "wrapper") THEN "altered" ELSE "read"

\* What get_rule and get_batch of one repository find: "none", "invalid",
\* "altered", "same" as the document expected, or "other".
Finds(schema, store, v, document, expected) ==
    LET parse == IF schema = "3.0.0" THEN ParseV3(store, v, document)
                                     ELSE ParseV31(store, v, document)
    IN  IF parse # "read" THEN parse
        ELSE IF document = expected THEN "same" ELSE "other"

FindsRule(w) ==
    LET d == run[w].d IN Finds(d.schema, "rules", d.version, rules[d.version], RuleDocument(d))
AnyBatch(w) ==
    LET d == run[w].d
    IN  IF batches[d.version] = Absent THEN "none" ELSE "same"

FindsBatch(w) ==
    LET d == run[w].d IN Finds(d.schema, "batches", d.version, batches[d.version], BatchDocument(d))

At(w, pc)   == run[w].pc = pc
Goto(w, pc) == run' = [run EXCEPT ![w].pc = pc]
OnlyRun     == UNCHANGED <<stores, reader, recoverer, reported>>

-----------------------------------------------------------------------------
(* persist() of both services                                              *)

\* prepare_*_delivery: every gate comes before the first command.  The service for
\* 3.1.0 refuses to rewrite the historical delivery.
Begin(w) ==
    /\ run[w].pc \notin Running
    /\ \E d \in Deliveries :
          run' = [run EXCEPT ![w] = [NoRun EXCEPT !.d = d,
                    !.pc = IF d.schema = "3.1.0" /\ d.version = Historical
                           THEN "refused" ELSE "count"]]
    /\ OnlyRun

\* _snapshot_legacy_counts: one collection after the other.
CountBefore(w) ==
    LET next  == Len(run[w].before) + 1
        count == legacy[Collections[next]]
    IN  /\ At(w, "count")
        /\ run' = [run EXCEPT ![w].before = Append(@, count),
                              ![w].pc = IF next = Len(Collections) THEN "saveRule" ELSE "count"]
        /\ OnlyRun

SaveRuleAsUpsert(w) ==
    LET d == run[w].d
    IN  /\ At(w, "saveRule")
        /\ rules' = [rules EXCEPT ![d.version] = RuleDocument(d)]
        /\ Goto(w, "saveBatch")
        /\ UNCHANGED <<batches, recovery, legacy, damage, reader, recoverer, reported>>

\* The versions under which the source of d is stored: one, while nobody edits the
\* fields of the second unique index.
SourceHolders(d) == {v \in Versions : rules[v] # Absent /\ rules[v].source = d.source}

\* insert_one into rule_versions_v3, which is unique in the version and in the source.
\* A holder whose wrapper was edited may be out of the way of the second index or not.
SaveRule(w) ==
    LET d == run[w].d
    IN  /\ At(w, "saveRule")
        /\ \/ /\ rules[d.version] = Absent
              /\ \A v \in SourceHolders(d) : Altered("rules", v, "wrapper")
              /\ rules' = [rules EXCEPT ![d.version] = RuleDocument(d)]
              /\ Goto(w, "saveBatch")
           \/ /\ rules[d.version] # Absent \/ SourceHolders(d) # {}
              /\ Goto(w, "confirmRule")
              /\ UNCHANGED rules
        /\ UNCHANGED <<batches, recovery, legacy, damage, reader, recoverer, reported>>

ConfirmRuleByIdentity(w) ==
    /\ At(w, "confirmRule")
    /\ Goto(w, "saveBatch")
    /\ OnlyRun

\* DuplicateKeyError, whichever index raised it: what is stored under the version must
\* be the rule that was to be saved, and nothing there is a conflict too.
ConfirmRule(w) ==
    /\ At(w, "confirmRule")
    /\ Goto(w, CASE FindsRule(w) = "same"    -> "saveBatch"
                 [] FindsRule(w) = "invalid" -> "unverified"
                 [] OTHER                    -> "conflict")
    /\ OnlyRun

SaveBatch(w) ==
    LET d == run[w].d
    IN  /\ At(w, "saveBatch")
        /\ IF batches[d.version] = Absent
           THEN /\ batches' = [batches EXCEPT ![d.version] = BatchDocument(d)]
                /\ Goto(w, "readRule")
           ELSE Goto(w, "confirmBatch") /\ UNCHANGED batches
        /\ UNCHANGED <<rules, recovery, legacy, damage, reader, recoverer, reported>>

RefuseDuplicateBatch(w) ==
    /\ At(w, "confirmBatch")
    /\ Goto(w, "conflict")
    /\ OnlyRun

ConfirmBatch(w) ==
    /\ At(w, "confirmBatch")
    /\ Goto(w, CASE FindsBatch(w) = "same"    -> "readRule"
                 [] FindsBatch(w) = "invalid" -> "unverified"
                 [] OTHER                     -> "conflict")
    /\ OnlyRun

\* Read-back.  The service for 3.0.0 stops at the rule; the one for 3.1.0 reads the
\* batch too before it compares (_missing_parts).
ReadRule(w) ==
    LET same == FindsRule(w) = "same"
    IN  /\ At(w, "readRule")
        /\ run' = [run EXCEPT ![w].ruleIsOurs = same,
                              ![w].pc = IF \/ FindsRule(w) = "invalid"
                                           \/ ~same /\ run[w].d.schema = "3.0.0"
                                        THEN "unverified" ELSE "readBatch"]
        /\ OnlyRun

ReadBatch(w) ==
    /\ At(w, "readBatch")
    /\ run' = [run EXCEPT ![w].ruleIsOurs = FALSE,
                          ![w].pc = IF run[w].ruleIsOurs /\ FindsBatch(w) = "same"
                                    THEN "recount" ELSE "unverified"]
    /\ OnlyRun

\* The counts are taken again and compared when all are there.
CountAfter(w) ==
    LET next  == Len(run[w].after) + 1
        after == Append(run[w].after, legacy[Collections[next]])
        ends  == next = Len(Collections)
        done  == ends /\ after = run[w].before
    IN  /\ At(w, "recount")
        /\ run' = [run EXCEPT ![w].after = IF ends THEN <<>> ELSE after,
                              ![w].before = IF ends THEN <<>> ELSE @,
                              ![w].pc = CASE done -> "done"
                                          [] ends /\ ~done -> "countsChanged"
                                          [] OTHER -> "recount"]
        /\ reported' = IF done THEN reported \cup {run[w].d} ELSE reported
        /\ UNCHANGED <<stores, reader, recoverer>>

\* A command fails, or the process dies: what has been inserted stays, also when the
\* command that failed was the insert and only its answer was lost.
BreakOff(w) ==
    /\ run[w].pc \in Running
    /\ run' = [run EXCEPT ![w] = [NoRun EXCEPT !.pc = "unavailable"]]
    /\ OnlyRun

Persist(w) == \/ Begin(w) \/ CountBefore(w) \/ SaveRule(w) \/ ConfirmRule(w) \/ SaveBatch(w)
              \/ ConfirmBatch(w) \/ ReadRule(w) \/ ReadBatch(w) \/ CountAfter(w) \/ BreakOff(w)

-----------------------------------------------------------------------------
(* get_complete_delivery() of the service for 3.1.0                        *)

\* assert_delivery_purpose_allowed: the historical version is for the audit only,
\* and the audit sees no other.
Allowed(version, purpose) ==
    purpose = IF version = Historical THEN "historical-audit" ELSE "optimization-plan-generation"

ReadBegin(r) ==
    /\ reader[r].pc \notin {"readRule", "readBatch"}
    /\ \E v \in Versions, purpose \in {"historical-audit", "optimization-plan-generation",
                                       "sql-compilation"} :
          reader' = [reader EXCEPT ![r] = [NoRead EXCEPT
                        !.version  = v,
                        !.pc       = IF Allowed(v, purpose) THEN "readRule" ELSE "denied",
                        !.promised = {d \in reported : d.version = v /\ d.schema = "3.1.0"}]]
    /\ UNCHANGED <<stores, run, recoverer, reported>>

\* What the repository for 3.1.0 hands to the reader.
HandedOut(parse, document) ==
    CASE parse = "none"    -> Absent
      [] parse = "altered" -> "altered"
      [] OTHER             -> document.content

ReadStoredRule(r) ==
    LET v     == reader[r].version
        parse == ParseV31("rules", v, rules[v])
    IN  /\ reader[r].pc = "readRule"
        /\ reader' = [reader EXCEPT
              ![r].pc   = IF parse = "invalid" THEN "unverified" ELSE "readBatch",
              ![r].rule = IF parse = "invalid" THEN Absent ELSE HandedOut(parse, rules[v])]
        /\ UNCHANGED <<stores, run, recoverer, reported>>

\* _missing_parts without a prepared delivery: what is there counts as complete.
ReadStoredBatch(r) ==
    LET v     == reader[r].version
        parse == ParseV31("batches", v, batches[v])
        batch == IF parse = "invalid" THEN Absent ELSE HandedOut(parse, batches[v])
    IN  /\ reader[r].pc = "readBatch"
        /\ reader' = [reader EXCEPT
              ![r].batch = batch,
              ![r].pc    = CASE parse = "invalid" -> "unverified"
                             [] parse # "invalid" /\ Absent \in {reader[r].rule, batch}
                                -> "incomplete"
                             [] OTHER -> "consumable"]
        /\ UNCHANGED <<stores, run, recoverer, reported>>

ReadBreaksOff(r) ==
    /\ reader[r].pc \in {"readRule", "readBatch"}
    /\ reader' = [reader EXCEPT ![r].pc = "unavailable"]
    /\ UNCHANGED <<stores, run, recoverer, reported>>

Read(r) == ReadBegin(r) \/ ReadStoredRule(r) \/ ReadStoredBatch(r) \/ ReadBreaksOff(r)

-----------------------------------------------------------------------------
(* MongoV3RecoveryRepository.save, get and the script around them.  The id *)
(* of a candidate is a function of the rule set, the hash of the block and *)
(* the digest of the catalogue (recovery_candidate_id_v3, enforced when a  *)
(* candidate is made), so the unique index over these three refuses        *)
(* exactly what the one over the id refuses.                               *)

Recovering == {"save", "confirm", "readBack"}

RecoveryBegin(x) ==
    /\ recoverer[x].pc \notin Recovering
    /\ \E c \in Candidates : recoverer' = [recoverer EXCEPT ![x] = [pc |-> "save", candidate |-> c]]
    /\ UNCHANGED <<stores, run, reader, reported>>

RecoveryReplaces(x) ==
    /\ recoverer[x].pc = "save"
    /\ recovery' = recoverer[x].candidate
    /\ recoverer' = [recoverer EXCEPT ![x].pc = "readBack"]
    /\ UNCHANGED <<rules, batches, legacy, damage, run, reader, reported>>

RecoverySave(x) ==
    /\ recoverer[x].pc = "save"
    /\ IF recovery = Absent
       THEN /\ recovery' = recoverer[x].candidate
            /\ legacy' = [legacy EXCEPT !["rule_structure_candidates_v3"] = @ + 1]
            /\ recoverer' = [recoverer EXCEPT ![x].pc = "readBack"]
       ELSE /\ recoverer' = [recoverer EXCEPT ![x].pc = "confirm"]
            /\ UNCHANGED <<recovery, legacy>>
    /\ UNCHANGED <<rules, batches, damage, run, reader, reported>>

RecoveryConfirm(x) ==
    /\ recoverer[x].pc = "confirm"
    /\ recoverer' = [recoverer EXCEPT
          ![x].pc = IF recovery = recoverer[x].candidate THEN "readBack" ELSE "conflict"]
    /\ UNCHANGED <<stores, run, reader, reported>>

RecoveryReadBack(x) ==
    /\ recoverer[x].pc = "readBack"
    /\ recoverer' = [recoverer EXCEPT
          ![x].pc = IF recovery = recoverer[x].candidate THEN "done" ELSE "unverified"]
    /\ UNCHANGED <<stores, run, reader, reported>>

RecoveryBreaksOff(x) ==
    /\ recoverer[x].pc \in Recovering
    /\ recoverer' = [recoverer EXCEPT ![x].pc = "unavailable"]
    /\ UNCHANGED <<stores, run, reader, reported>>

Recover(x) == \/ RecoveryBegin(x) \/ RecoverySave(x) \/ RecoveryConfirm(x)
              \/ RecoveryReadBack(x) \/ RecoveryBreaksOff(x)

-----------------------------------------------------------------------------
(* The surroundings                                                        *)

\* The V2 writers, which know nothing of a delivery, add a record.
LegacyWrite ==
    /\ legacy["rule_versions"] + legacy["fact_binding_handoffs"] < MaxLegacy
    /\ \E c \in {"rule_versions", "fact_binding_handoffs"} :
          legacy' = [legacy EXCEPT ![c] = @ + 1]
    /\ UNCHANGED <<rules, batches, recovery, damage, run, reader, recoverer, reported>>

\* Someone edits a stored document with other tools: inside a payload, in a field
\* that repeats the payload, or in the schema (contract) version.
Damage ==
    /\ Cardinality(damage) < MaxDamage
    /\ \E v \in Versions, part \in Parts :
          \/ /\ rules[v] # Absent
             /\ damage' = damage \cup {[store |-> "rules", version |-> v, part |-> part]}
          \/ /\ batches[v] # Absent
             /\ damage' = damage \cup {[store |-> "batches", version |-> v, part |-> part]}
    /\ UNCHANGED <<rules, batches, recovery, legacy, run, reader, recoverer, reported>>

Next ==
    \/ \E w \in Workers : Persist(w)
    \/ \E r \in Readers : Read(r)
    \/ \E x \in Recoverers : Recover(x)
    \/ LegacyWrite
    \/ Damage

Spec == Init /\ [][Next]_vars

-----------------------------------------------------------------------------
(* Properties                                                              *)

\* The two stores implement DeliveryRegister: rule first, then the batch that goes
\* with that very rule, nothing replaced, and no run reports a delivery as persisted
\* that is not registered whole, whichever runs race, break off and are repeated.
Register == INSTANCE DeliveryRegister WITH
                register <- [v \in Versions |-> [rule |-> rules[v], batch |-> batches[v]]]

ImplementsRegister == Register!Spec

\* What a reader is told is consumable is one delivery, although it reads the rule
\* and the batch at two moments, and runs of other releases race in between.
ReaderSeesOneDelivery ==
    \A r \in Readers : reader[r].pc = "consumable" /\ damage = {} =>
        \E d \in Deliveries : /\ d.schema = "3.1.0"
                              /\ d.version = reader[r].version
                              /\ <<d.rule, d.batch>> = <<reader[r].rule, reader[r].batch>>

\* A delivery for 3.1.0 that a run has reported as persisted is what every later
\* reader of that version gets.
PromiseIsKept ==
    \A r \in Readers : \A d \in reader[r].promised :
        reader[r].pc \in {"consumable", "incomplete", "unverified"} /\ damage = {} =>
            /\ reader[r].pc = "consumable"
            /\ <<d.rule, d.batch>> = <<reader[r].rule, reader[r].batch>>

\* Another delivery stands in the way of d: the rule or the batch under the version of
\* d is not its own, or the source of d is stored under another version.
HeldByAnother(d) == \/ rules[d.version] \notin {Absent, RuleDocument(d)}
                    \/ batches[d.version] \notin {Absent, BatchDocument(d)}
                    \/ SourceHolders(d) \ {d.version} # {}

\* A retry is safe: a run ends in a conflict or a failed verification only when
\* another delivery stands in its way, not because of what an earlier or a parallel
\* run of its own delivery has done or left undone.
ConflictIsReal ==
    \A w \in Workers : run[w].pc \in {"conflict", "unverified"} /\ damage = {} =>
        HeldByAnother(run[w].d)

\* The error about the counts of the legacy collections comes after the fact: the
\* delivery is stored whole, and a reader may be using it.
CountsChangedIsStored ==
    \A w \in Workers : At(w, "countsChanged") =>
        LET d == run[w].d
        IN  rules[d.version] = RuleDocument(d) /\ batches[d.version] = BatchDocument(d)

\* The recovery candidate that a run has verified is kept, also when runs with
\* other payloads for the same id follow.
RecoveryIsKept ==
    \A x \in Recoverers : recoverer[x].pc = "done" => recovery = recoverer[x].candidate
=============================================================================
