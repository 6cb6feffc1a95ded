---------------------------- MODULE Migrations -----------------------------
(***************************************************************************)
(* apply_migrations (migrations.py): processes (service instances, init-db *)
(* and the persistence scripts) bring one MongoDB database to the schema   *)
(* version each of them asks for, at the same time, each of them liable to *)
(* crash between any two database commands and to be started again.  Some  *)
(* may be of the next release, which knows one schema version more.        *)
(*                                                                         *)
(* One action is one command, or the commands of one migration that create *)
(* its collections or its indexes: these are idempotent, and what a crash  *)
(* leaves of them is made good when the migration is applied again.  (V5   *)
(* has two collections, v6 none of its own; neither makes a difference.)   *)
(***************************************************************************)
EXTENDS Integers

CONSTANTS Processes,  \* callers of apply_migrations
          Latest,     \* LATEST_SCHEMA_VERSION of this release
          Targets,    \* the accepted values of target_version
          Newer       \* callers that are of the next release

ASSUME LatestAssumption == Latest \in Nat \ {0}
ASSUME TargetAssumption == Targets \subseteq 1 .. Latest /\ Targets # {}
ASSUME NewerAssumption  == Newer \subseteq Processes

VARIABLES records,   \* the versions in schema_migrations
          built,     \* what exists: <<version, "collections" or "indexes">>
          metadata,  \* app_metadata's schema_version, 0 without the document
          proc       \* where each process stands in apply_migrations

vars == <<records, built, metadata, proc>>

\* What the release of p knows and accepts.
LatestOf(p)  == IF p \in Newer THEN Latest + 1 ELSE Latest
TargetsOf(p) == IF p \in Newer THEN Targets \cup {Latest + 1} ELSE Targets

Versions == 1 .. Latest + 1
Parts    == {"collections", "indexes"}
Applying == {"collections", "indexes", "stamp", "insert"}
Running  == {"latest", "find"} \cup Applying

TypeOK ==
    /\ records \subseteq Versions
    /\ built \subseteq Versions \X Parts
    /\ metadata \in 0 .. Latest + 1
    /\ proc \in [Processes -> [pc       : Running \cup {"idle", "done", "tooNew"},
                               target   : Targets \cup {Latest + 1},
                               recorded : 0 .. Latest + 1,
                               cursor   : 1 .. Latest + 2,
                               result   : 0 .. Latest + 1]]

Init ==
    \E n \in 0 .. Latest + 1 :
       /\ records = 1 .. n
       /\ built = (1 .. n) \X Parts
       /\ metadata = n
       /\ proc \in [Processes -> [pc : {"idle"}, target : Targets, recorded : {0},
                                  cursor : {1}, result : {0}]]

-----------------------------------------------------------------------------

\* find_one({}, sort=[("version", DESCENDING)])
HighestRecord == IF records = {} THEN 0
                 ELSE CHOOSE v \in records : \A w \in records : w <= v

At(p, pc)     == proc[p].pc = pc
Goto(p, pc)   == proc' = [proc EXCEPT ![p].pc = pc]
Advance(p)    == proc' = [proc EXCEPT ![p].pc = "find", ![p].cursor = @ + 1]

Invoke(p) ==
    /\ proc[p].pc \notin Running
    /\ \E t \in TargetsOf(p) :
          proc' = [proc EXCEPT ![p] = [pc |-> "latest", target |-> t, recorded |-> 0,
                                       cursor |-> 1, result |-> 0]]
    /\ UNCHANGED <<records, built, metadata>>

\* The highest record is read and judged once, before the loop.
ReadLatest(p) ==
    /\ At(p, "latest")
    /\ proc' = [proc EXCEPT ![p].recorded = HighestRecord,
                            ![p].pc = IF HighestRecord > LatestOf(p) THEN "tooNew" ELSE "find"]
    /\ UNCHANGED <<records, built, metadata>>

\* The loop: is the next migration recorded already?
FindCollection(p) ==
    /\ At(p, "find")
    /\ proc[p].cursor <= proc[p].target
    /\ IF <<proc[p].cursor, "collections">> \in built THEN Advance(p) ELSE Goto(p, "collections")
    /\ UNCHANGED <<records, built, metadata>>

FindNothing(p) ==
    /\ At(p, "find")
    /\ proc[p].cursor <= proc[p].target
    /\ Goto(p, "collections")
    /\ UNCHANGED <<records, built, metadata>>

FindRecord(p) ==
    /\ At(p, "find")
    /\ proc[p].cursor <= proc[p].target
    /\ IF proc[p].cursor \in records THEN Advance(p) ELSE Goto(p, "collections")
    /\ UNCHANGED <<records, built, metadata>>

\* Migration.apply: collections, then indexes, then the metadata document.
EnsureCollections(p) ==
    /\ At(p, "collections")
    /\ built' = built \cup {<<proc[p].cursor, "collections">>}
    /\ Goto(p, "indexes")
    /\ UNCHANGED <<records, metadata>>

CreateIndexesLater(p) ==
    /\ At(p, "indexes")
    /\ IF proc[p].cursor = 1 THEN built' = built ELSE
       built' = built \cup {<<proc[p].cursor - 1, "indexes">>}
    /\ Goto(p, "stamp")
    /\ UNCHANGED <<records, metadata>>

CreateIndexes(p) ==
    /\ At(p, "indexes")
    /\ built' = built \cup {<<proc[p].cursor, "indexes">>}
    /\ Goto(p, "stamp")
    /\ UNCHANGED <<records, metadata>>

\* The first migration upserts the document, the others only update it.
StampMetadata(p) ==
    /\ At(p, "stamp")
    /\ metadata' = IF proc[p].cursor = 1 \/ metadata # 0 THEN proc[p].cursor ELSE metadata
    /\ Goto(p, "insert")
    /\ UNCHANGED <<records, built>>

\* insert_one; DuplicateKeyError says that another process was first.
InsertRecordOrReturn(p) ==
    /\ At(p, "insert")
    /\ records' = records \cup {proc[p].cursor}
    /\ IF proc[p].cursor \in records
       THEN proc' = [proc EXCEPT ![p].pc = "done", ![p].result = proc[p].target]
       ELSE Advance(p)
    /\ UNCHANGED <<built, metadata>>

InsertRecord(p) ==
    /\ At(p, "insert")
    /\ records' = records \cup {proc[p].cursor}
    /\ Advance(p)
    /\ UNCHANGED <<built, metadata>>

Return(p) ==
    /\ At(p, "find")
    /\ proc[p].cursor > proc[p].target
    /\ proc' = [proc EXCEPT ![p].pc = "done",
                            ![p].result = IF proc[p].target > proc[p].recorded
                                          THEN proc[p].target ELSE proc[p].recorded]
    /\ UNCHANGED <<records, built, metadata>>

Step(p) ==
    \/ ReadLatest(p)
    \/ FindRecord(p)
    \/ EnsureCollections(p)
    \/ CreateIndexes(p)
    \/ StampMetadata(p)
    \/ InsertRecord(p)
    \/ Return(p)

\* The process dies, or a database command raises and the startup fails.
Crash(p) ==
    /\ proc[p].pc \in Running
    /\ Goto(p, "idle")
    /\ UNCHANGED <<records, built, metadata>>

Next == \E p \in Processes : Invoke(p) \/ Step(p) \/ Crash(p)

Spec == Init /\ [][Next]_vars

-----------------------------------------------------------------------------
(* Properties                                                              *)

\* The recorded versions have no gap: whatever processes interleave, crash and
\* start again, no version is recorded before every lower one.
RecordsHaveNoGap == \A v \in records : \A w \in 1 .. v : w \in records

\* A record is a promise: the collections and the indexes of a recorded
\* migration exist, though a crash may fall between any two of its commands and
\* another process may have recorded what this one was still building.
RecordedMeansBuilt == \A v \in records : \A part \in Parts : <<v, part>> \in built

\* The version that apply_migrations returns has been reached: it and every
\* lower version are recorded (hence built), though the highest record was read
\* before the loop and others have written since.
ReturnedVersionIsReached ==
    \A p \in Processes : At(p, "done") => 1 .. proc[p].result \subseteq records

\* "The database is never downgraded": the schema version that app_metadata
\* records never decreases.
MetadataNeverDowngraded == [][metadata' >= metadata]_vars

\* How far that can fail: only a process that was overtaken lowers the version,
\* one whose migration was not recorded when it read the highest record and has
\* been recorded by another process since.  A process that runs alone never does.
OnlyTheOvertakenDowngrade ==
    [][metadata' < metadata =>
          \E p \in Processes : /\ At(p, "stamp")
                               /\ proc[p].recorded < proc[p].cursor
                               /\ proc[p].cursor \in records]_vars

\* The metadata document never runs more than one migration ahead of the
\* records, whatever crash falls between the stamp and the record of it.
MetadataNotFarAhead == metadata <= HighestRecord + 1

=============================================================================
