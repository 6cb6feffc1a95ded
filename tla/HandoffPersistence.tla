------------------------- MODULE HandoffPersistence -------------------------
(***************************************************************************)
(* The handoff of a rule version to the fact binding service: rule         *)
(* versions are saved (rule_versions.py), and FactBindingHandoffService    *)
(* (fact_binding_handoffs/service.py) with its MongoDB repository          *)
(* (fact_binding_handoffs.py) stores one immutable record for each fact    *)
(* that the export of the rule version names.                              *)
(*                                                                         *)
(* The records of one rule version are modelled; records of different      *)
(* versions never meet, their identities being <ruleVersion>#<factCode>.   *)
(* One action is one database command with the checks that follow it up to *)
(* the next command.  An export is a function from fact codes to payloads; *)
(* two releases of the exporter, run against one database, may differ.     *)
(***************************************************************************)
EXTENDS Naturals

CONSTANTS Workers,   \* runs of the handoff command
          Facts,     \* fact codes, numbered in the order of the export
          Payloads,  \* canonical payloads
          Exports,   \* what the releases of the exporter make of the rule
          Absent     \* no record

ASSUME FactsAssumption   == Facts \subseteq Nat
ASSUME AbsentAssumption  == Absent \notin Payloads
ASSUME ExportsAssumption == \A e \in Exports : DOMAIN e \subseteq Facts /\ DOMAIN e # {}
                                               /\ \A f \in DOMAIN e : e[f] \in Payloads

VARIABLES rule,   \* the schema of the rule version, "none" before it is saved
          store,  \* fact_binding_handoffs: the payload recorded for a fact
          run,    \* the run of persist() that each worker is in
          used    \* history: the exports that a run has worked with

vars == <<rule, store, run, used>>

Schemas  == {"1.0.0", "2.0.0"}
Running  == {"list", "find", "insert", "confirm", "recheck"}
Failures == {"not_found", "unsupported", "conflict", "unverified", "unavailable"}
NoExport == [f \in {} |-> Absent]
NoRun    == [pc |-> "idle", export |-> NoExport, saved |-> {}, inserted |-> {}]

TypeOK ==
    /\ rule \in Schemas \cup {"none"}
    /\ store \in [Facts -> Payloads \cup {Absent}]
    /\ run \in [Workers -> [pc       : Running \cup Failures \cup {"idle", "done"},
                            export   : Exports \cup {NoExport},
                            saved    : SUBSET Facts,
                            inserted : SUBSET Facts]]
    /\ used \subseteq Exports

Init ==
    /\ rule = "none"
    /\ store = [f \in Facts |-> Absent]
    /\ run = [w \in Workers |-> NoRun]
    /\ used = {}

-----------------------------------------------------------------------------
(* Helpers                                                                 *)

Stored == {f \in Facts : store[f] # Absent}

At(w, pc)   == run[w].pc = pc
Goto(w, pc) == run' = [run EXCEPT ![w].pc = pc]

\* _assert_exact_match, for all stored records of the facts that e names.
Matches(e) == \A f \in Stored \cap DOMAIN e : store[f] = e[f]

\* The fact that save_many has to deal with next.
Left(w)       == DOMAIN run[w].export \ run[w].saved
IsNext(w, f)  == f \in Left(w) /\ \A g \in Left(w) : f <= g

-----------------------------------------------------------------------------
(* The rule version                                                        *)

\* MongoRuleVersionRepository.save: insert_one, a duplicate changes nothing.
SaveRule ==
    /\ \E s \in Schemas : rule' = IF rule = "none" THEN s ELSE rule
    /\ UNCHANGED <<store, run, used>>

-----------------------------------------------------------------------------
(* FactBindingHandoffService.persist                                       *)

\* Read the rule and prepare the whole export before anything is written.
Begin(w) ==
    /\ run[w].pc \notin Running
    /\ \/ /\ rule # "2.0.0"
          /\ run' = [run EXCEPT ![w] = [NoRun EXCEPT !.pc = IF rule = "none" THEN "not_found"
                                                            ELSE "unsupported"]]
          /\ UNCHANGED used
       \/ /\ rule = "2.0.0"
          /\ \E e \in Exports :
                /\ run' = [run EXCEPT ![w] = [NoRun EXCEPT !.pc = "list", !.export = e]]
                /\ used' = used \cup {e}
    /\ UNCHANGED <<rule, store>>

\* _verify_existing_subset: what is stored for the rule version is part of the export.
ListExisting(w) ==
    LET e == run[w].export
    IN  /\ At(w, "list")
        /\ Goto(w, IF Stored \subseteq DOMAIN e /\ Matches(e) THEN "find" ELSE "conflict")
        /\ UNCHANGED <<rule, store, used>>

\* save_many reads the records of the export again, by their identities.
FindExisting(w) ==
    LET e == run[w].export
    IN  /\ At(w, "find")
        /\ IF Matches(e)
           THEN run' = [run EXCEPT ![w].pc = "insert", ![w].saved = Stored \cap DOMAIN e]
           ELSE Goto(w, "conflict")
        /\ UNCHANGED <<rule, store, used>>

\* insert_one for the next record that is missing.
InsertOverwriting(w, f) ==
    /\ At(w, "insert")
    /\ IsNext(w, f)
    /\ store' = [store EXCEPT ![f] = run[w].export[f]]
    /\ run' = [run EXCEPT ![w].saved = @ \cup {f}, ![w].inserted = @ \cup {f}]
    /\ UNCHANGED <<rule, used>>

InsertOrRefuse(w, f) ==
    /\ At(w, "insert")
    /\ IsNext(w, f)
    /\ IF store[f] = Absent
       THEN /\ store' = [store EXCEPT ![f] = run[w].export[f]]
            /\ run' = [run EXCEPT ![w].saved = @ \cup {f}, ![w].inserted = @ \cup {f}]
       ELSE /\ Goto(w, "conflict")
            /\ UNCHANGED store
    /\ UNCHANGED <<rule, used>>

InsertOne(w, f) ==
    /\ At(w, "insert")
    /\ IsNext(w, f)
    /\ IF store[f] = Absent
       THEN /\ store' = [store EXCEPT ![f] = run[w].export[f]]
            /\ run' = [run EXCEPT ![w].saved = @ \cup {f}, ![w].inserted = @ \cup {f}]
       ELSE /\ Goto(w, "confirm")
            /\ UNCHANGED store
    /\ UNCHANGED <<rule, used>>

\* DuplicateKeyError: another run was first; its record must be the same.
ConfirmConcurrent(w, f) ==
    /\ At(w, "confirm")
    /\ IsNext(w, f)
    /\ IF store[f] = run[w].export[f]
       THEN run' = [run EXCEPT ![w].pc = "insert", ![w].saved = @ \cup {f}]
       ELSE Goto(w, "conflict")
    /\ UNCHANGED <<rule, store, used>>

\* _verify_read_back: exactly the export is stored for the rule version.
ReadBackSubset(w) ==
    LET e == run[w].export
    IN  /\ At(w, "insert")
        /\ Left(w) = {}
        /\ Goto(w, IF DOMAIN e \subseteq Stored /\ Matches(e) THEN "recheck" ELSE "unverified")
        /\ UNCHANGED <<rule, store, used>>

ReadBack(w) ==
    LET e == run[w].export
    IN  /\ At(w, "insert")
        /\ Left(w) = {}
        /\ Goto(w, IF DOMAIN e = Stored /\ Matches(e) THEN "recheck" ELSE "unverified")
        /\ UNCHANGED <<rule, store, used>>

\* The rule version is read once more and must not have changed.
RecheckRule(w) ==
    /\ At(w, "recheck")
    /\ Goto(w, IF rule = "2.0.0" THEN "done" ELSE "unverified")
    /\ UNCHANGED <<rule, store, used>>

\* A command fails, or the process dies: what has been inserted stays.
BreakOff(w) ==
    /\ run[w].pc \in Running
    /\ Goto(w, "unavailable")
    /\ UNCHANGED <<rule, store, used>>

Step(w) ==
    \/ ListExisting(w)
    \/ FindExisting(w)
    \/ \E f \in Facts : InsertOne(w, f) \/ ConfirmConcurrent(w, f)
    \/ ReadBack(w)
    \/ RecheckRule(w)

Next == SaveRule \/ \E w \in Workers : Begin(w) \/ Step(w) \/ BreakOff(w)

Spec == Init /\ [][Next]_vars

-----------------------------------------------------------------------------
(* Properties                                                              *)

\* A record, once stored, is neither changed nor removed, whichever runs race,
\* break off and are repeated, and whatever their exports say of the fact.
RecordsAreImmutable ==
    [][\A f \in Facts : store[f] # Absent => store'[f] = store[f]]_vars

\* Records exist only for a rule version that is stored with schema 2.0.0.
RecordsHaveTheirRule == Stored # {} => rule = "2.0.0"

\* All runs so far have worked with one export, as runs of one release do.
OneExport == \A d, e \in used : d = e

\* A run that reported success keeps having told the truth: its export is
\* stored; and as long as all runs used one export nothing else ever is.
SuccessStaysTrue ==
    \A w \in Workers : At(w, "done") =>
        /\ \A f \in DOMAIN run[w].export : store[f] = run[w].export[f]
        /\ OneExport => Stored = DOMAIN run[w].export

\* Different releases cannot both report the complete set unless one of their
\* exports extends the other: the sets reported are nested, and agree.
ReportsAreNested ==
    \A v, w \in Workers : At(v, "done") /\ At(w, "done") =>
        LET d == run[v].export
            e == run[w].export
        IN  /\ DOMAIN d \subseteq DOMAIN e \/ DOMAIN e \subseteq DOMAIN d
            /\ \A f \in DOMAIN d \cap DOMAIN e : d[f] = e[f]

\* A record is reported as inserted by one run at most: inserted_count tells who
\* wrote it, also when several runs race for the same fact.
InsertsAreClaimedOnce ==
    \A v, w \in Workers : v # w => run[v].inserted \cap run[w].inserted = {}

\* Runs of one deterministic export never end in a conflict or a failed
\* verification, in whatever state the runs before them broke off: a retry is
\* always safe.
OneExportNeverConflicts ==
    OneExport =>
        \A w \in Workers : run[w].pc \notin {"conflict", "unverified"}

=============================================================================
