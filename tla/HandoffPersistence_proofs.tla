--------------------- MODULE HandoffPersistence_proofs ---------------------
(***************************************************************************)
(* Theorems about HandoffPersistence, for any number of workers, any facts *)
(* and payloads and any set of exports.                                    *)
(***************************************************************************)
EXTENDS HandoffPersistence, TLAPS

-----------------------------------------------------------------------------
(* The inductive invariant                                                 *)

\* The states in which a run relies on the export it has begun with.
Committed == Running \cup {"done", "conflict", "unverified"}

\* A run that has seen the complete set of its export stored.
Complete == {"recheck", "done"}

\* What a run knows of the collection: what it takes as saved is stored as its
\* export has it, a duplicate key is due to a record that is still there, and a
\* run past the verification has saved all of its export.
RunInvOf(w) ==
    /\ run[w].pc \in Committed => rule = "2.0.0" /\ run[w].export \in used
    /\ run[w].inserted \subseteq run[w].saved
    /\ run[w].saved \subseteq DOMAIN run[w].export
    /\ \A f \in run[w].saved : store[f] # Absent /\ store[f] = run[w].export[f]
    /\ At(w, "confirm") => \A f \in Facts : IsNext(w, f) => store[f] # Absent
    /\ run[w].pc \in Complete => DOMAIN run[w].export \subseteq run[w].saved

RunInv == \A w \in Workers : RunInvOf(w)

\* Every record is there because some run's export has it.
StoreInv == \A f \in Stored : \E e \in used : f \in DOMAIN e /\ store[f] = e[f]

\* The sets that runs found complete are nested.
CompleteNested ==
    \A v, w \in Workers : run[v].pc \in Complete /\ run[w].pc \in Complete =>
        \/ DOMAIN run[v].export \subseteq DOMAIN run[w].export
        \/ DOMAIN run[w].export \subseteq DOMAIN run[v].export

IInv == /\ TypeOK
        /\ RunInv
        /\ StoreInv
        /\ RecordsHaveTheirRule
        /\ CompleteNested
        /\ InsertsAreClaimedOnce
        /\ OneExportNeverConflicts

\* The invariant holds initially.
LEMMA InitIInv == Init => IInv
<1> SUFFICES ASSUME Init PROVE IInv
  OBVIOUS
<1>1. TypeOK
  BY DEF Init, TypeOK, NoRun, NoExport
<1>2. \A w \in Workers : run[w].pc = "idle" /\ run[w].inserted = {} /\ run[w].saved = {}
  BY DEF Init, NoRun
<1>3. Stored = {}
  BY DEF Init, Stored
<1>4. RunInv
  BY <1>2 DEF RunInv, RunInvOf, Committed, Complete, Running, At
<1>5. StoreInv /\ RecordsHaveTheirRule
  BY <1>3 DEF StoreInv, RecordsHaveTheirRule
<1>6. CompleteNested /\ InsertsAreClaimedOnce /\ OneExportNeverConflicts
  BY <1>2 DEF CompleteNested, Complete, InsertsAreClaimedOnce, OneExportNeverConflicts
<1> QED
  BY <1>1, <1>4, <1>5, <1>6 DEF IInv

-----------------------------------------------------------------------------
(* Steps that leave the collection alone                                   *)

\* What a run knows stays true while others only add records and exports.
LEMMA OthersKeep ==
    ASSUME NEW v \in Workers, RunInvOf(v), run'[v] = run[v], UNCHANGED rule,
           used \subseteq used',
           \A f \in Facts : store[f] # Absent => store'[f] = store[f],
           run[v].saved \subseteq Facts
    PROVE  RunInvOf(v)'
BY DEF RunInvOf, At, IsNext, Left

\* The records of runs that use one export are that export's.
LEMMA OneExportStored ==
    ASSUME IInv, OneExport, NEW w \in Workers, run[w].pc \in Committed
    PROVE  /\ Stored \subseteq DOMAIN run[w].export
           /\ Matches(run[w].export)
<1>1. run[w].export \in used
  BY DEF IInv, RunInv, RunInvOf
<1>2. \A f \in Stored : f \in DOMAIN run[w].export /\ store[f] = run[w].export[f]
  BY <1>1 DEF IInv, StoreInv, OneExport
<1> QED
  BY <1>2 DEF Matches

\* A step of w that changes only the run of w, keeps its export and claims no
\* insert keeps the invariant, provided that w knows what it should, is complete
\* only when the whole collection is its export, and fails in a conflict only
\* when there are two exports.
LEMMA RunStepKeeps ==
    ASSUME IInv, NEW w \in Workers, UNCHANGED <<rule, store, used>>,
           NEW r,
           r \in [pc : Running \cup Failures \cup {"idle", "done"}, export : {run[w].export},
                  saved : SUBSET Facts, inserted : {run[w].inserted}],
           run' = [run EXCEPT ![w] = r],
           RunInvOf(w)',
           r.pc \in Complete => \/ run[w].pc \in Complete
                                \/ Stored = DOMAIN run[w].export,
           OneExport => r.pc \notin {"conflict", "unverified"}
    PROVE  IInv'
<1> USE DEF IInv
<1>1. /\ run'[w] = r
      /\ \A v \in Workers : v # w => run'[v] = run[v]
      /\ r.export = run[w].export
      /\ r.inserted = run[w].inserted
  BY DEF TypeOK
<1>2. TypeOK'
  BY DEF TypeOK
<1>3. RunInv'
  <2>1. ASSUME NEW v \in Workers, v # w PROVE RunInvOf(v)'
    BY <1>1, <2>1, OthersKeep DEF RunInv, TypeOK
  <2> QED
    BY <2>1 DEF RunInv
<1>4. StoreInv' /\ RecordsHaveTheirRule'
  BY DEF StoreInv, RecordsHaveTheirRule, Stored
<1>5. CompleteNested'
  <2>1. \A v \in Workers : run[v].pc \in Complete => DOMAIN run[v].export \subseteq Stored
    BY DEF RunInv, RunInvOf, Stored, TypeOK
  <2>2. \A v \in Workers : run'[v].export = run[v].export
    BY <1>1
  <2> QED
    BY <1>1, <2>1, <2>2 DEF CompleteNested
<1>6. InsertsAreClaimedOnce'
  BY <1>1 DEF InsertsAreClaimedOnce
<1>7. OneExportNeverConflicts'
  BY <1>1 DEF OneExportNeverConflicts, OneExport
<1> QED
  BY <1>2, <1>3, <1>4, <1>5, <1>6, <1>7

-----------------------------------------------------------------------------
(* One lemma per action                                                    *)

LEMMA SaveRuleKeeps == IInv /\ SaveRule => IInv'
<1> SUFFICES ASSUME IInv, SaveRule PROVE IInv'
  OBVIOUS
<1> USE DEF IInv
<1>1. PICK s \in Schemas : rule' = IF rule = "none" THEN s ELSE rule
  BY DEF SaveRule
<1>2. UNCHANGED <<store, run, used>>
  BY DEF SaveRule
<1>3. TypeOK'
  BY <1>1, <1>2 DEF TypeOK
<1>4. RunInv'
  BY <1>1, <1>2 DEF RunInv, RunInvOf, At, IsNext, Left
<1>5. StoreInv' /\ RecordsHaveTheirRule'
  BY <1>1, <1>2 DEF StoreInv, RecordsHaveTheirRule, Stored
<1>6. CompleteNested' /\ InsertsAreClaimedOnce' /\ OneExportNeverConflicts'
  BY <1>2 DEF CompleteNested, InsertsAreClaimedOnce, OneExportNeverConflicts, OneExport
<1> QED
  BY <1>3, <1>4, <1>5, <1>6

\* A new run knows nothing yet; if it brings a second export, conflicts are due.
LEMMA BeginKeeps == ASSUME IInv, NEW w \in Workers, Begin(w) PROVE IInv'
<1> USE DEF IInv
<1> DEFINE NewRun(r) ==
             /\ run' = [run EXCEPT ![w] = r]
             /\ r \in [pc : {"list", "not_found", "unsupported"}, export : Exports \cup {NoExport},
                       saved : {{}}, inserted : {{}}]
             /\ used \subseteq used' /\ used' \subseteq Exports
             /\ r.pc = "list" => rule = "2.0.0" /\ r.export \in used'
             /\ \A e \in used' \ used : r.export = e /\ r.pc = "list"
<1>1. PICK r : NewRun(r)
  <2>1. CASE /\ rule # "2.0.0"
             /\ run' = [run EXCEPT ![w] = [NoRun EXCEPT !.pc = IF rule = "none" THEN "not_found"
                                                               ELSE "unsupported"]]
             /\ UNCHANGED used
    <3>1. NewRun([NoRun EXCEPT !.pc = IF rule = "none" THEN "not_found" ELSE "unsupported"])
      BY <2>1 DEF NoRun, TypeOK
    <3> QED
      BY <3>1
  <2>2. ASSUME NEW e \in Exports, rule = "2.0.0",
               run' = [run EXCEPT ![w] = [NoRun EXCEPT !.pc = "list", !.export = e]],
               used' = used \cup {e}
        PROVE  \E r : NewRun(r)
    <3>1. NewRun([NoRun EXCEPT !.pc = "list", !.export = e])
      BY <2>2 DEF NoRun, TypeOK
    <3> QED
      BY <3>1
  <2> QED
    BY <2>1, <2>2 DEF Begin
<1>2. UNCHANGED <<rule, store>>
  BY DEF Begin
<1>3. /\ run'[w] = r
      /\ \A v \in Workers : v # w => run'[v] = run[v]
  BY <1>1 DEF TypeOK
<1>4. TypeOK'
  BY <1>1, <1>2 DEF TypeOK, Running, Failures
<1>5. RunInv'
  <2>1. ASSUME NEW v \in Workers, v # w PROVE RunInvOf(v)'
    BY <1>1, <1>2, <1>3, <2>1, OthersKeep DEF RunInv, TypeOK
  <2>2. RunInvOf(w)'
    BY <1>1, <1>2, <1>3 DEF RunInvOf, Committed, Complete, Running, At
  <2> QED
    BY <2>1, <2>2 DEF RunInv
<1>6. StoreInv' /\ RecordsHaveTheirRule'
  BY <1>1, <1>2 DEF StoreInv, RecordsHaveTheirRule, Stored
<1>7. CompleteNested' /\ InsertsAreClaimedOnce'
  BY <1>1, <1>3 DEF CompleteNested, Complete, InsertsAreClaimedOnce
<1>8. OneExportNeverConflicts'
  BY <1>1, <1>3 DEF OneExportNeverConflicts, OneExport
<1> QED
  BY <1>4, <1>5, <1>6, <1>7, <1>8

LEMMA ListExistingKeeps == ASSUME IInv, NEW w \in Workers, ListExisting(w) PROVE IInv'
<1> DEFINE e == run[w].export
           pc == IF Stored \subseteq DOMAIN e /\ Matches(e) THEN "find" ELSE "conflict"
           r  == [run[w] EXCEPT !.pc = pc]
<1>1. /\ run[w].pc = "list"
      /\ run' = [run EXCEPT ![w] = r]
      /\ UNCHANGED <<rule, store, used>>
  BY DEF ListExisting, At, Goto
<1>2. run[w].pc \in Committed
  BY <1>1 DEF Committed, Running
<1>3. run' [w] = r /\ RunInvOf(w)
  BY <1>1 DEF IInv, TypeOK, RunInv
<1>4. RunInvOf(w)'
  BY <1>1, <1>2, <1>3 DEF RunInvOf, IInv, TypeOK, Committed, Complete, Running, At
<1>5. OneExport => pc # "conflict"
  BY <1>2, OneExportStored
<1>6. r \in [pc : Running \cup Failures \cup {"idle", "done"}, export : {run[w].export},
             saved : SUBSET Facts, inserted : {run[w].inserted}]
  BY DEF IInv, TypeOK, Running, Failures
<1>7. r.pc = pc
  BY DEF IInv, TypeOK
<1> QED
  <2> HIDE DEF r
  <2> QED
    BY <1>1, <1>4, <1>5, <1>6, <1>7, RunStepKeeps DEF Complete

\* What is stored of the export is taken as saved.
LEMMA FindExistingKeeps == ASSUME IInv, NEW w \in Workers, FindExisting(w) PROVE IInv'
<1> DEFINE e == run[w].export
<1>1. run[w].pc = "find" /\ UNCHANGED <<rule, store, used>> /\ RunInvOf(w)
  BY DEF FindExisting, At, IInv, RunInv
<1>2. run[w].pc \in Committed /\ run[w].pc \notin Complete
  BY <1>1 DEF Committed, Complete, Running
<1>3. CASE Matches(e)
  <2> DEFINE r == [run[w] EXCEPT !.pc = "insert", !.saved = Stored \cap DOMAIN e]
  <2>1. run' = [run EXCEPT ![w] = r]
    BY <1>3 DEF FindExisting, IInv, TypeOK
  <2>2. /\ r \in [pc : Running \cup Failures \cup {"idle", "done"}, export : {e},
                  saved : SUBSET Facts, inserted : {run[w].inserted}]
        /\ r.pc = "insert" /\ r.saved = Stored \cap DOMAIN e
    BY DEF IInv, TypeOK, Running, Stored
  <2> HIDE DEF r
  <2>3. run'[w] = r
    BY <2>1 DEF IInv, TypeOK
  <2>4. run[w].inserted \subseteq Stored \cap DOMAIN e
    BY <1>1 DEF RunInvOf, Stored, IInv, TypeOK
  <2>5. RunInvOf(w)'
    BY <1>1, <1>2, <1>3, <2>2, <2>3, <2>4
    DEF RunInvOf, Committed, Complete, Running, At, Matches, Stored
  <2> QED
    BY <1>1, <2>1, <2>2, <2>5, RunStepKeeps DEF Complete
<1>4. CASE ~Matches(e)
  <2> DEFINE r == [run[w] EXCEPT !.pc = "conflict"]
  <2>1. run' = [run EXCEPT ![w] = r]
    BY <1>4 DEF FindExisting, Goto
  <2>2. /\ r \in [pc : Running \cup Failures \cup {"idle", "done"}, export : {e},
                  saved : SUBSET Facts, inserted : {run[w].inserted}]
        /\ r.pc = "conflict" /\ r.saved = run[w].saved
    BY DEF IInv, TypeOK, Failures
  <2> HIDE DEF r
  <2>3. run'[w] = r
    BY <2>1 DEF IInv, TypeOK
  <2>4. RunInvOf(w)'
    BY <1>1, <1>2, <2>2, <2>3 DEF RunInvOf, Committed, Complete, Running, At
  <2>5. ~OneExport
    BY <1>2, <1>4, OneExportStored
  <2> QED
    BY <1>1, <2>1, <2>2, <2>4, <2>5, RunStepKeeps DEF Complete
<1> QED
  BY <1>3, <1>4

\* A fact that is next is the only one that is.
LEMMA OnlyNext ==
    ASSUME NEW w \in Workers, NEW f \in Facts, NEW g \in Facts, IsNext(w, f), IsNext(w, g)
    PROVE  f = g
BY FactsAssumption DEF IsNext

LEMMA ConfirmConcurrentKeeps ==
    ASSUME IInv, NEW w \in Workers, NEW f \in Facts, ConfirmConcurrent(w, f) PROVE IInv'
<1> DEFINE e == run[w].export
<1>1. /\ run[w].pc = "confirm" /\ IsNext(w, f) /\ UNCHANGED <<rule, store, used>>
      /\ RunInvOf(w)
  BY DEF ConfirmConcurrent, At, IInv, RunInv
<1>2. /\ run[w].pc \in Committed /\ run[w].pc \notin Complete
      /\ store[f] # Absent /\ f \in DOMAIN e
  BY <1>1 DEF RunInvOf, At, Committed, Complete, Running, IsNext, Left
<1>3. CASE store[f] = e[f]
  <2> DEFINE r == [run[w] EXCEPT !.pc = "insert", !.saved = @ \cup {f}]
  <2>1. run' = [run EXCEPT ![w] = r]
    BY <1>3 DEF ConfirmConcurrent, IInv, TypeOK
  <2>2. /\ r \in [pc : Running \cup Failures \cup {"idle", "done"}, export : {e},
                  saved : SUBSET Facts, inserted : {run[w].inserted}]
        /\ r.pc = "insert" /\ r.saved = run[w].saved \cup {f}
    BY DEF IInv, TypeOK, Running
  <2> HIDE DEF r
  <2>3. run'[w] = r
    BY <2>1 DEF IInv, TypeOK
  <2>4. RunInvOf(w)'
    BY <1>1, <1>2, <1>3, <2>2, <2>3 DEF RunInvOf, Committed, Complete, Running, At
  <2> QED
    BY <1>1, <2>1, <2>2, <2>4, RunStepKeeps DEF Complete
<1>4. CASE store[f] # e[f]
  <2> DEFINE r == [run[w] EXCEPT !.pc = "conflict"]
  <2>1. run' = [run EXCEPT ![w] = r]
    BY <1>4 DEF ConfirmConcurrent, Goto
  <2>2. /\ r \in [pc : Running \cup Failures \cup {"idle", "done"}, export : {e},
                  saved : SUBSET Facts, inserted : {run[w].inserted}]
        /\ r.pc = "conflict" /\ r.saved = run[w].saved
    BY DEF IInv, TypeOK, Failures
  <2> HIDE DEF r
  <2>3. run'[w] = r
    BY <2>1 DEF IInv, TypeOK
  <2>4. RunInvOf(w)'
    BY <1>1, <1>2, <2>2, <2>3 DEF RunInvOf, Committed, Complete, Running, At
  <2>5. ~OneExport
    BY <1>2, <1>4, OneExportStored DEF Matches, Stored
  <2> QED
    BY <1>1, <2>1, <2>2, <2>4, <2>5, RunStepKeeps DEF Complete
<1> QED
  BY <1>3, <1>4

LEMMA ReadBackKeeps == ASSUME IInv, NEW w \in Workers, ReadBack(w) PROVE IInv'
<1> DEFINE e  == run[w].export
           pc == IF DOMAIN e = Stored /\ Matches(e) THEN "recheck" ELSE "unverified"
           r  == [run[w] EXCEPT !.pc = pc]
<1>1. /\ run[w].pc = "insert" /\ DOMAIN e \subseteq run[w].saved
      /\ run' = [run EXCEPT ![w] = r]
      /\ UNCHANGED <<rule, store, used>> /\ RunInvOf(w)
  BY DEF ReadBack, At, Goto, Left, IInv, RunInv
<1>2. run[w].pc \in Committed
  BY <1>1 DEF Committed, Running
<1>3. /\ r \in [pc : Running \cup Failures \cup {"idle", "done"}, export : {e},
                saved : SUBSET Facts, inserted : {run[w].inserted}]
      /\ r.pc = pc /\ r.saved = run[w].saved
  BY DEF IInv, TypeOK, Running, Failures
<1>4. OneExport => pc # "unverified"
  <2>1. DOMAIN e \subseteq Stored
    BY <1>1 DEF RunInvOf, Stored, IInv, TypeOK
  <2> QED
    BY <1>2, <2>1, OneExportStored
<1>5. pc \in Complete => Stored = DOMAIN e
  BY DEF Complete
<1>6. pc \in {"recheck", "unverified"}
  OBVIOUS
<1> HIDE DEF pc, r
<1>7. run'[w] = r
  BY <1>1 DEF IInv, TypeOK
<1>8. RunInvOf(w)'
  BY <1>1, <1>2, <1>3, <1>6, <1>7 DEF RunInvOf, Committed, Complete, Running, At
<1> QED
  BY <1>1, <1>3, <1>4, <1>5, <1>6, <1>8, RunStepKeeps

LEMMA RecheckRuleKeeps == ASSUME IInv, NEW w \in Workers, RecheckRule(w) PROVE IInv'
<1> DEFINE r == [run[w] EXCEPT !.pc = "done"]
<1>1. run[w].pc = "recheck" /\ UNCHANGED <<rule, store, used>> /\ RunInvOf(w)
  BY DEF RecheckRule, At, IInv, RunInv
<1>2. run[w].pc \in Committed /\ run[w].pc \in Complete /\ rule = "2.0.0"
  BY <1>1 DEF RunInvOf, Committed, Complete, Running
<1>3. run' = [run EXCEPT ![w] = r]
  BY <1>2 DEF RecheckRule, Goto
<1>4. /\ r \in [pc : Running \cup Failures \cup {"idle", "done"}, export : {run[w].export},
                saved : SUBSET Facts, inserted : {run[w].inserted}]
      /\ r.pc = "done" /\ r.saved = run[w].saved
  BY DEF IInv, TypeOK
<1> HIDE DEF r
<1>5. run'[w] = r
  BY <1>3 DEF IInv, TypeOK
<1>6. RunInvOf(w)'
  BY <1>1, <1>2, <1>4, <1>5 DEF RunInvOf, Committed, Complete, At
<1> QED
  BY <1>1, <1>2, <1>3, <1>4, <1>6, RunStepKeeps

LEMMA BreakOffKeeps == ASSUME IInv, NEW w \in Workers, BreakOff(w) PROVE IInv'
<1> DEFINE r == [run[w] EXCEPT !.pc = "unavailable"]
<1>1. /\ run' = [run EXCEPT ![w] = r]
      /\ UNCHANGED <<rule, store, used>> /\ RunInvOf(w)
  BY DEF BreakOff, Goto, IInv, RunInv
<1>2. /\ r \in [pc : Running \cup Failures \cup {"idle", "done"}, export : {run[w].export},
                saved : SUBSET Facts, inserted : {run[w].inserted}]
      /\ r.pc = "unavailable" /\ r.saved = run[w].saved
  BY DEF IInv, TypeOK, Failures
<1> HIDE DEF r
<1>3. run'[w] = r
  BY <1>1 DEF IInv, TypeOK
<1>4. RunInvOf(w)'
  BY <1>1, <1>2, <1>3 DEF RunInvOf, Committed, Complete, Running, At
<1> QED
  BY <1>1, <1>2, <1>4, RunStepKeeps DEF Complete

LEMMA InsertOneKeeps ==
    ASSUME IInv, NEW w \in Workers, NEW f \in Facts, InsertOne(w, f) PROVE IInv'
<1> DEFINE e == run[w].export
<1>1. /\ run[w].pc = "insert" /\ IsNext(w, f) /\ UNCHANGED <<rule, used>>
      /\ RunInvOf(w)
  BY DEF InsertOne, At, IInv, RunInv
<1>2. /\ run[w].pc \in Committed /\ run[w].pc \notin Complete
      /\ f \in DOMAIN e /\ f \notin run[w].saved
      /\ rule = "2.0.0" /\ e \in used /\ e \in Exports
  BY <1>1 DEF RunInvOf, Committed, Complete, Running, IsNext, Left, IInv, TypeOK
<1>3. CASE store[f] = Absent
  <2> DEFINE r == [run[w] EXCEPT !.saved = @ \cup {f}, !.inserted = @ \cup {f}]
  <2>1. run' = [run EXCEPT ![w] = r] /\ store' = [store EXCEPT ![f] = e[f]]
    BY <1>3 DEF InsertOne, IInv, TypeOK
  <2>2. /\ r \in [pc : {"insert"}, export : {e}, saved : SUBSET Facts, inserted : SUBSET Facts]
        /\ r.saved = run[w].saved \cup {f} /\ r.inserted = run[w].inserted \cup {f}
    BY <1>1 DEF IInv, TypeOK
  <2> HIDE DEF r
  <2>3. e[f] \in Payloads /\ e[f] # Absent
    BY <1>2, ExportsAssumption, AbsentAssumption
  <2>4. /\ run'[w] = r
        /\ \A v \in Workers : v # w => run'[v] = run[v]
        /\ store'[f] = e[f]
        /\ \A g \in Facts : g # f => store'[g] = store[g]
    BY <2>1 DEF IInv, TypeOK
  <2>5. TypeOK'
    BY <1>1, <2>1, <2>2, <2>3 DEF IInv, TypeOK, Running
  <2>6. RunInv'
    <3>1. ASSUME NEW v \in Workers, v # w PROVE RunInvOf(v)'
      BY <1>1, <1>3, <2>4, <3>1, OthersKeep DEF IInv, RunInv, TypeOK
    <3>2. RunInvOf(w)'
      BY <1>1, <1>2, <1>3, <2>2, <2>3, <2>4
      DEF RunInvOf, Committed, Complete, Running, At, IInv, TypeOK
    <3> QED
      BY <3>1, <3>2 DEF RunInv
  <2>7. Stored' = Stored \cup {f}
    BY <2>3, <2>4 DEF Stored
  <2>8. StoreInv'
    BY <1>1, <1>2, <1>3, <2>4, <2>7 DEF IInv, StoreInv, Stored
  <2>9. RecordsHaveTheirRule'
    BY <1>1, <1>2 DEF RecordsHaveTheirRule
  <2>10. CompleteNested'
    BY <2>2, <2>4 DEF IInv, CompleteNested, Complete
  <2>11. InsertsAreClaimedOnce'
    <3>1. \A v \in Workers : f \notin run[v].inserted
      BY <1>3 DEF IInv, RunInv, RunInvOf
    <3> QED
      BY <2>2, <2>4, <3>1 DEF IInv, InsertsAreClaimedOnce
  <2>12. OneExportNeverConflicts'
    BY <1>1, <2>2, <2>4 DEF IInv, OneExportNeverConflicts, OneExport
  <2> QED
    BY <2>5, <2>6, <2>8, <2>9, <2>10, <2>11, <2>12 DEF IInv
<1>4. CASE store[f] # Absent
  <2> DEFINE r == [run[w] EXCEPT !.pc = "confirm"]
  <2>1. run' = [run EXCEPT ![w] = r] /\ UNCHANGED store
    BY <1>4 DEF InsertOne, Goto
  <2>2. /\ r \in [pc : Running \cup Failures \cup {"idle", "done"}, export : {e},
                  saved : SUBSET Facts, inserted : {run[w].inserted}]
        /\ r.pc = "confirm" /\ r.saved = run[w].saved
    BY DEF IInv, TypeOK, Running
  <2> HIDE DEF r
  <2>3. run'[w] = r
    BY <2>1 DEF IInv, TypeOK
  <2>4. ASSUME NEW g \in Facts, IsNext(w, g)' PROVE store'[g] # Absent
    <3>1. IsNext(w, g)
      BY <2>2, <2>3, <2>4 DEF IsNext, Left
    <3> QED
      BY <1>1, <1>4, <2>1, <3>1, OnlyNext
  <2>5. RunInvOf(w)'
    BY <1>1, <1>2, <2>1, <2>2, <2>3, <2>4 DEF RunInvOf, Committed, Complete, Running, At
  <2> QED
    BY <1>1, <2>1, <2>2, <2>5, RunStepKeeps DEF Complete
<1> QED
  BY <1>3, <1>4

LEMMA NextIInv == IInv /\ [Next]_vars => IInv'
<1> SUFFICES ASSUME IInv, [Next]_vars PROVE IInv'
  OBVIOUS
<1>1. CASE SaveRule
  BY <1>1, SaveRuleKeeps
<1>2. ASSUME NEW w \in Workers, Begin(w) PROVE IInv'
  BY <1>2, BeginKeeps
<1>3. ASSUME NEW w \in Workers, Step(w) PROVE IInv'
  <2>1. CASE ListExisting(w)
    BY <2>1, ListExistingKeeps
  <2>2. CASE FindExisting(w)
    BY <2>2, FindExistingKeeps
  <2>3. ASSUME NEW f \in Facts, InsertOne(w, f) PROVE IInv'
    BY <2>3, InsertOneKeeps
  <2>4. ASSUME NEW f \in Facts, ConfirmConcurrent(w, f) PROVE IInv'
    BY <2>4, ConfirmConcurrentKeeps
  <2>5. CASE ReadBack(w)
    BY <2>5, ReadBackKeeps
  <2>6. CASE RecheckRule(w)
    BY <2>6, RecheckRuleKeeps
  <2> QED
    BY <1>3, <2>1, <2>2, <2>3, <2>4, <2>5, <2>6 DEF Step
<1>4. ASSUME NEW w \in Workers, BreakOff(w) PROVE IInv'
  BY <1>4, BreakOffKeeps
<1>5. CASE UNCHANGED vars
  BY <1>5 DEF vars, IInv, TypeOK, RunInv, RunInvOf, StoreInv, RecordsHaveTheirRule, CompleteNested,
              InsertsAreClaimedOnce, OneExportNeverConflicts, OneExport, Stored, At, IsNext, Left
<1> QED
  BY <1>1, <1>2, <1>3, <1>4, <1>5 DEF Next

LEMMA Invariance == Spec => []IInv
<1> QED
  BY InitIInv, NextIInv, PTL DEF Spec

-----------------------------------------------------------------------------
(* The theorems                                                            *)

\* The variables keep their types.
THEOREM TypeCorrect == Spec => []TypeOK
<1>1. IInv => TypeOK
  BY DEF IInv
<1> QED
  BY <1>1, Invariance, PTL

\* insert_one is the only write, and it is refused where a record exists: no run
\* of persist() ever changes or removes a handoff.
THEOREM Immutability == Spec => RecordsAreImmutable
<1>1. IInv /\ [Next]_vars => [\A f \in Facts : store[f] # Absent => store'[f] = store[f]]_vars
  <2> SUFFICES ASSUME IInv, Next, NEW f \in Facts, store[f] # Absent PROVE store'[f] = store[f]
    OBVIOUS
  <2>1. ASSUME NEW w \in Workers, NEW g \in Facts, InsertOne(w, g) PROVE store'[f] = store[f]
    BY <2>1 DEF InsertOne, IInv, TypeOK
  <2> QED
    BY <2>1 DEF Next, Step, SaveRule, Begin, ListExisting, FindExisting, ConfirmConcurrent,
                ReadBack, RecheckRule, BreakOff
<1> QED
  BY <1>1, Invariance, PTL DEF Spec, RecordsAreImmutable

\* No handoff without a stored rule version of schema 2.0.0.
THEOREM RecordsComeFromRules == Spec => []RecordsHaveTheirRule
<1>1. IInv => RecordsHaveTheirRule
  BY DEF IInv
<1> QED
  BY <1>1, Invariance, PTL

\* What persist() reported as stored stays stored.
THEOREM SuccessLasts == Spec => []SuccessStaysTrue
<1>1. IInv => SuccessStaysTrue
  <2> SUFFICES ASSUME IInv, NEW w \in Workers, run[w].pc = "done"
               PROVE  /\ \A f \in DOMAIN run[w].export : store[f] = run[w].export[f]
                      /\ OneExport => Stored = DOMAIN run[w].export
    BY DEF SuccessStaysTrue, At
  <2>1. RunInvOf(w) /\ run[w].pc \in Committed /\ run[w].pc \in Complete
    BY DEF IInv, RunInv, Committed, Complete
  <2>2. \A f \in DOMAIN run[w].export : store[f] # Absent /\ store[f] = run[w].export[f]
    BY <2>1 DEF RunInvOf
  <2>3. DOMAIN run[w].export \subseteq Stored
    BY <2>1, <2>2 DEF RunInvOf, Stored, IInv, TypeOK
  <2> QED
    BY <2>1, <2>2, <2>3, OneExportStored
<1> QED
  BY <1>1, Invariance, PTL

\* Any two successful runs of any two exports agree and are nested.
THEOREM ReportsNest == Spec => []ReportsAreNested
<1>1. IInv => ReportsAreNested
  <2> SUFFICES ASSUME IInv, NEW v \in Workers, NEW w \in Workers,
                      run[v].pc = "done", run[w].pc = "done"
               PROVE  LET d == run[v].export
                          e == run[w].export
                      IN  /\ DOMAIN d \subseteq DOMAIN e \/ DOMAIN e \subseteq DOMAIN d
                          /\ \A f \in DOMAIN d \cap DOMAIN e : d[f] = e[f]
    BY DEF ReportsAreNested, At
  <2>1. /\ run[v].pc \in Complete /\ run[w].pc \in Complete
        /\ RunInvOf(v) /\ RunInvOf(w)
    BY DEF IInv, RunInv, Complete
  <2> QED
    BY <2>1 DEF IInv, CompleteNested, RunInvOf
<1> QED
  BY <1>1, Invariance, PTL

\* inserted_count never counts a record twice.
THEOREM InsertsClaimedOnce == Spec => []InsertsAreClaimedOnce
<1>1. IInv => InsertsAreClaimedOnce
  BY DEF IInv
<1> QED
  BY <1>1, Invariance, PTL

\* Retries and concurrent runs of one exporter end in success or in an outage,
\* never in a conflict.
THEOREM OneExportIsSafe == Spec => []OneExportNeverConflicts
<1>1. IInv => OneExportNeverConflicts
  BY DEF IInv
<1> QED
  BY <1>1, Invariance, PTL

=============================================================================
