------------------------- MODULE Migrations_proofs -------------------------
(***************************************************************************)
(* Theorems about Migrations, for any set of processes, of this release or *)
(* of the next, any number of schema versions and any accepted targets.    *)
(***************************************************************************)
EXTENDS Migrations, TLAPS, WellFoundedInduction

\* A release accepts targets up to the last version that it knows.
LEMMA TargetFacts ==
    ASSUME NEW p \in Processes, NEW t \in TargetsOf(p)
    PROVE  t \in Targets \cup {Latest + 1} /\ t \in 1 .. Latest + 1
BY LatestAssumption, TargetAssumption DEF TargetsOf

-----------------------------------------------------------------------------
(* The highest record                                                      *)

\* A set of natural numbers that is not empty has a least element.
LEMMA LeastElement ==
    ASSUME NEW T, T \subseteq Nat, T # {}
    PROVE  \E m \in T : \A n \in T : m <= n
<1> DEFINE Below == {ss \in Nat \X Nat : ss[1] < ss[2]}
<1>1. OpToRel(<, Nat) = Below
  BY DEF OpToRel
<1>2. PICK m \in T : \A n \in T : ~(<<n, m>> \in Below)
  BY <1>1, NatLessThanWellFounded, WFMin
<1>3. \A n \in T : m <= n
  <2> TAKE n \in T
  <2>1. ~(n < m)
    BY <1>2
  <2> QED
    BY <2>1
<1> QED
  BY <1>3

\* Where the records have no gap they are 1 .. n, and n is the highest record.
LEMMA HighestRecordValue ==
    ASSUME TypeOK, RecordsHaveNoGap
    PROVE  /\ HighestRecord \in 0 .. Latest + 1
           /\ records = 1 .. HighestRecord
<1> DEFINE Missing == {m \in Nat : m # 0 /\ m \notin records}
<1>1. Latest + 2 \in Missing
  BY LatestAssumption DEF TypeOK, Versions
<1>2. PICK m \in Missing : \A n \in Missing : m <= n
  BY <1>1, LeastElement
<1>3. m \in 1 .. Latest + 2
  BY <1>1, <1>2, LatestAssumption
<1>4. records = 1 .. (m - 1)
  <2>1. ASSUME NEW v \in records PROVE v \in 1 .. (m - 1)
    BY <1>2, <1>3, <2>1, LatestAssumption DEF TypeOK, Versions, RecordsHaveNoGap
  <2>2. ASSUME NEW v \in 1 .. (m - 1) PROVE v \in records
    <3>1. v \in Nat /\ v # 0 /\ ~(m <= v)
      BY <1>3, <2>2, LatestAssumption
    <3> QED
      BY <1>2, <3>1
  <2> QED
    BY <2>1, <2>2
<1>5. CASE records = {}
  BY <1>3, <1>4, <1>5, LatestAssumption DEF HighestRecord
<1>6. CASE records # {}
  <2>1. m - 1 \in records /\ \A w \in records : w <= m - 1
    BY <1>3, <1>4, <1>6, LatestAssumption
  <2>2. \A x \in records : (\A w \in records : w <= x) => x = m - 1
    BY <1>3, <1>4, <2>1, LatestAssumption
  <2>3. HighestRecord = m - 1
    BY <1>6, <2>1, <2>2 DEF HighestRecord
  <2> QED
    BY <1>3, <1>4, <2>3, LatestAssumption
<1> QED
  BY <1>5, <1>6

-----------------------------------------------------------------------------
(* The inductive invariant                                                 *)

\* What a process in the loop has behind it and relies on: every version below
\* its cursor and every version it saw recorded is recorded, and the commands it has
\* sent have had their effect.
LoopInvOf(p) ==
    /\ At(p, "latest") => proc[p].cursor = 1
    /\ proc[p].pc \in {"find"} \cup Applying =>
          /\ 1 .. (proc[p].cursor - 1) \subseteq records
          /\ 1 .. proc[p].recorded \subseteq records
    /\ proc[p].pc \in Applying => proc[p].cursor <= proc[p].target
    /\ proc[p].pc \in {"indexes", "stamp", "insert"} =>
          <<proc[p].cursor, "collections">> \in built
    /\ proc[p].pc \in {"stamp", "insert"} => <<proc[p].cursor, "indexes">> \in built
    /\ At(p, "done") => 1 .. proc[p].result \subseteq records

LoopInv == \A p \in Processes : LoopInvOf(p)

IInv == TypeOK /\ RecordsHaveNoGap /\ RecordedMeansBuilt /\ LoopInv

\* The range of a cursor and of a target.
LEMMA ProcessRanges ==
    ASSUME TypeOK, NEW p \in Processes
    PROVE  proc[p].cursor \in 1 .. Latest + 2 /\ proc[p].target \in 1 .. Latest + 1
<1>1. \A t \in Targets \cup {Latest + 1} : t \in 1 .. Latest + 1
  BY LatestAssumption, TargetAssumption
<1>2. proc[p].cursor \in 1 .. Latest + 2 /\ proc[p].target \in Targets \cup {Latest + 1}
  BY DEF TypeOK
<1> QED
  BY <1>1, <1>2

\* What a process applies is a version that the targets admit.
LEMMA AppliedVersion ==
    ASSUME TypeOK, LoopInv, NEW p \in Processes, proc[p].pc \in Applying
    PROVE  proc[p].cursor \in Versions
<1>1. proc[p].cursor <= proc[p].target
  BY DEF LoopInv, LoopInvOf
<1> QED
  BY <1>1, ProcessRanges, LatestAssumption DEF Versions

\* The invariant holds initially, whatever schema the database starts with.
LEMMA InitIInv == Init => IInv
<1> SUFFICES ASSUME Init PROVE IInv
  OBVIOUS
<1> USE LatestAssumption, TargetAssumption
<1>1. PICK n \in 0 .. Latest + 1 : /\ records = 1 .. n
                                  /\ built = (1 .. n) \X Parts
                                  /\ metadata = n
  BY DEF Init
<1>2. proc \in [Processes -> [pc : {"idle"}, target : Targets, recorded : {0},
                               cursor : {1}, result : {0}]]
  BY DEF Init
<1>3. TypeOK
  BY <1>1, <1>2 DEF TypeOK, Versions, Running, Applying, Parts
<1>4. RecordsHaveNoGap /\ RecordedMeansBuilt
  BY <1>1 DEF RecordsHaveNoGap, RecordedMeansBuilt, Parts
<1>5. LoopInv
  BY <1>2 DEF LoopInv, LoopInvOf, Applying, At
<1> QED
  BY <1>3, <1>4, <1>5 DEF IInv

\* A step of p that leaves the records alone and takes nothing down: what the
\* other processes rely on still holds.
LEMMA LoopFrame ==
  ASSUME NEW p \in Processes, LoopInv,
         records' = records, built \subseteq built',
         \A q \in Processes : q # p => proc'[q] = proc[q],
         LoopInvOf(p)'
  PROVE  LoopInv'
<1>1. ASSUME NEW q \in Processes, q # p PROVE LoopInvOf(q)'
  <2>1. LoopInvOf(q) /\ proc'[q] = proc[q]
    BY <1>1 DEF LoopInv
  <2> QED
    BY <2>1 DEF LoopInvOf, Applying, At
<1> QED
  BY <1>1 DEF LoopInv

\* Every step of every process keeps the invariant.
LEMMA NextIInv == IInv /\ [Next]_vars => IInv'
<1> SUFFICES ASSUME IInv, [Next]_vars PROVE IInv'
  OBVIOUS
<1> USE LatestAssumption, TargetAssumption
<1>0. TypeOK /\ RecordsHaveNoGap /\ RecordedMeansBuilt /\ LoopInv
  BY DEF IInv
<1>1. ASSUME NEW p \in Processes, Invoke(p) PROVE IInv'
  <2>1. PICK t \in TargetsOf(p) :
           proc' = [proc EXCEPT ![p] = [pc |-> "latest", target |-> t, recorded |-> 0,
                                        cursor |-> 1, result |-> 0]]
    BY <1>1 DEF Invoke
  <2>2. UNCHANGED <<records, built, metadata>>
    BY <1>1 DEF Invoke
  <2>3. TypeOK'
    BY <1>0, <2>1, <2>2, TargetFacts DEF TypeOK, Versions, Running, Applying
  <2>4. \A q \in Processes : q # p => proc'[q] = proc[q]
    BY <1>0, <2>1 DEF TypeOK
  <2>5. proc'[p].pc = "latest" /\ proc'[p].cursor = 1
    BY <1>0, <2>1 DEF TypeOK
  <2>6. LoopInvOf(p)'
    BY <2>5 DEF LoopInvOf, Applying, At
  <2>7. LoopInv'
    BY <1>0, <2>2, <2>4, <2>6, LoopFrame
  <2> QED
    BY <1>0, <2>2, <2>3, <2>7 DEF IInv, RecordsHaveNoGap, RecordedMeansBuilt
<1>2. ASSUME NEW p \in Processes, ReadLatest(p) PROVE IInv'
  <2> DEFINE h == HighestRecord
  <2>1. h \in 0 .. Latest + 1 /\ records = 1 .. h
    BY <1>0, HighestRecordValue
  <2> HIDE DEF h
  <2>2. /\ proc[p].pc = "latest"
        /\ proc[p].cursor = 1
        /\ proc' = [proc EXCEPT ![p].recorded = h,
                               ![p].pc = IF h > LatestOf(p) THEN "tooNew" ELSE "find"]
        /\ UNCHANGED <<records, built, metadata>>
    BY <1>0, <1>2 DEF ReadLatest, LoopInv, LoopInvOf, At, h
  <2>3. TypeOK' /\ RecordsHaveNoGap' /\ RecordedMeansBuilt'
    BY <1>0, <2>1, <2>2
    DEF TypeOK, RecordsHaveNoGap, RecordedMeansBuilt, Running, Applying
  <2>4. ASSUME NEW q \in Processes, q # p PROVE proc'[q] = proc[q]
    BY <1>0, <2>2, <2>4 DEF TypeOK
  <2>5. /\ proc'[p].pc = IF h > LatestOf(p) THEN "tooNew" ELSE "find"
        /\ proc'[p].recorded = h
        /\ proc'[p].cursor = 1
    BY <1>0, <2>2 DEF TypeOK
  <2>6. ASSUME NEW q \in Processes, q # p PROVE LoopInvOf(q)'
    <3>1. LoopInvOf(q) /\ proc'[q] = proc[q] /\ UNCHANGED <<records, built>>
      BY <1>0, <2>2, <2>4, <2>6 DEF LoopInv
    <3> QED
      BY <3>1 DEF LoopInvOf, Applying, At
  <2>7. LoopInvOf(p)'
    <3>1. CASE h > LatestOf(p)
      BY <2>5, <3>1 DEF LoopInvOf, Applying, At
    <3>2. CASE ~(h > LatestOf(p))
      <4>1. /\ 1 .. (1 - 1) \subseteq records'
            /\ 1 .. h \subseteq records'
        BY <2>1, <2>2, <3>2
      <4> QED
        BY <2>5, <3>2, <4>1 DEF LoopInvOf, Applying, At
    <3> QED
      BY <3>1, <3>2
  <2> QED
    BY <2>3, <2>6, <2>7 DEF IInv, LoopInv
<1>3. ASSUME NEW p \in Processes, FindRecord(p) PROVE IInv'
  <2>1. /\ proc[p].pc = "find"
        /\ proc[p].cursor <= proc[p].target
        /\ UNCHANGED <<records, built, metadata>>
    BY <1>3 DEF FindRecord, At
  <2>2. /\ proc[p].cursor \in 1 .. Latest + 2 /\ proc[p].target \in 1 .. Latest + 1
        /\ proc[p].cursor \in Versions
    BY <1>0, <2>1, ProcessRanges DEF Versions
  <2>3. LoopInvOf(p)
    BY <1>0 DEF LoopInv
  <2>4. TypeOK' /\ LoopInvOf(p)' /\ \A q \in Processes : q # p => proc'[q] = proc[q]
    <3>1. CASE proc[p].cursor \in records
      <4>1. proc' = [proc EXCEPT ![p].pc = "find", ![p].cursor = proc[p].cursor + 1]
        BY <1>3, <3>1 DEF FindRecord, Advance
      <4>2. TypeOK'
        BY <1>0, <2>1, <2>2, <4>1 DEF TypeOK, Versions, Running, Applying
      <4>3. /\ proc'[p].pc = "find"
            /\ proc'[p].cursor = proc[p].cursor + 1
            /\ proc'[p].recorded = proc[p].recorded
            /\ \A q \in Processes : q # p => proc'[q] = proc[q]
        BY <1>0, <4>1 DEF TypeOK
      <4>4. /\ 1 .. (proc[p].cursor - 1) \subseteq records
            /\ 1 .. proc[p].recorded \subseteq records
        BY <2>1, <2>3 DEF LoopInvOf
      <4>5. 1 .. ((proc[p].cursor + 1) - 1) \subseteq records
        BY <2>2, <3>1, <4>4 DEF Versions
      <4>6. LoopInvOf(p)'
        BY <2>1, <4>3, <4>4, <4>5 DEF LoopInvOf, Applying, At
      <4> QED
        BY <4>2, <4>3, <4>6
    <3>2. CASE proc[p].cursor \notin records
      <4>1. proc' = [proc EXCEPT ![p].pc = "collections"]
        BY <1>3, <3>2 DEF FindRecord, Goto
      <4>2. TypeOK'
        BY <1>0, <2>1, <4>1 DEF TypeOK, Running, Applying
      <4>3. /\ proc'[p].pc = "collections"
            /\ proc'[p].cursor = proc[p].cursor
            /\ proc'[p].target = proc[p].target
            /\ proc'[p].recorded = proc[p].recorded
            /\ \A q \in Processes : q # p => proc'[q] = proc[q]
        BY <1>0, <4>1 DEF TypeOK
      <4>4. LoopInvOf(p)'
        BY <2>1, <2>3, <4>3 DEF LoopInvOf, Applying, At
      <4> QED
        BY <4>2, <4>3, <4>4
    <3> QED
      BY <3>1, <3>2
  <2>5. LoopInv'
    BY <1>0, <2>1, <2>4, LoopFrame
  <2> QED
    BY <1>0, <2>1, <2>4, <2>5 DEF IInv, RecordsHaveNoGap, RecordedMeansBuilt
<1>4. ASSUME NEW p \in Processes, EnsureCollections(p) PROVE IInv'
  <2>1. /\ proc[p].pc = "collections"
        /\ proc' = [proc EXCEPT ![p].pc = "indexes"]
        /\ built' = built \cup {<<proc[p].cursor, "collections">>}
        /\ UNCHANGED <<records, metadata>>
    BY <1>4 DEF EnsureCollections, Goto, At
  <2>2. TypeOK'
    <3>1. <<proc[p].cursor, "collections">> \in Versions \X Parts
      BY <1>0, <2>1, AppliedVersion DEF Parts, Applying
    <3>2. "indexes" \in Running
      BY DEF Running, Applying
    <3>3. built' \subseteq Versions \X Parts
      BY <1>0, <2>1, <3>1 DEF TypeOK
    <3> QED
      BY <1>0, <2>1, <3>2, <3>3 DEF TypeOK
  <2>3. /\ proc'[p].pc = "indexes"
        /\ proc'[p].cursor = proc[p].cursor
        /\ proc'[p].target = proc[p].target
        /\ proc'[p].recorded = proc[p].recorded
        /\ \A q \in Processes : q # p => proc'[q] = proc[q]
    BY <1>0, <2>1 DEF TypeOK
  <2>4. LoopInvOf(p)'
    <3>1. LoopInvOf(p)
      BY <1>0 DEF LoopInv
    <3> QED
      BY <2>1, <2>3, <3>1 DEF LoopInvOf, Applying, At
  <2>5. LoopInv'
    BY <1>0, <2>1, <2>3, <2>4, LoopFrame
  <2> QED
    BY <1>0, <2>1, <2>2, <2>5 DEF IInv, RecordsHaveNoGap, RecordedMeansBuilt
<1>5. ASSUME NEW p \in Processes, CreateIndexes(p) PROVE IInv'
  <2>1. /\ proc[p].pc = "indexes"
        /\ proc' = [proc EXCEPT ![p].pc = "stamp"]
        /\ built' = built \cup {<<proc[p].cursor, "indexes">>}
        /\ UNCHANGED <<records, metadata>>
    BY <1>5 DEF CreateIndexes, Goto, At
  <2>2. TypeOK'
    <3>1. <<proc[p].cursor, "indexes">> \in Versions \X Parts
      BY <1>0, <2>1, AppliedVersion DEF Parts, Applying
    <3>2. "stamp" \in Running
      BY DEF Running, Applying
    <3>3. built' \subseteq Versions \X Parts
      BY <1>0, <2>1, <3>1 DEF TypeOK
    <3> QED
      BY <1>0, <2>1, <3>2, <3>3 DEF TypeOK
  <2>3. /\ proc'[p].pc = "stamp"
        /\ proc'[p].cursor = proc[p].cursor
        /\ proc'[p].target = proc[p].target
        /\ proc'[p].recorded = proc[p].recorded
        /\ \A q \in Processes : q # p => proc'[q] = proc[q]
    BY <1>0, <2>1 DEF TypeOK
  <2>4. LoopInvOf(p)'
    <3>1. LoopInvOf(p)
      BY <1>0 DEF LoopInv
    <3> QED
      BY <2>1, <2>3, <3>1 DEF LoopInvOf, Applying, At
  <2>5. LoopInv'
    BY <1>0, <2>1, <2>3, <2>4, LoopFrame
  <2> QED
    BY <1>0, <2>1, <2>2, <2>5 DEF IInv, RecordsHaveNoGap, RecordedMeansBuilt
<1>6. ASSUME NEW p \in Processes, StampMetadata(p) PROVE IInv'
  <2>1. /\ proc[p].pc = "stamp"
        /\ proc' = [proc EXCEPT ![p].pc = "insert"]
        /\ built' = built
        /\ records' = records
    BY <1>6 DEF StampMetadata, Goto, At
  <2>2. TypeOK'
    <3>1. metadata' \in {metadata, proc[p].cursor}
      BY <1>6 DEF StampMetadata
    <3>2. metadata' \in 0 .. Latest + 1
      BY <1>0, <2>1, <3>1, AppliedVersion DEF TypeOK, Versions, Applying
    <3>3. "insert" \in Running
      BY DEF Running, Applying
    <3> QED
      BY <1>0, <2>1, <3>2, <3>3 DEF TypeOK
  <2>3. /\ proc'[p].pc = "insert"
        /\ proc'[p].cursor = proc[p].cursor
        /\ proc'[p].target = proc[p].target
        /\ proc'[p].recorded = proc[p].recorded
        /\ \A q \in Processes : q # p => proc'[q] = proc[q]
    BY <1>0, <2>1 DEF TypeOK
  <2>4. LoopInvOf(p)'
    <3>1. LoopInvOf(p)
      BY <1>0 DEF LoopInv
    <3> QED
      BY <2>1, <2>3, <3>1 DEF LoopInvOf, Applying, At
  <2>5. LoopInv'
    BY <1>0, <2>1, <2>3, <2>4, LoopFrame
  <2> QED
    BY <1>0, <2>1, <2>2, <2>5 DEF IInv, RecordsHaveNoGap, RecordedMeansBuilt
<1>7. ASSUME NEW p \in Processes, InsertRecord(p) PROVE IInv'
  <2> DEFINE v == proc[p].cursor
  <2>1. /\ v \in 1 .. Latest + 1
        /\ proc[p].pc = "insert"
        /\ 1 .. (v - 1) \subseteq records
        /\ \A part \in Parts : <<v, part>> \in built
    <3>1. proc[p].pc = "insert"
      BY <1>7 DEF InsertRecord, At
    <3>2. v \in Versions
      BY <1>0, <3>1, AppliedVersion DEF Applying
    <3> QED
      BY <1>0, <3>1, <3>2 DEF LoopInv, LoopInvOf, Versions, Parts, Applying
  <2>2. /\ records' = records \cup {v}
        /\ proc' = [proc EXCEPT ![p].pc = "find", ![p].cursor = v + 1]
        /\ UNCHANGED <<built, metadata>>
    BY <1>7 DEF InsertRecord, Advance
  <2>3. TypeOK'
    BY <1>0, <2>1, <2>2 DEF TypeOK, Versions, Running, Applying
  <2>4. RecordsHaveNoGap' /\ RecordedMeansBuilt'
    BY <1>0, <2>1, <2>2 DEF TypeOK, RecordsHaveNoGap, RecordedMeansBuilt, Versions
  <2>5. LoopInv'
    <3>1. ASSUME NEW q \in Processes, q # p PROVE proc'[q] = proc[q]
      BY <1>0, <2>2, <3>1 DEF TypeOK
    <3>2. /\ proc'[p].pc = "find"
          /\ proc'[p].cursor = v + 1
          /\ proc'[p].recorded = proc[p].recorded
      BY <1>0, <2>2 DEF TypeOK
    <3>3. 1 .. v \subseteq records'
      BY <2>1, <2>2
    <3>4. v \in Int /\ (v + 1) - 1 = v
      BY <2>1, <2>2
    <3> QED
      <4>1. ASSUME NEW q \in Processes, q # p PROVE LoopInvOf(q)'
        <5>1. LoopInvOf(q) /\ proc'[q] = proc[q] /\ built' = built /\ records \subseteq records'
          BY <1>0, <2>2, <3>1, <4>1 DEF LoopInv
        <5> QED
          BY <3>4, <5>1 DEF LoopInvOf, Applying, At
      <4>2. LoopInvOf(p)'
        <5>1. 1 .. proc[p].recorded \subseteq records'
          BY <1>0, <2>1, <2>2 DEF LoopInv, LoopInvOf, Applying
        <5> QED
          BY <3>2, <3>3, <3>4, <5>1 DEF LoopInvOf, Applying, At
      <4> QED
        BY <4>1, <4>2 DEF LoopInv
  <2> QED
    BY <2>3, <2>4, <2>5 DEF IInv
<1>8. ASSUME NEW p \in Processes, Return(p) PROVE IInv'
  <2> DEFINE r == IF proc[p].target > proc[p].recorded
                  THEN proc[p].target ELSE proc[p].recorded
  <2>1. /\ proc[p].target \in 1 .. Latest + 1
        /\ proc[p].recorded \in 0 .. Latest + 1
        /\ proc[p].cursor \in 1 .. Latest + 2
        /\ proc[p].cursor > proc[p].target
        /\ proc[p].pc = "find"
    BY <1>0, <1>8, ProcessRanges DEF Return, TypeOK, At
  <2>2. /\ 1 .. (proc[p].cursor - 1) \subseteq records
        /\ 1 .. proc[p].recorded \subseteq records
    BY <1>0, <2>1 DEF LoopInv, LoopInvOf
  <2>3. r \in 0 .. Latest + 1 /\ 1 .. r \subseteq records
    BY <2>1, <2>2 DEF Versions
  <2>4. /\ proc' = [proc EXCEPT ![p].pc = "done", ![p].result = r]
        /\ UNCHANGED <<records, built, metadata>>
    BY <1>8 DEF Return
  <2> HIDE DEF r
  <2>5. TypeOK' /\ RecordsHaveNoGap' /\ RecordedMeansBuilt'
    <3>1. TypeOK'
      <4> DEFINE Rec == [pc       : Running \cup {"idle", "done", "tooNew"},
                         target   : Targets \cup {Latest + 1},
                         recorded : 0 .. Latest + 1,
                         cursor   : 1 .. Latest + 2,
                         result   : 0 .. Latest + 1]
      <4>1. proc \in [Processes -> Rec]
        BY <1>0 DEF TypeOK
      <4>2. [proc[p] EXCEPT !.pc = "done", !.result = r] \in Rec
        BY <2>3, <4>1
      <4>3. proc' = [proc EXCEPT ![p] = [proc[p] EXCEPT !.pc = "done", !.result = r]]
        BY <2>4, <4>1
      <4>4. proc' \in [Processes -> Rec]
        <5> HIDE DEF Rec
        <5> QED
          BY <4>1, <4>2, <4>3
      <4> QED
        BY <1>0, <2>4, <4>4 DEF TypeOK
    <3> QED
      BY <1>0, <2>4, <3>1 DEF RecordsHaveNoGap, RecordedMeansBuilt
  <2>6. /\ proc'[p].pc = "done" /\ proc'[p].result = r
        /\ \A q \in Processes : q # p => proc'[q] = proc[q]
    BY <1>0, <2>4 DEF TypeOK
  <2>7. LoopInvOf(p)'
    BY <2>3, <2>4, <2>6 DEF LoopInvOf, Applying, At
  <2>8. LoopInv'
    BY <1>0, <2>4, <2>6, <2>7, LoopFrame
  <2> QED
    BY <2>5, <2>8 DEF IInv
<1>9. ASSUME NEW p \in Processes, Crash(p) PROVE IInv'
  <2>1. /\ proc' = [proc EXCEPT ![p].pc = "idle"]
        /\ UNCHANGED <<records, built, metadata>>
    BY <1>9 DEF Crash, Goto
  <2>2. TypeOK'
    BY <1>0, <2>1 DEF TypeOK, Running, Applying
  <2>3. proc'[p].pc = "idle" /\ \A q \in Processes : q # p => proc'[q] = proc[q]
    BY <1>0, <2>1 DEF TypeOK
  <2>4. LoopInvOf(p)'
    BY <2>3 DEF LoopInvOf, Applying, At
  <2>5. LoopInv'
    BY <1>0, <2>1, <2>3, <2>4, LoopFrame
  <2> QED
    BY <1>0, <2>1, <2>2, <2>5 DEF IInv, RecordsHaveNoGap, RecordedMeansBuilt
<1>10. CASE UNCHANGED vars
  BY <1>0, <1>10 DEF vars, IInv, TypeOK, RecordsHaveNoGap, RecordedMeansBuilt,
                    LoopInv, LoopInvOf, At
<1> QED
  BY <1>1, <1>2, <1>3, <1>4, <1>5, <1>6, <1>7, <1>8, <1>9, <1>10 DEF Next, Step

\* Hence it holds in every reachable state.
LEMMA InvariantIInv == Spec => []IInv
<1> QED
  BY InitIInv, NextIInv, PTL DEF Spec

-----------------------------------------------------------------------------
(* The metadata document                                                   *)

\* The metadata version is at most one ahead of the records, and a process only
\* applies a migration that was not recorded when it read the highest record.
MetadataInv ==
    /\ 1 .. (metadata - 1) \subseteq records
    /\ \A p \in Processes : proc[p].pc \in Applying => proc[p].recorded < proc[p].cursor

\* Every step keeps that, too.
LEMMA MetadataStep == IInv /\ MetadataInv /\ [Next]_vars => MetadataInv'
<1> SUFFICES ASSUME IInv, MetadataInv, [Next]_vars PROVE MetadataInv'
  OBVIOUS
<1> USE LatestAssumption, TargetAssumption
<1>0. TypeOK /\ LoopInv
  BY DEF IInv
<1>1. ASSUME NEW p \in Processes, Invoke(p) PROVE MetadataInv'
  BY <1>0, <1>1 DEF Invoke, MetadataInv, TypeOK, Applying
<1>2. ASSUME NEW p \in Processes, ReadLatest(p) PROVE MetadataInv'
  <2>1. proc'[p].pc \notin Applying /\ \A q \in Processes : q # p => proc'[q] = proc[q]
    BY <1>0, <1>2 DEF ReadLatest, TypeOK, Applying
  <2> QED
    BY <1>0, <1>2, <2>1 DEF ReadLatest, MetadataInv
<1>3. ASSUME NEW p \in Processes, FindRecord(p) PROVE MetadataInv'
  <2>1. CASE proc[p].cursor \in records
    BY <1>0, <1>3, <2>1 DEF FindRecord, Advance, MetadataInv, TypeOK, Applying
  <2>2. CASE proc[p].cursor \notin records
    <3>1. 1 .. proc[p].recorded \subseteq records
      BY <1>0, <1>3 DEF FindRecord, LoopInv, LoopInvOf, At
    <3>2. proc[p].cursor \in Nat \ {0} /\ proc[p].recorded \in Nat
      BY <1>0 DEF TypeOK, Versions
    <3>3. proc[p].recorded < proc[p].cursor
      BY <2>2, <3>1, <3>2
    <3>4. /\ \A q \in Processes : proc'[q].recorded = proc[q].recorded
          /\ \A q \in Processes : proc'[q].cursor = proc[q].cursor
          /\ \A q \in Processes : q # p => proc'[q].pc = proc[q].pc
          /\ UNCHANGED <<records, metadata>>
      BY <1>0, <1>3, <2>2 DEF FindRecord, Goto, TypeOK
    <3> QED
      BY <3>3, <3>4 DEF MetadataInv
  <2> QED
    BY <2>1, <2>2
<1>4. ASSUME NEW p \in Processes, EnsureCollections(p) PROVE MetadataInv'
  BY <1>0, <1>4 DEF EnsureCollections, Goto, MetadataInv, TypeOK, Applying, At
<1>5. ASSUME NEW p \in Processes, CreateIndexes(p) PROVE MetadataInv'
  BY <1>0, <1>5 DEF CreateIndexes, Goto, MetadataInv, TypeOK, Applying, At
<1>6. ASSUME NEW p \in Processes, StampMetadata(p) PROVE MetadataInv'
  <2>1. 1 .. (proc[p].cursor - 1) \subseteq records
    BY <1>0, <1>6 DEF StampMetadata, LoopInv, LoopInvOf, Applying, At
  <2>2. metadata' \in {metadata, proc[p].cursor} /\ records' = records
    BY <1>6 DEF StampMetadata
  <2>3. 1 .. (metadata' - 1) \subseteq records'
    BY <2>1, <2>2 DEF MetadataInv
  <2> QED
    BY <1>0, <1>6, <2>3 DEF StampMetadata, Goto, MetadataInv, TypeOK, Applying, At
<1>7. ASSUME NEW p \in Processes, InsertRecord(p) PROVE MetadataInv'
  BY <1>0, <1>7 DEF InsertRecord, Advance, MetadataInv, TypeOK, Applying, At
<1>8. ASSUME NEW p \in Processes, Return(p) PROVE MetadataInv'
  BY <1>0, <1>8 DEF Return, MetadataInv, TypeOK, Applying, At
<1>9. ASSUME NEW p \in Processes, Crash(p) PROVE MetadataInv'
  BY <1>0, <1>9 DEF Crash, Goto, MetadataInv, TypeOK, Applying, At
<1>10. CASE UNCHANGED vars
  BY <1>10 DEF vars, MetadataInv
<1> QED
  BY <1>1, <1>2, <1>3, <1>4, <1>5, <1>6, <1>7, <1>8, <1>9, <1>10 DEF Next, Step

\* Hence it holds in every reachable state.
LEMMA InvariantMetadata == Spec => []MetadataInv
<1>1. Init => MetadataInv
  <2> SUFFICES ASSUME Init PROVE MetadataInv
    OBVIOUS
  <2>1. PICK n \in 0 .. Latest + 1 : records = 1 .. n /\ metadata = n
    BY DEF Init
  <2>2. \A p \in Processes : proc[p].pc = "idle"
    BY DEF Init
  <2> QED
    BY <2>1, <2>2, LatestAssumption DEF MetadataInv, Applying
<1> QED
  BY <1>1, InvariantIInv, MetadataStep, PTL DEF Spec

-----------------------------------------------------------------------------
(* The theorems                                                            *)

\* Every variable of Migrations keeps its type.
THEOREM TypeCorrect == Spec => []TypeOK
<1>1. IInv => TypeOK
  BY DEF IInv
<1> QED
  BY <1>1, InvariantIInv, PTL

\* Concurrent and crashing runs of apply_migrations never leave a gap in
\* schema_migrations.
THEOREM NoGaps == Spec => []RecordsHaveNoGap
<1>1. IInv => RecordsHaveNoGap
  BY DEF IInv
<1> QED
  BY <1>1, InvariantIInv, PTL

\* A version that is recorded has its collections and indexes.
THEOREM RecordedAreBuilt == Spec => []RecordedMeansBuilt
<1>1. IInv => RecordedMeansBuilt
  BY DEF IInv
<1> QED
  BY <1>1, InvariantIInv, PTL

\* The version apply_migrations returns, and every lower one, is recorded.
THEOREM ReturnedAreReached == Spec => []ReturnedVersionIsReached
<1>1. IInv => ReturnedVersionIsReached
  BY DEF IInv, LoopInv, LoopInvOf, ReturnedVersionIsReached
<1> QED
  BY <1>1, InvariantIInv, PTL

\* The metadata version is never more than one ahead of the records.
THEOREM MetadataIsNotFarAhead == Spec => []MetadataNotFarAhead
<1>1. IInv /\ MetadataInv => MetadataNotFarAhead
  <2> SUFFICES ASSUME IInv, MetadataInv PROVE MetadataNotFarAhead
    OBVIOUS
  <2> DEFINE h == HighestRecord
  <2>1. h \in 0 .. Latest + 1 /\ records = 1 .. h
    BY HighestRecordValue DEF IInv
  <2>2. metadata \in 0 .. Latest + 1 /\ 1 .. (metadata - 1) \subseteq records
    BY DEF IInv, TypeOK, MetadataInv
  <2> HIDE DEF h
  <2>3. metadata <= h + 1
    BY <2>1, <2>2, LatestAssumption
  <2> QED
    BY <2>3 DEF MetadataNotFarAhead, h
<1> QED
  BY <1>1, InvariantIInv, InvariantMetadata, PTL

\* Only a process that was overtaken lowers the metadata version.
THEOREM DowngradesAreLostRaces == Spec => OnlyTheOvertakenDowngrade
<1> DEFINE Overtaken == \E p \in Processes : /\ At(p, "stamp")
                                             /\ proc[p].recorded < proc[p].cursor
                                             /\ proc[p].cursor \in records
           Lowers == metadata' < metadata
<1>1. IInv /\ MetadataInv /\ [Next]_vars => [Lowers => Overtaken]_vars
  <2> SUFFICES ASSUME IInv, MetadataInv, [Next]_vars, Lowers PROVE Overtaken
    OBVIOUS
  <2>1. metadata \in Nat /\ metadata' < metadata /\ metadata' # metadata
    BY DEF IInv, TypeOK
  <2> HIDE DEF Lowers
  <2>2. PICK p \in Processes : StampMetadata(p)
    BY <2>1, Zenon DEF Next, Step, Invoke, ReadLatest, FindRecord, EnsureCollections, CreateIndexes,
                InsertRecord, Return, Crash, vars
  <2>3. proc[p].cursor \in Nat \ {0} /\ proc[p].cursor < metadata
    BY <2>1, <2>2 DEF StampMetadata, IInv, TypeOK, Versions
  <2>4. proc[p].cursor \in records
    BY <2>1, <2>3 DEF MetadataInv
  <2>5. At(p, "stamp") /\ proc[p].recorded < proc[p].cursor
    BY <2>2 DEF StampMetadata, MetadataInv, Applying, At
  <2> QED
    BY <2>4, <2>5
<1> QED
  BY <1>1, InvariantIInv, InvariantMetadata, PTL DEF Spec, OnlyTheOvertakenDowngrade

=============================================================================
