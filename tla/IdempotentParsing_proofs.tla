---------------------- MODULE IdempotentParsing_proofs ----------------------
(***************************************************************************)
(* Theorems about IdempotentParsing, for any calls, keys and fingerprints, *)
(* any capacity of the cache and any number of attempts.                   *)
(***************************************************************************)
EXTENDS IdempotentParsing, TLAPS, FunctionTheorems, FiniteSetTheorems

-----------------------------------------------------------------------------
(* The order of the completed table                                        *)

\* No key stands twice in a sequence.
Distinct(o) == \A i, j \in 1 .. Len(o) : o[i] = o[j] => i = j

\* Removing a key leaves the other keys, each once.
LEMMA WithoutProperties ==
    ASSUME NEW o \in Seq(Keys), Distinct(o), NEW k \in Keys
    PROVE  /\ Without(o, k) \in Seq(Keys)
           /\ Distinct(Without(o, k))
           /\ \A j \in Keys : In(Without(o, k), j) <=> In(o, j) /\ j # k
           /\ Len(Without(o, k)) = IF In(o, k) THEN Len(o) - 1 ELSE Len(o)
<1>1. CASE ~In(o, k)
  BY <1>1 DEF In, Without
<1>2. CASE In(o, k)
  <2>1. PICK i \in 1 .. Len(o) : i = CHOOSE j \in 1 .. Len(o) : o[j] = k
    BY <1>2 DEF In
  <2>2. o[i] = k
    BY <1>2, <2>1 DEF In
  <2> DEFINE w == [j \in 1 .. Len(o) - 1 |-> IF j < i THEN o[j] ELSE o[j + 1]]
  <2>3. Without(o, k) = w
    BY <1>2, <2>1 DEF Without, In
  <2>4. w \in Seq(Keys) /\ Len(w) = Len(o) - 1
    OBVIOUS
  <2>5. Distinct(w)
    BY <2>4 DEF Distinct
  <2>6. ASSUME NEW j \in Keys PROVE In(w, j) <=> In(o, j) /\ j # k
    <3>1. ASSUME In(w, j) PROVE In(o, j) /\ j # k
      BY <2>2, <2>4, <3>1 DEF In, Distinct
    <3>2. ASSUME In(o, j), j # k PROVE In(w, j)
      <4>1. PICK n \in 1 .. Len(o) : o[n] = j
        BY <3>2 DEF In
      <4>2. CASE n < i
        BY <2>4, <4>1, <4>2 DEF In
      <4>3. CASE n > i
        <5>1. n - 1 \in 1 .. Len(w) /\ w[n - 1] = j
          BY <2>4, <4>1, <4>3
        <5> QED
          BY <5>1 DEF In
      <4> QED
        BY <2>2, <3>2, <4>1, <4>2, <4>3
    <3> QED
      BY <3>1, <3>2
  <2> QED
    BY <1>2, <2>3, <2>4, <2>5, <2>6
<1> QED
  BY <1>1, <1>2

\* move_to_end adds the key, once, at the end.
LEMMA MoveToEndProperties ==
    ASSUME NEW o \in Seq(Keys), Distinct(o), NEW k \in Keys
    PROVE  LET m == MoveToEnd(o, k)
           IN  /\ m \in Seq(Keys)
               /\ Distinct(m)
               /\ \A j \in Keys : In(m, j) <=> In(o, j) \/ j = k
               /\ Len(m) = IF In(o, k) THEN Len(o) ELSE Len(o) + 1
               /\ m[Len(m)] = k
<1> DEFINE w == Without(o, k)
           m == Append(w, k)
<1>1. /\ w \in Seq(Keys)
      /\ Distinct(w)
      /\ \A j \in Keys : In(w, j) <=> In(o, j) /\ j # k
      /\ Len(w) = IF In(o, k) THEN Len(o) - 1 ELSE Len(o)
  BY WithoutProperties
<1> HIDE DEF w
<1>2. /\ m \in Seq(Keys)
      /\ Len(m) = Len(w) + 1
      /\ m[Len(m)] = k
      /\ \A n \in 1 .. Len(w) : m[n] = w[n]
  BY <1>1
<1>3. \A n \in 1 .. Len(w) : w[n] # k
  BY <1>1 DEF In
<1>4. Distinct(m)
  BY <1>1, <1>2, <1>3 DEF Distinct
<1>5. ASSUME NEW j \in Keys PROVE In(m, j) <=> In(o, j) \/ j = k
  <2>1. In(m, j) <=> In(w, j) \/ j = k
    BY <1>1, <1>2 DEF In
  <2> QED
    BY <1>1, <2>1
<1>6. MoveToEnd(o, k) = m
  BY DEF MoveToEnd, w
<1> QED
  BY <1>1, <1>2, <1>4, <1>5, <1>6

\* What eviction leaves fits, keeps the newest key and adds none.
LEMMA NewestProperties ==
    ASSUME NEW o \in Seq(Keys), Distinct(o), Len(o) > 0
    PROVE  LET n == Newest(o)
           IN  /\ n \in Seq(Keys)
               /\ Distinct(n)
               /\ Len(n) <= Capacity
               /\ \A j \in Keys : In(n, j) => In(o, j)
               /\ In(n, o[Len(o)])
<1> USE CapacityAssumption
<1>1. CASE Len(o) <= Capacity
  <2>1. Newest(o) = o
    BY <1>1 DEF Newest
  <2> QED
    BY <1>1, <2>1 DEF In
<1>2. CASE Len(o) > Capacity
  <2> DEFINE n == SubSeq(o, Len(o) - Capacity + 1, Len(o))
  <2>1. /\ n \in Seq(Keys)
        /\ Len(n) = Capacity
        /\ \A i \in 1 .. Capacity : n[i] = o[Len(o) - Capacity + i]
    BY <1>2
  <2>2. Newest(o) = n
    BY <1>2 DEF Newest
  <2> HIDE DEF n
  <2> DEFINE at(i) == Len(o) - Capacity + i
  <2>6. \A i \in 1 .. Capacity : at(i) \in 1 .. Len(o) /\ n[i] = o[at(i)]
    BY <1>2, <2>1
  <2>3. Distinct(n)
    <3> SUFFICES ASSUME NEW i \in 1 .. Capacity, NEW j \in 1 .. Capacity, n[i] = n[j]
                 PROVE  i = j
      BY <2>1 DEF Distinct
    <3>1. at(i) = at(j)
      BY <2>6, Zenon DEF Distinct
    <3> QED
      BY <3>1
  <2>4. ASSUME NEW j \in Keys, In(n, j) PROVE In(o, j)
    BY <2>1, <2>4, <2>6, Zenon DEF In
  <2>5. n[Capacity] = o[Len(o)]
    BY <1>2, <2>1
  <2>7. In(n, o[Len(o)]) /\ Len(n) <= Capacity
    BY <2>1, <2>5 DEF In
  <2> QED
    BY <2>1, <2>2, <2>3, <2>4, <2>7
<1> QED
  BY <1>1, <1>2

\* Whatever the order, moving a key and evicting give sequences of keys.
LEMMA MoveToEndIsSequence ==
    ASSUME NEW o \in Seq(Keys), NEW k \in Keys
    PROVE  MoveToEnd(o, k) \in Seq(Keys)
<1>1. Without(o, k) \in Seq(Keys)
  <2>1. CASE In(o, k)
    <3>1. PICK i \in 1 .. Len(o) : i = CHOOSE j \in 1 .. Len(o) : o[j] = k
      BY <2>1 DEF In
    <3> QED
      BY <2>1, <3>1 DEF Without, In
  <2>2. CASE ~In(o, k)
    BY <2>2 DEF Without, In
  <2> QED
    BY <2>1, <2>2
<1> QED
  BY <1>1 DEF MoveToEnd

LEMMA KeptIsSequence ==
    ASSUME NEW o \in Seq(Keys), NEW k \in Keys
    PROVE  Newest(MoveToEnd(o, k)) \in Seq(Keys)
<1>1. MoveToEnd(o, k) \in Seq(Keys)
  BY MoveToEndIsSequence
<1> QED
  BY <1>1, CapacityAssumption DEF Newest

-----------------------------------------------------------------------------
(* The inductive invariant                                                 *)

\* Types; and a task that waits to call the provider has an attempt left.
TypeInv ==
    /\ TypeOK
    /\ \A t \in Calls : task[t].state = "ready" => task[t].attempts < MaxAttempts

\* A call that was not refused has a task, which was created for the same key
\* and fingerprint; it returns only what a task that succeeded made.  Only the
\* owner of a parse without key can cancel it.
Served == {"waiting", "returned", "failed", "aborted", "cancelled"}

CallInvOf(c) ==
    /\ task[c].state # "none" => call[c].state \in Served /\ call[c].task = c
    /\ call[c].state \in Served =>
          /\ call[c].task \in Calls
          /\ task[call[c].task].state # "none"
          /\ call[call[c].task].key = call[c].key
          /\ call[call[c].task].fp = call[c].fp
          /\ call[c].key = NoKey => call[c].task = c
    /\ call[c].state = "returned" => task[call[c].task].state = "succeeded"
    /\ call[c].state # "aborted"
    /\ task[c].state = "cancelled" => call[c].key = NoKey /\ call[c].state = "cancelled"

CallInv == \A c \in Calls : CallInvOf(c)

\* The tables hold tasks in the right state for the right key, and none that was
\* forgotten.
TableInvOf(k) ==
    /\ completed[k] # NoTask =>
          /\ task[completed[k]].state = "succeeded"
          /\ call[completed[k]].key = k
          /\ completed[k] \notin forgotten
          /\ inflight[k] = NoTask
    /\ inflight[k] # NoTask =>
          /\ task[inflight[k]].state \in Live
          /\ call[inflight[k]].key = k
          /\ inflight[k] \notin forgotten

TableInv == \A k \in Keys : TableInvOf(k)

\* Only a task that began can be forgotten.
Forgettable == \A t \in forgotten : task[t].state # "none"

\* Conversely a keyed task that nobody forgot is in the table it belongs to.
RegisteredOf(t) ==
    Keyed(t) /\ t \notin forgotten =>
        /\ task[t].state \in Live => inflight[call[t].key] = t
        /\ task[t].state = "succeeded" => completed[call[t].key] = t

Registered == \A t \in Calls : RegisteredOf(t)

\* The order lists the completed keys, each once, and no more than fit.
OrderInv ==
    /\ Distinct(order)
    /\ Len(order) <= Capacity
    /\ \A k \in Keys : In(order, k) <=> completed[k] # NoTask

IInv == TypeInv /\ CallInv /\ TableInv /\ Forgettable /\ Registered /\ OrderInv

\* A call is recorded once, before it has a task and before anyone waits for it.
LEMMA RecordFrame ==
    ASSUME TypeInv, CallInv,
           NEW c \in Calls, NEW k, NEW f, NEW s, NEW t, Record(c, k, f, s, t)
    PROVE  /\ call[c].state = "idle"
           /\ task[c].state = "none"
           /\ call'[c] = [state |-> s, key |-> k, fp |-> f, task |-> t]
           /\ \A d \in Calls : d # c => call'[d] = call[d]
           /\ \A d \in Calls : call[d].state \in Served => call[d].task \in Calls \ {c}
<1>1. call[c].state = "idle" /\ call' = [call EXCEPT ![c] =
                                          [state |-> s, key |-> k, fp |-> f, task |-> t]]
  BY DEF Record
<1>2. task[c].state = "none"
  BY <1>1 DEF CallInv, CallInvOf, Served
<1>3. \A d \in Calls : call[d].state \in Served => call[d].task \in Calls \ {c}
  BY <1>2 DEF CallInv, CallInvOf
<1> QED
  BY <1>1, <1>2, <1>3 DEF TypeInv, TypeOK

\* Every step keeps the types.
LEMMA TypeStep ==
    TypeInv /\ CallInv /\ [Next]_vars => TypeInv'
<1> SUFFICES ASSUME TypeInv /\ CallInv, [Next]_vars PROVE TypeInv'
  OBVIOUS
<1> USE AttemptsAssumption, KeyAssumption, TaskAssumption DEF history, tables
<1>1. ASSUME Start PROVE TypeInv'
  BY <1>1 DEF Start, TypeInv, TypeOK, Live, Settled
<1>2. ASSUME BeginClose PROVE TypeInv'
  BY <1>2 DEF BeginClose, TypeInv, TypeOK, Live, Settled
<1>3. ASSUME FinishClose PROVE TypeInv'
  BY <1>3 DEF FinishClose, ForgetUses, TypeInv, TypeOK, Live, Settled
<1>4. ASSUME NEW c \in Calls, NEW f \in Fingerprints, ParseUnkeyed(c, f) PROVE TypeInv'
  BY <1>4 DEF ParseUnkeyed, Record, Create, TypeInv, TypeOK, Live, Settled
<1>5. ASSUME NEW c \in Calls, NEW f \in Fingerprints, RejectInvalidKey(c, f) PROVE TypeInv'
  BY <1>5 DEF RejectInvalidKey, Record, TypeInv, TypeOK, Live, Settled
<1>6. ASSUME NEW c \in Calls, NEW k \in Keys, NEW f \in Fingerprints, ReplayCompleted(c, k, f)
       PROVE  TypeInv'
  <2>1. MoveToEnd(order, k) \in Seq(Keys)
    BY MoveToEndIsSequence DEF TypeInv, TypeOK
  <2> QED
    BY <1>6, <2>1 DEF ReplayCompleted, Record, Use, TypeInv, TypeOK, Live, Settled
<1>7. ASSUME NEW c \in Calls, NEW k \in Keys, NEW f \in Fingerprints, RejectConflict(c, k, f)
       PROVE  TypeInv'
  BY <1>7 DEF RejectConflict, Record, TypeInv, TypeOK, Live, Settled
<1>8. ASSUME NEW c \in Calls, NEW k \in Keys, NEW f \in Fingerprints, JoinInflight(c, k, f)
       PROVE  TypeInv'
  BY <1>8 DEF JoinInflight, Record, TypeInv, TypeOK, Live, Settled
<1>9. ASSUME NEW c \in Calls, NEW k \in Keys, NEW f \in Fingerprints, StartTask(c, k, f)
       PROVE  TypeInv'
  BY <1>9 DEF StartTask, Record, Create, Entry, TypeInv, TypeOK, Live, Settled
<1>10. ASSUME NEW t \in Calls, RejectInput(t) PROVE TypeInv'
  BY <1>10 DEF RejectInput, Advance, TypeInv, TypeOK, Live, Settled
<1>11. ASSUME NEW t \in Calls, CallProvider(t) PROVE TypeInv'
  BY <1>11 DEF CallProvider, TypeInv, TypeOK, Live, Settled
<1>12. ASSUME NEW t \in Calls, AttemptSucceeds(t) PROVE TypeInv'
  BY <1>12 DEF AttemptSucceeds, Advance, TypeInv, TypeOK, Live, Settled
<1>13. ASSUME NEW t \in Calls, AttemptFailsRetryably(t) PROVE TypeInv'
  BY <1>13 DEF AttemptFailsRetryably, Advance, TypeInv, TypeOK, Live, Settled
<1>14. ASSUME NEW t \in Calls, AttemptFailsFatally(t) PROVE TypeInv'
  BY <1>14 DEF AttemptFailsFatally, Advance, TypeInv, TypeOK, Live, Settled
<1>15. ASSUME NEW t \in Calls, SettleSuccess(t) PROVE TypeInv'
  <2>1. CASE Current(t)
    <3> DEFINE k == call[t].key
               kept == Newest(MoveToEnd(order, k))
    <3>1. k \in Keys
      BY <2>1 DEF Current, TypeInv, TypeOK
    <3>2. kept \in Seq(Keys)
      BY <3>1, KeptIsSequence DEF TypeInv, TypeOK
    <3> HIDE DEF kept
    <3>3. /\ task' = [task EXCEPT ![t].state = "succeeded"]
          /\ UNCHANGED <<call, client, service>>
          /\ inflight' = [inflight EXCEPT ![k] = NoTask]
          /\ order' = kept
          /\ completed' = [j \in Keys |-> IF ~In(kept, j) THEN NoTask
                                          ELSE IF j = k THEN t ELSE completed[j]]
          /\ forgotten' \subseteq forgotten \cup Calls
          /\ since' = [j \in Keys |-> IF j = k THEN {} ELSE since[j] \cup {k}]
      BY <1>15, <2>1 DEF SettleSuccess, StoreResult, Use, kept
    <3>4. /\ completed' \in [Keys -> Calls \cup {NoTask}]
          /\ inflight' \in [Keys -> Calls \cup {NoTask}]
      BY <3>1, <3>3 DEF TypeInv, TypeOK
    <3>5. forgotten' \subseteq Calls /\ since' \in [Keys -> SUBSET Keys] /\ order' \in Seq(Keys)
      BY <3>1, <3>2, <3>3 DEF TypeInv, TypeOK
    <3>6. /\ task' \in [Calls -> [state : {"none"} \cup Live \cup Settled,
                                  attempts : 0 .. MaxAttempts]]
          /\ \A u \in Calls : task'[u].state = "ready" => task'[u].attempts < MaxAttempts
      BY <3>3 DEF TypeInv, TypeOK, Live, Settled
    <3> QED
      BY <3>3, <3>4, <3>5, <3>6 DEF TypeInv, TypeOK
  <2>2. CASE ~Current(t)
    BY <1>15, <2>2 DEF SettleSuccess, TypeInv, TypeOK, Live, Settled
  <2> QED
    BY <2>1, <2>2
<1>16. ASSUME NEW t \in Calls, SettleFailure(t) PROVE TypeInv'
  BY <1>16 DEF SettleFailure, Current, TypeInv, TypeOK, Live, Settled
<1>17. ASSUME NEW c \in Calls, Deliver(c) PROVE TypeInv'
  <2>1. call[c].state = "waiting" /\ CallInvOf(c) /\ CallInvOf(call[c].task)
    BY <1>17 DEF Deliver, CallInv, CallInvOf, Served
  <2>2. Outcome(call[c].task) \in {"returned", "failed"}
    BY <1>17, <2>1 DEF Deliver, Outcome, CallInvOf, Served, Settled, TypeInv, TypeOK
  <2> DEFINE o == Outcome(call[c].task)
  <2>3. /\ call' = [call EXCEPT ![c].state = o]
        /\ UNCHANGED <<tables, task, client, service, history>>
    BY <1>17 DEF Deliver
  <2>4. o \in {"returned", "failed"}
    BY <2>2
  <2> HIDE DEF o
  <2> DEFINE R == [state : {"idle", "waiting", "returned", "failed",
                            "aborted", "conflict", "invalid", "cancelled"},
                   key   : Keys \cup {NoKey},
                   fp    : Fingerprints,
                   task  : Calls \cup {NoTask}]
  <2>5. call \in [Calls -> R]
    BY DEF TypeInv, TypeOK
  <2>6. [call[c] EXCEPT !.state = o] \in R
    <3>1. call[c] \in R
      BY <2>5
    <3> QED
      BY <2>4, <3>1
  <2> HIDE DEF R
  <2>7. call' \in [Calls -> R]
    BY <2>3, <2>5, <2>6
  <2> USE DEF R
  <2> QED
    BY <2>3, <2>7 DEF TypeInv, TypeOK, tables, history
<1>18. ASSUME NEW c \in Calls, CancelCaller(c) PROVE TypeInv'
  <2>1. call' = [call EXCEPT ![c].state = "cancelled"]
    BY <1>18 DEF CancelCaller
  <2>2. \/ task' = task
        \/ task' = [task EXCEPT ![c].state = "cancelled"]
    BY <1>18 DEF CancelCaller
  <2> DEFINE R == [state : {"idle", "waiting", "returned", "failed",
                            "aborted", "conflict", "invalid", "cancelled"},
                   key   : Keys \cup {NoKey},
                   fp    : Fingerprints,
                   task  : Calls \cup {NoTask}]
  <2>3. call' \in [Calls -> R]
    <3>1. call \in [Calls -> R]
      BY DEF TypeInv, TypeOK
    <3>2. [call[c] EXCEPT !.state = "cancelled"] \in R
      <4>1. call[c] \in R
        BY <3>1
      <4> QED
        BY <4>1
    <3> HIDE DEF R
    <3> QED
      BY <2>1, <3>1, <3>2
  <2>4. /\ task' \in [Calls -> [state : {"none"} \cup Live \cup Settled,
                                attempts : 0 .. MaxAttempts]]
        /\ \A u \in Calls : task'[u].state = "ready" => task'[u].attempts < MaxAttempts
    <3>1. CASE task' = task
      BY <3>1 DEF TypeInv, TypeOK
    <3>2. CASE task' = [task EXCEPT ![c].state = "cancelled"]
      BY <3>2 DEF TypeInv, TypeOK, Settled
    <3> QED
      BY <2>2, <3>1, <3>2
  <2> QED
    BY <1>18, <2>3, <2>4 DEF CancelCaller, TypeInv, TypeOK
<1>19. CASE UNCHANGED vars
  BY <1>19 DEF vars, TypeInv, TypeOK, Live, Settled
<1> QED
  BY <1>1, <1>2, <1>3, <1>4, <1>5, <1>6, <1>7, <1>8, <1>9, <1>10,
     <1>11, <1>12, <1>13, <1>14, <1>15, <1>16, <1>17, <1>18, <1>19
     DEF Next, ParseText, Attempt, Settle

\* Every step keeps what is known of calls and their tasks.
LEMMA CallStep ==
    TypeInv /\ CallInv /\ TableInv /\ [Next]_vars => CallInv'
<1> SUFFICES ASSUME TypeInv /\ CallInv /\ TableInv, [Next]_vars PROVE CallInv'
  OBVIOUS
<1> USE AttemptsAssumption, KeyAssumption, TaskAssumption DEF history, tables
<1>1. ASSUME Start PROVE CallInv'
  BY <1>1 DEF Start, TypeInv, TypeOK, CallInv, CallInvOf, Served, Live, Settled
<1>2. ASSUME BeginClose PROVE CallInv'
  BY <1>2 DEF BeginClose, TypeInv, TypeOK, CallInv, CallInvOf, Served, Live, Settled
<1>3. ASSUME FinishClose PROVE CallInv'
  BY <1>3 DEF FinishClose, ForgetUses, TypeInv, TypeOK, CallInv, CallInvOf, Served, Live,
        Settled
<1>4. ASSUME NEW c \in Calls, NEW f \in Fingerprints, ParseUnkeyed(c, f) PROVE CallInv'
  <2>1. /\ call[c].state = "idle"
        /\ task[c].state = "none"
        /\ call'[c] = [state |-> "waiting", key |-> NoKey, fp |-> f, task |-> c]
        /\ \A d \in Calls : d # c => call'[d] = call[d]
        /\ \A d \in Calls : call[d].state \in Served => call[d].task \in Calls \ {c}
    BY <1>4, RecordFrame DEF ParseUnkeyed
  <2>2. /\ \A d \in Calls : d # c => task'[d] = task[d]
        /\ task'[c].state = "ready"
    BY <1>4 DEF ParseUnkeyed, Create, TypeInv, TypeOK
  <2>3. ASSUME NEW d \in Calls PROVE CallInvOf(d)'
    <3>1. CASE d = c
      BY <2>1, <2>2, <3>1, KeyAssumption, TaskAssumption DEF CallInvOf, Served
    <3>2. CASE d # c
      <4>1. CallInvOf(d)
        BY DEF CallInv
      <4> QED
        BY <2>1, <2>2, <3>2, <4>1 DEF CallInvOf, Served
    <3> QED
      BY <3>1, <3>2
  <2> QED
    BY <2>3 DEF CallInv
<1>5. ASSUME NEW c \in Calls, NEW f \in Fingerprints, RejectInvalidKey(c, f) PROVE CallInv'
  <2>1. /\ call[c].state = "idle"
        /\ task[c].state = "none"
        /\ call'[c] = [state |-> "invalid", key |-> NoKey, fp |-> f, task |-> NoTask]
        /\ \A d \in Calls : d # c => call'[d] = call[d]
        /\ \A d \in Calls : call[d].state \in Served => call[d].task \in Calls \ {c}
    BY <1>5, RecordFrame DEF RejectInvalidKey
  <2>2. task' = task
    BY <1>5 DEF RejectInvalidKey
  <2>3. ASSUME NEW d \in Calls PROVE CallInvOf(d)'
    <3>1. CASE d = c
      BY <2>1, <2>2, <3>1, KeyAssumption, TaskAssumption DEF CallInvOf, Served
    <3>2. CASE d # c
      <4>1. CallInvOf(d)
        BY DEF CallInv
      <4> QED
        BY <2>1, <2>2, <3>2, <4>1 DEF CallInvOf, Served
    <3> QED
      BY <3>1, <3>2
  <2> QED
    BY <2>3 DEF CallInv
<1>6. ASSUME NEW c \in Calls, NEW k \in Keys, NEW f \in Fingerprints, ReplayCompleted(c, k, f)
       PROVE  CallInv'
  <2>1. /\ call[c].state = "idle"
        /\ task[c].state = "none"
        /\ call'[c] = [state |-> "returned", key |-> k, fp |-> f, task |-> completed[k]]
        /\ \A d \in Calls : d # c => call'[d] = call[d]
        /\ \A d \in Calls : call[d].state \in Served => call[d].task \in Calls \ {c}
    BY <1>6, RecordFrame DEF ReplayCompleted
  <2>2. /\ task' = task
        /\ LET t == completed[k] IN /\ t \in Calls \ {c}
                               /\ task[t].state \notin {"none", "cancelled"}
                               /\ call[t].key = k
                               /\ call[t].fp = f
                               /\ task[t].state = "succeeded"
    BY <1>6, <2>1 DEF ReplayCompleted, TypeInv, TypeOK, TableInv, TableInvOf, Live, Served
  <2>3. ASSUME NEW d \in Calls PROVE CallInvOf(d)'
    <3>1. CASE d = c
      BY <2>1, <2>2, <3>1, KeyAssumption, TaskAssumption DEF CallInvOf, Served
    <3>2. CASE d # c
      <4>1. CallInvOf(d)
        BY DEF CallInv
      <4> QED
        BY <2>1, <2>2, <3>2, <4>1 DEF CallInvOf, Served
    <3> QED
      BY <3>1, <3>2
  <2> QED
    BY <2>3 DEF CallInv
<1>7. ASSUME NEW c \in Calls, NEW k \in Keys, NEW f \in Fingerprints, RejectConflict(c, k, f)
       PROVE  CallInv'
  <2>1. /\ call[c].state = "idle"
        /\ task[c].state = "none"
        /\ call'[c] = [state |-> "conflict", key |-> k, fp |-> f, task |-> NoTask]
        /\ \A d \in Calls : d # c => call'[d] = call[d]
        /\ \A d \in Calls : call[d].state \in Served => call[d].task \in Calls \ {c}
    BY <1>7, RecordFrame DEF RejectConflict
  <2>2. task' = task
    BY <1>7 DEF RejectConflict
  <2>3. ASSUME NEW d \in Calls PROVE CallInvOf(d)'
    <3>1. CASE d = c
      BY <2>1, <2>2, <3>1, KeyAssumption, TaskAssumption DEF CallInvOf, Served
    <3>2. CASE d # c
      <4>1. CallInvOf(d)
        BY DEF CallInv
      <4> QED
        BY <2>1, <2>2, <3>2, <4>1 DEF CallInvOf, Served
    <3> QED
      BY <3>1, <3>2
  <2> QED
    BY <2>3 DEF CallInv
<1>8. ASSUME NEW c \in Calls, NEW k \in Keys, NEW f \in Fingerprints, JoinInflight(c, k, f)
       PROVE  CallInv'
  <2>1. /\ call[c].state = "idle"
        /\ task[c].state = "none"
        /\ call'[c] = [state |-> "waiting", key |-> k, fp |-> f, task |-> inflight[k]]
        /\ \A d \in Calls : d # c => call'[d] = call[d]
        /\ \A d \in Calls : call[d].state \in Served => call[d].task \in Calls \ {c}
    BY <1>8, RecordFrame DEF JoinInflight
  <2>2. /\ task' = task
        /\ LET t == inflight[k] IN /\ t \in Calls \ {c}
                               /\ task[t].state \notin {"none", "cancelled"}
                               /\ call[t].key = k
                               /\ call[t].fp = f
    BY <1>8, <2>1 DEF JoinInflight, TypeInv, TypeOK, TableInv, TableInvOf, Live, Served
  <2>3. ASSUME NEW d \in Calls PROVE CallInvOf(d)'
    <3>1. CASE d = c
      BY <2>1, <2>2, <3>1, KeyAssumption, TaskAssumption DEF CallInvOf, Served
    <3>2. CASE d # c
      <4>1. CallInvOf(d)
        BY DEF CallInv
      <4> QED
        BY <2>1, <2>2, <3>2, <4>1 DEF CallInvOf, Served
    <3> QED
      BY <3>1, <3>2
  <2> QED
    BY <2>3 DEF CallInv
<1>9. ASSUME NEW c \in Calls, NEW k \in Keys, NEW f \in Fingerprints, StartTask(c, k, f)
       PROVE  CallInv'
  <2>1. /\ call[c].state = "idle"
        /\ task[c].state = "none"
        /\ call'[c] = [state |-> "waiting", key |-> k, fp |-> f, task |-> c]
        /\ \A d \in Calls : d # c => call'[d] = call[d]
        /\ \A d \in Calls : call[d].state \in Served => call[d].task \in Calls \ {c}
    BY <1>9, RecordFrame DEF StartTask
  <2>2. /\ \A d \in Calls : d # c => task'[d] = task[d]
        /\ task'[c].state = "ready"
    BY <1>9 DEF StartTask, Create, TypeInv, TypeOK
  <2>3. ASSUME NEW d \in Calls PROVE CallInvOf(d)'
    <3>1. CASE d = c
      BY <2>1, <2>2, <3>1, KeyAssumption, TaskAssumption DEF CallInvOf, Served
    <3>2. CASE d # c
      <4>1. CallInvOf(d)
        BY DEF CallInv
      <4> QED
        BY <2>1, <2>2, <3>2, <4>1 DEF CallInvOf, Served
    <3> QED
      BY <3>1, <3>2
  <2> QED
    BY <2>3 DEF CallInv
<1>10. ASSUME NEW t \in Calls, RejectInput(t) PROVE CallInv'
  BY <1>10 DEF RejectInput, Advance, TypeInv, TypeOK, CallInv, CallInvOf, Served, Live, Settled
<1>11. ASSUME NEW t \in Calls, CallProvider(t) PROVE CallInv'
  BY <1>11 DEF CallProvider, TypeInv, TypeOK, CallInv, CallInvOf, Served, Live, Settled
<1>12. ASSUME NEW t \in Calls, AttemptSucceeds(t) PROVE CallInv'
  BY <1>12 DEF AttemptSucceeds, Advance, TypeInv, TypeOK, CallInv, CallInvOf, Served, Live,
        Settled
<1>13. ASSUME NEW t \in Calls, AttemptFailsRetryably(t) PROVE CallInv'
  BY <1>13 DEF AttemptFailsRetryably, Advance, TypeInv, TypeOK, CallInv, CallInvOf, Served,
        Live, Settled
<1>14. ASSUME NEW t \in Calls, AttemptFailsFatally(t) PROVE CallInv'
  BY <1>14 DEF AttemptFailsFatally, Advance, TypeInv, TypeOK, CallInv, CallInvOf, Served, Live,
        Settled
<1>15. ASSUME NEW t \in Calls, SettleSuccess(t) PROVE CallInv'
  BY <1>15 DEF SettleSuccess, StoreResult, Current, Use, TypeInv, TypeOK, CallInv, CallInvOf,
        Served, Live, Settled
<1>16. ASSUME NEW t \in Calls, SettleFailure(t) PROVE CallInv'
  BY <1>16 DEF SettleFailure, Current, TypeInv, TypeOK, CallInv, CallInvOf, Served, Live,
        Settled
<1>17. ASSUME NEW c \in Calls, Deliver(c) PROVE CallInv'
  BY <1>17 DEF Deliver, Outcome, TypeInv, TypeOK, CallInv, CallInvOf, Served, Live, Settled
<1>18. ASSUME NEW c \in Calls, CancelCaller(c) PROVE CallInv'
  BY <1>18 DEF CancelCaller, TypeInv, TypeOK, CallInv, CallInvOf, Served, Live, Settled
<1>19. CASE UNCHANGED vars
  BY <1>19 DEF vars, TypeInv, TypeOK, CallInv, CallInvOf, Served, Live, Settled
<1> QED
  BY <1>1, <1>2, <1>3, <1>4, <1>5, <1>6, <1>7, <1>8, <1>9, <1>10,
     <1>11, <1>12, <1>13, <1>14, <1>15, <1>16, <1>17, <1>18, <1>19
     DEF Next, ParseText, Attempt, Settle

\* A call that creates no task disturbs neither the tables nor their tasks.
LEMMA QuietRecord ==
    ASSUME TypeInv, CallInv, TableInv,
           NEW c \in Calls, NEW k, NEW f, NEW s, NEW t, Record(c, k, f, s, t),
           UNCHANGED <<completed, inflight, task, forgotten>>
    PROVE  TableInv' /\ (Registered => Registered')
<1>1. /\ task[c].state = "none"
      /\ \A d \in Calls : d # c => call'[d] = call[d]
  BY RecordFrame, Zenon
<1>2. ASSUME NEW j \in Keys PROVE TableInvOf(j)'
  <2>1. TableInvOf(j) /\ completed[j] \in Calls \cup {NoTask} /\ inflight[j] \in Calls \cup {NoTask}
    BY DEF TableInv, TypeInv, TypeOK
  <2>2. completed[j] # c /\ inflight[j] # c
    BY <1>1, <2>1, TaskAssumption DEF TableInvOf, Live
  <2> QED
    BY <1>1, <2>1, <2>2 DEF TableInvOf
<1>3. ASSUME Registered, NEW u \in Calls PROVE RegisteredOf(u)'
  <2>1. CASE u = c
    BY <1>1, <2>1 DEF RegisteredOf, Live
  <2>2. CASE u # c
    BY <1>1, <1>3, <2>2 DEF Registered, RegisteredOf, Keyed
  <2> QED
    BY <2>1, <2>2
<1> QED
  BY <1>2, <1>3 DEF TableInv, Registered

\* What a successful task in flight does to the tables.
LEMMA StoreFrame ==
    ASSUME TypeInv, TableInv, OrderInv, NEW t \in Calls, SettleSuccess(t), Current(t)
    PROVE  LET k == call[t].key IN
           /\ k \in Keys
           /\ inflight[k] = t
           /\ completed[k] = NoTask
           /\ inflight' = [inflight EXCEPT ![k] = NoTask]
           /\ order' = Newest(MoveToEnd(order, k))
           /\ completed' = [j \in Keys |-> IF ~In(order', j) THEN NoTask
                                            ELSE IF j = k THEN t ELSE completed[j]]
           /\ forgotten' = forgotten \cup
                {u \in Calls : \E j \in Keys : completed[j] = u /\ ~In(order', j)}
           /\ order' \in Seq(Keys) /\ Distinct(order') /\ Len(order') <= Capacity
           /\ In(order', k)
           /\ \A j \in Keys : In(order', j) => In(order, j) \/ j = k
<1> DEFINE k == call[t].key
           m == MoveToEnd(order, k)
<1>1. k \in Keys /\ inflight[k] = t
  BY DEF Current, TypeInv, TypeOK
<1>2. completed[k] = NoTask
  BY <1>1, TaskAssumption DEF TableInv, TableInvOf
<1>3. StoreResult(t)
  BY DEF SettleSuccess
<1>4. order' = Newest(m)
  BY <1>3 DEF StoreResult
<1>5. order \in Seq(Keys) /\ Distinct(order)
  BY DEF TypeInv, TypeOK, OrderInv
<1> HIDE DEF k
<1>6. /\ m \in Seq(Keys)
      /\ Distinct(m)
      /\ \A j \in Keys : In(m, j) <=> In(order, j) \/ j = k
      /\ Len(m) = IF In(order, k) THEN Len(order) ELSE Len(order) + 1
      /\ m[Len(m)] = k
  BY <1>1, <1>5, MoveToEndProperties
<1> HIDE DEF m
<1>7. Len(m) > 0
  BY <1>5, <1>6 DEF In
<1>8. /\ order' \in Seq(Keys) /\ Distinct(order') /\ Len(order') <= Capacity
      /\ \A j \in Keys : In(order', j) => In(m, j)
      /\ In(order', k)
  BY <1>4, <1>6, <1>7, NewestProperties
<1>9. /\ inflight' = [inflight EXCEPT ![k] = NoTask]
      /\ completed' = [j \in Keys |-> IF ~In(order', j) THEN NoTask
                                       ELSE IF j = k THEN t ELSE completed[j]]
      /\ forgotten' = forgotten \cup
                {u \in Calls : \E j \in Keys : completed[j] = u /\ ~In(order', j)}
  BY <1>3 DEF StoreResult, k
<1> QED
  BY <1>1, <1>2, <1>4, <1>6, <1>8, <1>9 DEF k, m

\* A forgotten task never goes back to not having begun.
LEMMA ForgettableStep ==
    TypeInv /\ CallInv /\ TableInv /\ Forgettable /\ [Next]_vars => Forgettable'
<1> SUFFICES ASSUME TypeInv /\ CallInv /\ TableInv /\ Forgettable, [Next]_vars PROVE Forgettable'
  OBVIOUS
<1> USE AttemptsAssumption, KeyAssumption, TaskAssumption DEF history, tables
<1>1. ASSUME Start PROVE Forgettable'
  BY <1>1 DEF Start, TypeInv, TypeOK, Forgettable
<1>2. ASSUME BeginClose PROVE Forgettable'
  BY <1>2 DEF BeginClose, TypeInv, TypeOK, Forgettable
<1>3. ASSUME FinishClose PROVE Forgettable'
  <2>1. /\ task' = task
        /\ forgotten' = forgotten \cup
             {t \in Calls : \E k \in Keys : t \in {completed[k], inflight[k]}}
    BY <1>3 DEF FinishClose
  <2>2. ASSUME NEW t \in Calls, NEW k \in Keys, t \in {completed[k], inflight[k]}
        PROVE  task[t].state # "none"
    BY <2>2, TaskAssumption DEF TableInv, TableInvOf, Live
  <2> QED
    BY <2>1, <2>2 DEF Forgettable
<1>4. ASSUME NEW c \in Calls, NEW f \in Fingerprints, ParseUnkeyed(c, f) PROVE Forgettable'
  BY <1>4 DEF ParseUnkeyed, Record, Create, TypeInv, TypeOK, Forgettable
<1>5. ASSUME NEW c \in Calls, NEW f \in Fingerprints, RejectInvalidKey(c, f) PROVE Forgettable'
  BY <1>5 DEF RejectInvalidKey, Record, TypeInv, TypeOK, Forgettable
<1>6. ASSUME NEW c \in Calls, NEW k \in Keys, NEW f \in Fingerprints, ReplayCompleted(c, k, f)
       PROVE  Forgettable'
  BY <1>6 DEF ReplayCompleted, Record, Use, TypeInv, TypeOK, Forgettable
<1>7. ASSUME NEW c \in Calls, NEW k \in Keys, NEW f \in Fingerprints, RejectConflict(c, k, f)
       PROVE  Forgettable'
  BY <1>7 DEF RejectConflict, Record, TypeInv, TypeOK, Forgettable
<1>8. ASSUME NEW c \in Calls, NEW k \in Keys, NEW f \in Fingerprints, JoinInflight(c, k, f)
       PROVE  Forgettable'
  BY <1>8 DEF JoinInflight, Record, TypeInv, TypeOK, Forgettable
<1>9. ASSUME NEW c \in Calls, NEW k \in Keys, NEW f \in Fingerprints, StartTask(c, k, f)
       PROVE  Forgettable'
  BY <1>9 DEF StartTask, Record, Create, Entry, TypeInv, TypeOK, Forgettable
<1>10. ASSUME NEW t \in Calls, RejectInput(t) PROVE Forgettable'
  BY <1>10 DEF RejectInput, Advance, TypeInv, TypeOK, Forgettable
<1>11. ASSUME NEW t \in Calls, CallProvider(t) PROVE Forgettable'
  BY <1>11 DEF CallProvider, TypeInv, TypeOK, Forgettable
<1>12. ASSUME NEW t \in Calls, AttemptSucceeds(t) PROVE Forgettable'
  BY <1>12 DEF AttemptSucceeds, Advance, TypeInv, TypeOK, Forgettable
<1>13. ASSUME NEW t \in Calls, AttemptFailsRetryably(t) PROVE Forgettable'
  BY <1>13 DEF AttemptFailsRetryably, Advance, TypeInv, TypeOK, Forgettable
<1>14. ASSUME NEW t \in Calls, AttemptFailsFatally(t) PROVE Forgettable'
  BY <1>14 DEF AttemptFailsFatally, Advance, TypeInv, TypeOK, Forgettable
<1>15. ASSUME NEW t \in Calls, SettleSuccess(t) PROVE Forgettable'
  <2>1. \A u \in Calls : task[u].state # "none" => task'[u].state # "none"
    BY <1>15 DEF SettleSuccess, TypeInv, TypeOK
  <2>2. ASSUME NEW u \in forgotten', u \notin forgotten
        PROVE  u \in Calls /\ \E j \in Keys : completed[j] = u
    BY <1>15, <2>2 DEF SettleSuccess, StoreResult
  <2>3. ASSUME NEW u \in Calls, NEW j \in Keys, completed[j] = u
        PROVE  task[u].state # "none"
    BY <2>3, TaskAssumption DEF TableInv, TableInvOf
  <2> QED
    BY <2>1, <2>2, <2>3 DEF Forgettable, TypeInv, TypeOK
<1>16. ASSUME NEW t \in Calls, SettleFailure(t) PROVE Forgettable'
  BY <1>16 DEF SettleFailure, Current, TypeInv, TypeOK, Forgettable
<1>17. ASSUME NEW c \in Calls, Deliver(c) PROVE Forgettable'
  BY <1>17 DEF Deliver, Outcome, TypeInv, TypeOK, Forgettable
<1>18. ASSUME NEW c \in Calls, CancelCaller(c) PROVE Forgettable'
  <2>1. forgotten' = forgotten /\ (task' = task \/ task' = [task EXCEPT ![c].state = "cancelled"])
    BY <1>18 DEF CancelCaller
  <2>2. \A u \in Calls : task[u].state # "none" => task'[u].state # "none"
    <3>1. CASE task' = task
      BY <3>1
    <3>2. CASE task' = [task EXCEPT ![c].state = "cancelled"]
      BY <3>2 DEF TypeInv, TypeOK
    <3> QED
      BY <2>1, <3>1, <3>2
  <2> QED
    BY <2>1, <2>2 DEF Forgettable, TypeInv, TypeOK
<1>19. CASE UNCHANGED vars
  BY <1>19 DEF vars, TypeInv, TypeOK, Forgettable
<1> QED
  BY <1>1, <1>2, <1>3, <1>4, <1>5, <1>6, <1>7, <1>8, <1>9, <1>10,
     <1>11, <1>12, <1>13, <1>14, <1>15, <1>16, <1>17, <1>18, <1>19
     DEF Next, ParseText, Attempt, Settle

\* Every step keeps the tables in agreement with the tasks.
LEMMA TableStep ==
    TypeInv /\ CallInv /\ TableInv /\ Forgettable /\ Registered /\ OrderInv
      /\ [Next]_vars => TableInv'
<1> SUFFICES ASSUME TypeInv /\ CallInv /\ TableInv /\ Forgettable /\ Registered /\ OrderInv,
                    [Next]_vars
             PROVE TableInv'
  OBVIOUS
<1> USE AttemptsAssumption, KeyAssumption, TaskAssumption DEF history, tables
<1>1. ASSUME Start PROVE TableInv'
  BY <1>1 DEF Start, TypeInv, TypeOK, TableInv, TableInvOf, Live
<1>2. ASSUME BeginClose PROVE TableInv'
  BY <1>2 DEF BeginClose, TypeInv, TypeOK, TableInv, TableInvOf, Live
<1>3. ASSUME FinishClose PROVE TableInv'
  <2>1. completed' = [k \in Keys |-> NoTask] /\ inflight' = [k \in Keys |-> NoTask]
    BY <1>3 DEF FinishClose
  <2> QED
    BY <2>1 DEF TableInv, TableInvOf
<1>4. ASSUME NEW c \in Calls, NEW f \in Fingerprints, ParseUnkeyed(c, f) PROVE TableInv'
  <2>1. /\ task[c].state = "none"
        /\ call'[c] = [state |-> "waiting", key |-> NoKey, fp |-> f, task |-> c]
        /\ \A d \in Calls : d # c => call'[d] = call[d]
    BY <1>4, RecordFrame DEF ParseUnkeyed
  <2>2. /\ task'[c].state = "ready"
        /\ \A d \in Calls : d # c => task'[d] = task[d]
    BY <1>4 DEF ParseUnkeyed, Create, TypeInv, TypeOK
  <2>3. UNCHANGED <<completed, inflight, forgotten>>
    BY <1>4 DEF ParseUnkeyed
  <2>4. ASSUME NEW j \in Keys PROVE TableInvOf(j)'
    <3>1. /\ TableInvOf(j)
          /\ completed[j] \in Calls \cup {NoTask}
          /\ inflight[j] \in Calls \cup {NoTask}
      BY DEF TableInv, TypeInv, TypeOK
    <3>2. completed[j] # c /\ inflight[j] # c
      BY <2>1, <3>1 DEF TableInvOf, Live
    <3> QED
      BY <2>1, <2>2, <2>3, <3>1, <3>2 DEF TableInvOf
  <2> QED
    BY <2>4 DEF TableInv
<1>5. ASSUME NEW c \in Calls, NEW f \in Fingerprints, RejectInvalidKey(c, f) PROVE TableInv'
  BY <1>5, QuietRecord DEF RejectInvalidKey
<1>6. ASSUME NEW c \in Calls, NEW k \in Keys, NEW f \in Fingerprints, ReplayCompleted(c, k, f)
       PROVE  TableInv'
  BY <1>6, QuietRecord DEF ReplayCompleted
<1>7. ASSUME NEW c \in Calls, NEW k \in Keys, NEW f \in Fingerprints, RejectConflict(c, k, f)
       PROVE  TableInv'
  BY <1>7, QuietRecord DEF RejectConflict
<1>8. ASSUME NEW c \in Calls, NEW k \in Keys, NEW f \in Fingerprints, JoinInflight(c, k, f)
       PROVE  TableInv'
  BY <1>8, QuietRecord DEF JoinInflight
<1>9. ASSUME NEW c \in Calls, NEW k \in Keys, NEW f \in Fingerprints, StartTask(c, k, f)
       PROVE  TableInv'
  <2>1. /\ task[c].state = "none"
        /\ call'[c] = [state |-> "waiting", key |-> k, fp |-> f, task |-> c]
        /\ \A d \in Calls : d # c => call'[d] = call[d]
    BY <1>9, RecordFrame DEF StartTask
  <2>2. /\ task'[c].state = "ready"
        /\ \A d \in Calls : d # c => task'[d] = task[d]
    BY <1>9 DEF StartTask, Create, TypeInv, TypeOK
  <2>3. /\ UNCHANGED <<completed, forgotten>>
        /\ inflight' = [inflight EXCEPT ![k] = c]
        /\ completed[k] = NoTask
    BY <1>9 DEF StartTask, Entry
  <2>5. c \notin forgotten
    BY <2>1 DEF Forgettable
  <2>4. ASSUME NEW j \in Keys PROVE TableInvOf(j)'
    <3>1. /\ TableInvOf(j)
          /\ completed[j] \in Calls \cup {NoTask}
          /\ inflight[j] \in Calls \cup {NoTask}
      BY DEF TableInv, TypeInv, TypeOK
    <3>2. completed[j] # c /\ inflight[j] # c
      BY <2>1, <3>1 DEF TableInvOf, Live
    <3>3. inflight'[j] = IF j = k THEN c ELSE inflight[j]
      BY <2>3 DEF TypeInv, TypeOK
    <3> QED
      BY <2>1, <2>2, <2>3, <2>5, <3>1, <3>2, <3>3 DEF TableInvOf, Live
  <2> QED
    BY <2>4 DEF TableInv
<1>10. ASSUME NEW t \in Calls, RejectInput(t) PROVE TableInv'
  BY <1>10 DEF RejectInput, Advance, TypeInv, TypeOK, TableInv, TableInvOf, Live
<1>11. ASSUME NEW t \in Calls, CallProvider(t) PROVE TableInv'
  BY <1>11 DEF CallProvider, TypeInv, TypeOK, TableInv, TableInvOf, Live
<1>12. ASSUME NEW t \in Calls, AttemptSucceeds(t) PROVE TableInv'
  BY <1>12 DEF AttemptSucceeds, Advance, TypeInv, TypeOK, TableInv, TableInvOf, Live
<1>13. ASSUME NEW t \in Calls, AttemptFailsRetryably(t) PROVE TableInv'
  BY <1>13 DEF AttemptFailsRetryably, Advance, TypeInv, TypeOK, TableInv, TableInvOf, Live
<1>14. ASSUME NEW t \in Calls, AttemptFailsFatally(t) PROVE TableInv'
  BY <1>14 DEF AttemptFailsFatally, Advance, TypeInv, TypeOK, TableInv, TableInvOf, Live
<1>15. ASSUME NEW t \in Calls, SettleSuccess(t) PROVE TableInv'
  <2>1. task' = [task EXCEPT ![t].state = "succeeded"] /\ call' = call
    BY <1>15 DEF SettleSuccess
  <2>2. CASE Current(t)
    <3> DEFINE k == call[t].key
    <3>1. /\ inflight' = [inflight EXCEPT ![k] = NoTask]
          /\ completed' = [j \in Keys |-> IF ~In(order', j) THEN NoTask
                                           ELSE IF j = k THEN t ELSE completed[j]]
          /\ forgotten' = forgotten \cup
                {u \in Calls : \E j \in Keys : completed[j] = u /\ ~In(order', j)}
          /\ k \in Keys
          /\ inflight[k] = t
          /\ completed[k] = NoTask
      BY <1>15, <2>2, StoreFrame
    <3> HIDE DEF In
    <3>2. TableInvOf(k) /\ task[t].state \in Live
      BY <3>1, TaskAssumption DEF TableInv, TableInvOf
    <3>3. t \notin forgotten'
      <4>1. \A j \in Keys : completed[j] # t
        BY <3>2 DEF TableInv, TableInvOf, Live
      <4> QED
        BY <3>1, <3>2, <4>1, TaskAssumption DEF TableInvOf
    <3>4. ASSUME NEW j \in Keys PROVE TableInvOf(j)'
      <4>1. /\ TableInvOf(j)
            /\ completed[j] \in Calls \cup {NoTask}
            /\ inflight[j] \in Calls \cup {NoTask}
        BY DEF TableInv, TypeInv, TypeOK
      <4>2. CASE j = k
        BY <2>1, <3>1, <3>3, <4>2 DEF TableInvOf, TypeInv, TypeOK
      <4>3. CASE j # k
        <5>1. completed'[j] \in {completed[j], NoTask} /\ inflight'[j] = inflight[j]
          BY <3>1, <4>3 DEF TypeInv, TypeOK
        <5>2. completed[j] # t /\ inflight[j] # t
          BY <3>2, <4>1, <4>3, <3>1 DEF TableInvOf, Live
        <5>3. completed'[j] # NoTask => completed'[j] \notin forgotten'
          <6>1. \A i \in Keys : completed[i] = completed[j] /\ completed[j] # NoTask => i = j
            BY DEF TableInv, TableInvOf
          <6> QED
            BY <3>1, <4>1, <4>3, <6>1 DEF TableInvOf
        <5>4. inflight[j] # NoTask => inflight[j] \notin forgotten'
          <6>1. inflight[j] # NoTask => \A i \in Keys : completed[i] # inflight[j]
            BY <4>1, TaskAssumption DEF TableInv, TableInvOf, Live
          <6> QED
            BY <3>1, <4>1, <6>1 DEF TableInvOf
        <5>5. \A u \in Calls : u # t => task'[u] = task[u]
          BY <2>1 DEF TypeInv, TypeOK
        <5> QED
          BY <2>1, <4>1, <5>1, <5>2, <5>3, <5>4, <5>5 DEF TableInvOf
      <4> QED
        BY <4>2, <4>3
    <3> QED
      BY <3>4 DEF TableInv
  <2>3. CASE ~Current(t)
    <3>1. UNCHANGED <<completed, inflight, forgotten>> /\ task[t].state = "parsed"
      BY <1>15, <2>3 DEF SettleSuccess
    <3>2. \A k \in Keys : inflight[k] # t
      BY <2>3, TaskAssumption, KeyAssumption DEF Current, TableInv, TableInvOf
    <3>3. ASSUME NEW j \in Keys PROVE TableInvOf(j)'
      BY <2>1, <3>1, <3>2 DEF TableInv, TableInvOf, TypeInv, TypeOK
    <3> QED
      BY <3>3 DEF TableInv
  <2> QED
    BY <2>2, <2>3
<1>16. ASSUME NEW t \in Calls, SettleFailure(t) PROVE TableInv'
  BY <1>16 DEF SettleFailure, Current, TypeInv, TypeOK, TableInv, TableInvOf, Live
<1>17. ASSUME NEW c \in Calls, Deliver(c) PROVE TableInv'
  BY <1>17 DEF Deliver, Outcome, TypeInv, TypeOK, TableInv, TableInvOf, Live
<1>18. ASSUME NEW c \in Calls, CancelCaller(c) PROVE TableInv'
  <2>1. /\ call' = [call EXCEPT ![c].state = "cancelled"]
        /\ UNCHANGED <<completed, inflight, forgotten>>
        /\ \/ task' = task
           \/ call[c].key = NoKey /\ task' = [task EXCEPT ![c].state = "cancelled"]
    BY <1>18 DEF CancelCaller
  <2>2. \A u \in Calls : call'[u].key = call[u].key
    BY <2>1 DEF TypeInv, TypeOK
  <2>3. \A u \in Calls : call[u].key # NoKey => task'[u] = task[u]
    BY <2>1 DEF TypeInv, TypeOK
  <2>4. ASSUME NEW j \in Keys PROVE TableInvOf(j)'
    <3>1. /\ TableInvOf(j)
          /\ completed[j] \in Calls \cup {NoTask}
          /\ inflight[j] \in Calls \cup {NoTask}
      BY DEF TableInv, TypeInv, TypeOK
    <3> QED
      BY <2>1, <2>2, <2>3, <3>1, KeyAssumption DEF TableInvOf
  <2> QED
    BY <2>4 DEF TableInv
<1>19. CASE UNCHANGED vars
  BY <1>19 DEF vars, TypeInv, TypeOK, TableInv, TableInvOf, Live
<1> QED
  BY <1>1, <1>2, <1>3, <1>4, <1>5, <1>6, <1>7, <1>8, <1>9, <1>10,
     <1>11, <1>12, <1>13, <1>14, <1>15, <1>16, <1>17, <1>18, <1>19
     DEF Next, ParseText, Attempt, Settle

\* Every step keeps each task that is not forgotten in its table.
LEMMA RegisteredStep ==
    TypeInv /\ CallInv /\ TableInv /\ Forgettable /\ Registered /\ OrderInv
      /\ [Next]_vars => Registered'
<1> SUFFICES ASSUME TypeInv /\ CallInv /\ TableInv /\ Forgettable /\ Registered /\ OrderInv,
                    [Next]_vars
             PROVE Registered'
  OBVIOUS
<1> USE AttemptsAssumption, KeyAssumption, TaskAssumption DEF history, tables
<1>1. ASSUME Start PROVE Registered'
  BY <1>1 DEF Start, TypeInv, TypeOK, Registered, RegisteredOf, Keyed, Live
<1>2. ASSUME BeginClose PROVE Registered'
  BY <1>2 DEF BeginClose, TypeInv, TypeOK, Registered, RegisteredOf, Keyed, Live
<1>3. ASSUME FinishClose PROVE Registered'
  BY <1>3 DEF FinishClose, ForgetUses, TypeInv, TypeOK, Registered, RegisteredOf, Keyed, Live
<1>4. ASSUME NEW c \in Calls, NEW f \in Fingerprints, ParseUnkeyed(c, f) PROVE Registered'
  BY <1>4 DEF ParseUnkeyed, Record, Create, TypeInv, TypeOK, Registered, RegisteredOf, Keyed,
        Live
<1>5. ASSUME NEW c \in Calls, NEW f \in Fingerprints, RejectInvalidKey(c, f) PROVE Registered'
  BY <1>5, QuietRecord DEF RejectInvalidKey
<1>6. ASSUME NEW c \in Calls, NEW k \in Keys, NEW f \in Fingerprints, ReplayCompleted(c, k, f)
       PROVE  Registered'
  BY <1>6, QuietRecord DEF ReplayCompleted
<1>7. ASSUME NEW c \in Calls, NEW k \in Keys, NEW f \in Fingerprints, RejectConflict(c, k, f)
       PROVE  Registered'
  BY <1>7, QuietRecord DEF RejectConflict
<1>8. ASSUME NEW c \in Calls, NEW k \in Keys, NEW f \in Fingerprints, JoinInflight(c, k, f)
       PROVE  Registered'
  BY <1>8, QuietRecord DEF JoinInflight
<1>9. ASSUME NEW c \in Calls, NEW k \in Keys, NEW f \in Fingerprints, StartTask(c, k, f)
       PROVE  Registered'
  BY <1>9 DEF StartTask, Record, Create, Entry, TypeInv, TypeOK, Registered, RegisteredOf,
        Keyed, Live
<1>10. ASSUME NEW t \in Calls, RejectInput(t) PROVE Registered'
  BY <1>10 DEF RejectInput, Advance, TypeInv, TypeOK, Registered, RegisteredOf, Keyed, Live
<1>11. ASSUME NEW t \in Calls, CallProvider(t) PROVE Registered'
  BY <1>11 DEF CallProvider, TypeInv, TypeOK, Registered, RegisteredOf, Keyed, Live
<1>12. ASSUME NEW t \in Calls, AttemptSucceeds(t) PROVE Registered'
  BY <1>12 DEF AttemptSucceeds, Advance, TypeInv, TypeOK, Registered, RegisteredOf, Keyed, Live
<1>13. ASSUME NEW t \in Calls, AttemptFailsRetryably(t) PROVE Registered'
  BY <1>13 DEF AttemptFailsRetryably, Advance, TypeInv, TypeOK, Registered, RegisteredOf, Keyed,
        Live
<1>14. ASSUME NEW t \in Calls, AttemptFailsFatally(t) PROVE Registered'
  BY <1>14 DEF AttemptFailsFatally, Advance, TypeInv, TypeOK, Registered, RegisteredOf, Keyed,
        Live
<1>15. ASSUME NEW t \in Calls, SettleSuccess(t) PROVE Registered'
  <2> DEFINE k == call[t].key
  <2>1. task' = [task EXCEPT ![t].state = "succeeded"] /\ call' = call
    BY <1>15 DEF SettleSuccess
  <2>2. CASE Current(t)
    <3>1. /\ inflight' = [inflight EXCEPT ![k] = NoTask]
          /\ completed' = [j \in Keys |-> IF ~In(order', j) THEN NoTask
                                           ELSE IF j = k THEN t ELSE completed[j]]
          /\ forgotten' = forgotten \cup
                {u \in Calls : \E j \in Keys : completed[j] = u /\ ~In(order', j)}
          /\ k \in Keys /\ In(order', k)
          /\ inflight[k] = t
      BY <1>15, <2>2, StoreFrame
    <3> HIDE DEF In
    <3>2. ASSUME NEW u \in Calls PROVE RegisteredOf(u)'
      <4>1. CASE u = t
        BY <2>1, <3>1, <4>1 DEF RegisteredOf, Keyed, TypeInv, TypeOK, Live
      <4>2. CASE u # t
        <5>1. task'[u] = task[u] /\ RegisteredOf(u) /\ forgotten \subseteq forgotten'
          BY <2>1, <3>1, <4>2 DEF TypeInv, TypeOK, Registered
        <5>2. ASSUME Keyed(u), u \notin forgotten', task[u].state \in Live
              PROVE  inflight'[call[u].key] = u
          BY <3>1, <4>2, <5>1, <5>2 DEF RegisteredOf, Keyed, TypeInv, TypeOK
        <5>3. ASSUME Keyed(u), u \notin forgotten', task[u].state = "succeeded"
              PROVE  completed'[call[u].key] = u
          <6>1. completed[call[u].key] = u /\ call[u].key \in Keys
            BY <5>1, <5>3 DEF RegisteredOf, Keyed, TypeInv, TypeOK
          <6>2. In(order', call[u].key)
            BY <3>1, <5>3, <6>1
          <6>3. call[u].key # k
            BY <2>2, <6>1, <4>2, <1>15, StoreFrame, TaskAssumption
          <6> QED
            BY <3>1, <6>1, <6>2, <6>3
        <5> QED
          BY <2>1, <5>1, <5>2, <5>3, Zenon DEF RegisteredOf, Keyed
      <4> QED
        BY <4>1, <4>2
    <3> QED
      BY <3>2 DEF Registered
  <2>3. CASE ~Current(t)
    <3>1. UNCHANGED <<completed, inflight, forgotten>> /\ task[t].state = "parsed"
      BY <1>15, <2>3 DEF SettleSuccess
    <3>2. Keyed(t) => t \in forgotten
      BY <2>3, <3>1 DEF Registered, RegisteredOf, Keyed, Current, Live
    <3>3. ASSUME NEW u \in Calls PROVE RegisteredOf(u)'
      BY <2>1, <3>1, <3>2 DEF Registered, RegisteredOf, Keyed, TypeInv, TypeOK, Live
    <3> QED
      BY <3>3 DEF Registered
  <2> QED
    BY <2>2, <2>3
<1>16. ASSUME NEW t \in Calls, SettleFailure(t) PROVE Registered'
  BY <1>16 DEF SettleFailure, Current, TypeInv, TypeOK, Registered, RegisteredOf, Keyed, Live
<1>17. ASSUME NEW c \in Calls, Deliver(c) PROVE Registered'
  BY <1>17 DEF Deliver, Outcome, TypeInv, TypeOK, Registered, RegisteredOf, Keyed, Live
<1>18. ASSUME NEW c \in Calls, CancelCaller(c) PROVE Registered'
  BY <1>18 DEF CancelCaller, TypeInv, TypeOK, Registered, RegisteredOf, Keyed, Live
<1>19. CASE UNCHANGED vars
  BY <1>19 DEF vars, TypeInv, TypeOK, Registered, RegisteredOf, Keyed, Live
<1> QED
  BY <1>1, <1>2, <1>3, <1>4, <1>5, <1>6, <1>7, <1>8, <1>9, <1>10,
     <1>11, <1>12, <1>13, <1>14, <1>15, <1>16, <1>17, <1>18, <1>19
     DEF Next, ParseText, Attempt, Settle

\* Every step keeps the order in agreement with the completed table.
LEMMA OrderStep ==
    TypeInv /\ CallInv /\ TableInv /\ OrderInv /\ [Next]_vars => OrderInv'
<1> SUFFICES ASSUME TypeInv /\ CallInv /\ TableInv /\ OrderInv, [Next]_vars PROVE OrderInv'
  OBVIOUS
<1> USE AttemptsAssumption, KeyAssumption, TaskAssumption DEF history, tables
<1>1. ASSUME Start PROVE OrderInv'
  BY <1>1 DEF Start, OrderInv
<1>2. ASSUME BeginClose PROVE OrderInv'
  BY <1>2 DEF BeginClose, OrderInv
<1>3. ASSUME FinishClose PROVE OrderInv'
  <2>1. order' = <<>> /\ completed' = [k \in Keys |-> NoTask]
    BY <1>3 DEF FinishClose
  <2>2. Len(order') = 0
    BY <2>1
  <2> QED
    BY <2>1, <2>2, CapacityAssumption DEF OrderInv, Distinct, In
<1>4. ASSUME NEW c \in Calls, NEW f \in Fingerprints, ParseUnkeyed(c, f) PROVE OrderInv'
  BY <1>4 DEF ParseUnkeyed, Record, Create, OrderInv
<1>5. ASSUME NEW c \in Calls, NEW f \in Fingerprints, RejectInvalidKey(c, f) PROVE OrderInv'
  BY <1>5 DEF RejectInvalidKey, Record, OrderInv
<1>6. ASSUME NEW c \in Calls, NEW k \in Keys, NEW f \in Fingerprints, ReplayCompleted(c, k, f)
       PROVE  OrderInv'
  <2>1. /\ In(order, k)
        /\ order' = MoveToEnd(order, k)
        /\ completed' = completed
        /\ order \in Seq(Keys)
    BY <1>6 DEF ReplayCompleted, OrderInv, TypeInv, TypeOK
  <2>2. /\ Distinct(order')
        /\ \A j \in Keys : In(order', j) <=> In(order, j) \/ j = k
        /\ Len(order') = IF In(order, k) THEN Len(order) ELSE Len(order) + 1
    BY <2>1, MoveToEndProperties DEF OrderInv
  <2> QED
    BY <2>1, <2>2 DEF OrderInv
<1>7. ASSUME NEW c \in Calls, NEW k \in Keys, NEW f \in Fingerprints, RejectConflict(c, k, f)
       PROVE  OrderInv'
  BY <1>7 DEF RejectConflict, Record, OrderInv
<1>8. ASSUME NEW c \in Calls, NEW k \in Keys, NEW f \in Fingerprints, JoinInflight(c, k, f)
       PROVE  OrderInv'
  BY <1>8 DEF JoinInflight, Record, OrderInv
<1>9. ASSUME NEW c \in Calls, NEW k \in Keys, NEW f \in Fingerprints, StartTask(c, k, f)
       PROVE  OrderInv'
  BY <1>9 DEF StartTask, Record, Create, Entry, OrderInv
<1>10. ASSUME NEW t \in Calls, RejectInput(t) PROVE OrderInv'
  BY <1>10 DEF RejectInput, Advance, OrderInv
<1>11. ASSUME NEW t \in Calls, CallProvider(t) PROVE OrderInv'
  BY <1>11 DEF CallProvider, OrderInv
<1>12. ASSUME NEW t \in Calls, AttemptSucceeds(t) PROVE OrderInv'
  BY <1>12 DEF AttemptSucceeds, Advance, OrderInv
<1>13. ASSUME NEW t \in Calls, AttemptFailsRetryably(t) PROVE OrderInv'
  BY <1>13 DEF AttemptFailsRetryably, Advance, OrderInv
<1>14. ASSUME NEW t \in Calls, AttemptFailsFatally(t) PROVE OrderInv'
  BY <1>14 DEF AttemptFailsFatally, Advance, OrderInv
<1>15. ASSUME NEW t \in Calls, SettleSuccess(t) PROVE OrderInv'
  <2>1. CASE Current(t)
    <3> DEFINE k == call[t].key
    <3>1. /\ completed' = [j \in Keys |-> IF ~In(order', j) THEN NoTask
                                           ELSE IF j = k THEN t ELSE completed[j]]
          /\ Distinct(order') /\ Len(order') <= Capacity
          /\ \A j \in Keys : In(order', j) => In(order, j) \/ j = k
      BY <1>15, <2>1, StoreFrame
    <3>2. ASSUME NEW j \in Keys PROVE In(order', j) <=> completed'[j] # NoTask
      BY <3>1, TaskAssumption DEF OrderInv
    <3> QED
      BY <3>1, <3>2 DEF OrderInv
  <2>2. CASE ~Current(t)
    BY <1>15, <2>2 DEF SettleSuccess, OrderInv
  <2> QED
    BY <2>1, <2>2
<1>16. ASSUME NEW t \in Calls, SettleFailure(t) PROVE OrderInv'
  BY <1>16 DEF SettleFailure, Current, OrderInv
<1>17. ASSUME NEW c \in Calls, Deliver(c) PROVE OrderInv'
  BY <1>17 DEF Deliver, Outcome, OrderInv
<1>18. ASSUME NEW c \in Calls, CancelCaller(c) PROVE OrderInv'
  BY <1>18 DEF CancelCaller, OrderInv
<1>19. CASE UNCHANGED vars
  BY <1>19 DEF vars, OrderInv
<1> QED
  BY <1>1, <1>2, <1>3, <1>4, <1>5, <1>6, <1>7, <1>8, <1>9, <1>10,
     <1>11, <1>12, <1>13, <1>14, <1>15, <1>16, <1>17, <1>18, <1>19
     DEF Next, ParseText, Attempt, Settle

\* The invariant holds in the initial state.
LEMMA InitIInv ==
    ASSUME Fingerprints # {}, Init
    PROVE  IInv
<1> USE CapacityAssumption, AttemptsAssumption, KeyAssumption, TaskAssumption
<1>1. (CHOOSE f \in Fingerprints : TRUE) \in Fingerprints
  OBVIOUS
<1>2. TypeInv
  BY <1>1 DEF Init, TypeInv, TypeOK, NoParse, Live, Settled
<1>3. CallInv
  BY DEF Init, CallInv, CallInvOf, NoParse, Served
<1>4. TableInv /\ Forgettable /\ Registered
  BY DEF Init, TableInv, TableInvOf, Forgettable, Registered, RegisteredOf, Keyed, NoParse, Live
<1>5. OrderInv
  <2>1. order = <<>> /\ Len(order) = 0 /\ \A k \in Keys : completed[k] = NoTask
    BY DEF Init
  <2> QED
    BY <2>1 DEF OrderInv, Distinct, In
<1> QED
  BY <1>2, <1>3, <1>4, <1>5 DEF IInv

\* Hence it holds in every reachable state.
LEMMA InvariantIInv == Spec => []IInv
<1>1. Init => IInv
  BY InitIInv, FingerprintAssumption
<1>2. IInv /\ [Next]_vars => IInv'
  BY TypeStep, CallStep, ForgettableStep, TableStep, RegisteredStep, OrderStep DEF IInv
<1> QED
  BY <1>1, <1>2, PTL DEF Spec

-----------------------------------------------------------------------------
(* The theorems                                                            *)

\* Every variable of IdempotentParsing keeps its type; in particular no task
\* makes more than MaxAttempts attempts.
THEOREM TypeCorrect == Spec => []TypeOK
<1>1. IInv => TypeOK
  BY DEF IInv, TypeInv
<1> QED
  BY <1>1, InvariantIInv, PTL

\* The two tables, the LRU order and the tasks always agree.
THEOREM TablesAgree == Spec => []TablesConsistent
<1>1. IInv => TablesConsistent
  BY DEF IInv, OrderInv, Distinct, TableInv, TableInvOf, TablesConsistent
<1> QED
  BY <1>1, InvariantIInv, PTL

\* A caller only ever gets the result of a parse of what it asked for.
THEOREM ResultsAreOwn == Spec => []NoForeignResult
<1>1. IInv => NoForeignResult
  BY DEF IInv, CallInv, CallInvOf, Served, NoForeignResult
<1> QED
  BY <1>1, InvariantIInv, PTL

\* No two parses of one key run at once, save those a close() dropped.
THEOREM FlightsAreSingle == Spec => []SingleFlight
<1>1. IInv => SingleFlight
  BY DEF IInv, Registered, RegisteredOf, Keyed, SingleFlight
<1> QED
  BY <1>1, InvariantIInv, PTL

\* Answers for one key come from one parse until its entry is evicted or cleared.
THEOREM ReplaysAreExact == Spec => []ExactReplay
<1>1. ASSUME IInv PROVE ExactReplay
  <2> SUFFICES ASSUME NEW c \in Calls, NEW d \in Calls,
                      Keyed(c), call[c].key = call[d].key,
                      call[c].state = "returned", call[d].state = "returned",
                      call[c].task \notin forgotten, call[d].task \notin forgotten
               PROVE  call[c].task = call[d].task
    BY DEF ExactReplay
  <2>1. ASSUME NEW e \in {c, d} PROVE completed[call[c].key] = call[e].task
    <3>1. /\ call[e].task \in Calls
          /\ call[call[e].task].key = call[c].key
          /\ task[call[e].task].state = "succeeded"
      BY <1>1, <2>1 DEF IInv, CallInv, CallInvOf, Served
    <3> QED
      BY <1>1, <2>1, <3>1 DEF IInv, Registered, RegisteredOf, Keyed
  <2> QED
    BY <2>1
<1> QED
  BY <1>1, InvariantIInv, PTL

\* What a close() dropped, or eviction discarded, never returns to a table.
THEOREM OrphansAreOut == Spec => []OrphansStayOut
<1>1. IInv => OrphansStayOut
  BY TaskAssumption DEF IInv, TypeInv, TypeOK, TableInv, TableInvOf, OrphansStayOut
<1> QED
  BY <1>1, InvariantIInv, PTL

\* A waiting caller never suffers from the cancellation of another one.
THEOREM NeighboursAreSafe == Spec => []NeighbourCancellationIsInvisible
<1>1. IInv => NeighbourCancellationIsInvisible
  BY DEF IInv, CallInv, CallInvOf, NeighbourCancellationIsInvisible
<1> QED
  BY <1>1, InvariantIInv, PTL

-----------------------------------------------------------------------------
(* The completed table is exactly LRU.  The invariant above does not speak *)
(* of the history of uses; the one below ties it to the order.             *)

\* The keys that stand behind k in an order.
Later(o, k) == {j \in Keys : \E x, y \in 1 .. Len(o) : x < y /\ o[x] = k /\ o[y] = j}

-----------------------------------------------------------------------------
(* What moving a key and evicting do to the keys behind another            *)

\* In an order without repetition, as many keys stand behind a key as there are
\* places, and the key itself is not among them.
LEMMA LaterCounts ==
    ASSUME NEW o \in Seq(Keys), Distinct(o), NEW x \in 1 .. Len(o)
    PROVE  /\ IsFiniteSet(Later(o, o[x]))
           /\ Cardinality(Later(o, o[x])) = Len(o) - x
           /\ o[x] \notin Later(o, o[x])
<1> DEFINE Places == x + 1 .. Len(o)
           L == Later(o, o[x])
           f == [y \in Places |-> o[y]]
<1>1. Places \subseteq 1 .. Len(o) /\ \A y \in Places : y > x /\ o[y] \in Keys
  OBVIOUS
<1>2. ASSUME NEW y \in Places PROVE o[y] \in L
  BY <1>1 DEF Later
<1>3. ASSUME NEW j \in L PROVE \E y \in Places : o[y] = j
  <2>1. PICK a \in 1 .. Len(o), b \in 1 .. Len(o) : a < b /\ o[a] = o[x] /\ o[b] = j
    BY DEF Later
  <2>2. a = x
    BY <2>1 DEF Distinct
  <2>3. b \in Places
    BY <2>1, <2>2
  <2> QED
    BY <2>1, <2>3
<1>4. f \in Bijection(Places, L)
  <2>1. f \in [Places -> L] /\ \A y \in Places : f[y] = o[y]
    BY <1>2
  <2>2. \A a, b \in Places : f[a] = f[b] => a = b
    BY <1>1, <2>1 DEF Distinct
  <2>3. \A j \in L : \E y \in Places : f[y] = j
    BY <1>3, <2>1
  <2> HIDE DEF f, L, Places
  <2> QED
    BY <2>1, <2>2, <2>3, Fun_IsBij
<1>5. /\ IsFiniteSet(Places)
      /\ Cardinality(Places) = Len(o) - x
  <2>1. x + 1 \in Int /\ Len(o) \in Int
    OBVIOUS
  <2>2. /\ IsFiniteSet(Places)
        /\ Cardinality(Places) = IF x + 1 > Len(o) THEN 0 ELSE Len(o) - (x + 1) + 1
    BY <2>1, FS_Interval, Zenon
  <2> QED
    BY <2>1, <2>2
<1>6. ExistsBijection(Places, L)
  BY <1>4 DEF ExistsBijection
<1>7. IsFiniteSet(L) /\ Cardinality(L) = Cardinality(Places)
  BY <1>5, <1>6, FS_Bijection
<1>8. o[x] \notin L
  BY DEF Later, Distinct
<1> QED
  BY <1>5, <1>7, <1>8

\* Taking a key out takes it from behind the others.
LEMMA LaterWithout ==
    ASSUME NEW o \in Seq(Keys), Distinct(o), NEW k \in Keys, NEW j \in Keys, j # k
    PROVE  Later(Without(o, k), j) = Later(o, j) \ {k}
<1>1. CASE ~In(o, k)
  BY <1>1 DEF In, Without, Later
<1>2. CASE In(o, k)
  <2>1. PICK i \in 1 .. Len(o) : i = CHOOSE n \in 1 .. Len(o) : o[n] = k
    BY <1>2 DEF In
  <2>2. o[i] = k
    BY <1>2, <2>1 DEF In
  <2> DEFINE w == [n \in 1 .. Len(o) - 1 |-> IF n < i THEN o[n] ELSE o[n + 1]]
             At(n) == IF n < i THEN n ELSE n + 1
             To(n) == IF n < i THEN n ELSE n - 1
  <2>3. Without(o, k) = w
    BY <1>2, <2>1 DEF Without, In
  <2>4. w \in Seq(Keys) /\ Len(w) = Len(o) - 1
    OBVIOUS
  <2>5. \A n \in 1 .. Len(w) : At(n) \in (1 .. Len(o)) \ {i} /\ w[n] = o[At(n)]
    BY <2>4
  <2>6. \A n \in (1 .. Len(o)) \ {i} : To(n) \in 1 .. Len(w) /\ w[To(n)] = o[n]
    BY <2>4
  <2>7. /\ \A x, y \in 1 .. Len(w) : x < y => At(x) < At(y)
        /\ \A x, y \in (1 .. Len(o)) \ {i} : x < y => To(x) < To(y)
    BY <2>4
  <2>8. \A n \in (1 .. Len(o)) \ {i} : o[n] # k
    BY <2>2 DEF Distinct
  <2> HIDE DEF w, At, To
  <2>9. ASSUME NEW q \in Later(w, j) PROVE q \in Later(o, j) \ {k}
    <3>1. PICK x \in 1 .. Len(w), y \in 1 .. Len(w) : x < y /\ w[x] = j /\ w[y] = q
      BY DEF Later
    <3>2. /\ At(x) \in 1 .. Len(o) /\ At(y) \in 1 .. Len(o) /\ At(x) < At(y)
          /\ o[At(x)] = j /\ o[At(y)] = q /\ q # k
      BY <2>5, <2>7, <2>8, <3>1
    <3> QED
      BY <3>2, Zenon DEF Later
  <2>10. ASSUME NEW q \in Later(o, j) \ {k} PROVE q \in Later(w, j)
    <3>1. PICK x \in 1 .. Len(o), y \in 1 .. Len(o) : x < y /\ o[x] = j /\ o[y] = q
      BY DEF Later
    <3>2. x # i /\ y # i
      BY <2>2, <3>1
    <3>3. /\ To(x) \in 1 .. Len(w) /\ To(y) \in 1 .. Len(w) /\ To(x) < To(y)
          /\ w[To(x)] = j /\ w[To(y)] = q
      BY <2>6, <2>7, <3>1, <3>2
    <3> QED
      BY <3>3, Zenon DEF Later
  <2> QED
    BY <2>3, <2>9, <2>10
<1> QED
  BY <1>1, <1>2

\* Moving a key to the end puts it behind every other, and none behind it.
LEMMA LaterMoved ==
    ASSUME NEW o \in Seq(Keys), Distinct(o), NEW k \in Keys
    PROVE  /\ Later(MoveToEnd(o, k), k) = {}
           /\ \A j \in Keys : In(o, j) /\ j # k =>
                 Later(MoveToEnd(o, k), j) = Later(o, j) \cup {k}
<1> DEFINE w == Without(o, k)
           m == MoveToEnd(o, k)
<1>1. w \in Seq(Keys) /\ \A j \in Keys : In(w, j) <=> In(o, j) /\ j # k
  BY WithoutProperties
<1>2. /\ m \in Seq(Keys) /\ Distinct(m) /\ Len(m) = Len(w) + 1 /\ m[Len(m)] = k
      /\ \A n \in 1 .. Len(w) : m[n] = w[n]
  BY <1>1, MoveToEndProperties DEF MoveToEnd
<1> HIDE DEF w, m
<1>3. Later(m, k) = {}
  BY <1>2 DEF Later, Distinct
<1>4. ASSUME NEW j \in Keys, In(o, j), j # k PROVE Later(m, j) = Later(o, j) \cup {k}
  <2>1. Later(w, j) = Later(o, j) \ {k}
    BY <1>4, LaterWithout DEF w
  <2>2. PICK n \in 1 .. Len(w) : w[n] = j
    BY <1>1, <1>4 DEF In
  <2>3. k \in Later(m, j)
    <3>1. /\ n \in 1 .. Len(m) /\ Len(m) \in 1 .. Len(m) /\ n < Len(m)
          /\ m[n] = j /\ m[Len(m)] = k
      BY <1>1, <1>2, <2>2
    <3> QED
      BY <3>1 DEF Later
  <2>4. ASSUME NEW q \in Later(w, j) PROVE q \in Later(m, j)
    BY <1>1, <1>2 DEF Later
  <2>5. ASSUME NEW q \in Later(m, j), q # k PROVE q \in Later(w, j)
    <3>1. PICK x \in 1 .. Len(m), y \in 1 .. Len(m) : x < y /\ m[x] = j /\ m[y] = q
      BY DEF Later
    <3>2. x \in 1 .. Len(w) /\ y \in 1 .. Len(w)
      BY <1>1, <1>2, <1>4, <2>5, <3>1
    <3> QED
      BY <1>2, <3>1, <3>2, Zenon DEF Later
  <2> QED
    BY <2>1, <2>3, <2>4, <2>5
<1> QED
  BY <1>3, <1>4 DEF m

\* Eviction keeps what stands behind a key that stays; behind one that goes there
\* are at least Capacity others.
LEMMA LaterNewest ==
    ASSUME NEW o \in Seq(Keys), Distinct(o)
    PROVE  /\ \A j \in Keys : In(Newest(o), j) => Later(Newest(o), j) = Later(o, j)
           /\ \A j \in Keys : In(o, j) /\ ~In(Newest(o), j) =>
                 IsFiniteSet(Later(o, j)) /\ Cardinality(Later(o, j)) >= Capacity
<1> USE CapacityAssumption
<1>1. CASE Len(o) <= Capacity
  BY <1>1 DEF Newest
<1>2. CASE Len(o) > Capacity
  <2> DEFINE s == Len(o) - Capacity
             n == SubSeq(o, s + 1, Len(o))
             At(i) == s + i
             To(i) == i - s
  <2>1. /\ n \in Seq(Keys) /\ Len(n) = Capacity /\ Newest(o) = n
        /\ \A i \in 1 .. Capacity : At(i) \in s + 1 .. Len(o) /\ n[i] = o[At(i)]
    BY <1>2 DEF Newest
  <2>2. \A i \in s + 1 .. Len(o) : To(i) \in 1 .. Capacity /\ n[To(i)] = o[i]
    <3> SUFFICES ASSUME NEW i \in s + 1 .. Len(o)
                 PROVE  To(i) \in 1 .. Capacity /\ n[To(i)] = o[i]
      OBVIOUS
    <3>1. PICK t \in 1 .. Capacity : t = To(i) /\ At(t) = i
      BY <1>2
    <3>2. n[t] = o[At(t)]
      BY <2>1, Zenon
    <3> HIDE DEF n
    <3> QED
      BY <3>1, <3>2
  <2>3. /\ \A x, y \in 1 .. Capacity : x < y => At(x) < At(y)
        /\ \A x, y \in s + 1 .. Len(o) : x < y => To(x) < To(y)
        /\ s \in Nat
    BY <1>2
  <2> HIDE DEF n, At, To, s
  <2>4. ASSUME NEW j \in Keys, In(n, j) PROVE Later(n, j) = Later(o, j)
    <3>1. PICK i \in 1 .. Capacity : n[i] = j
      BY <2>1, <2>4 DEF In
    <3>2. ASSUME NEW q \in Later(n, j) PROVE q \in Later(o, j)
      <4>1. PICK x \in 1 .. Capacity, y \in 1 .. Capacity : x < y /\ n[x] = j /\ n[y] = q
        BY <2>1, Zenon DEF Later
      <4>2. At(x) \in 1 .. Len(o) /\ At(y) \in 1 .. Len(o) /\ At(x) < At(y)
        BY <2>1, <2>3, <4>1
      <4> QED
        BY <2>1, <4>1, <4>2, Zenon DEF Later
    <3>3. ASSUME NEW q \in Later(o, j) PROVE q \in Later(n, j)
      <4>1. PICK x \in 1 .. Len(o), y \in 1 .. Len(o) : x < y /\ o[x] = j /\ o[y] = q
        BY DEF Later
      <4>2. x = At(i) /\ At(i) \in s + 1 .. Len(o)
        BY <2>1, <2>3, <3>1, <4>1 DEF Distinct
      <4>3. x \in s + 1 .. Len(o) /\ y \in s + 1 .. Len(o)
        BY <2>3, <4>1, <4>2
      <4> QED
        BY <2>1, <2>2, <2>3, <4>1, <4>3, Zenon DEF Later
    <3> QED
      BY <3>2, <3>3, Zenon
  <2>5. ASSUME NEW j \in Keys, In(o, j), ~In(n, j)
        PROVE  IsFiniteSet(Later(o, j)) /\ Cardinality(Later(o, j)) >= Capacity
    <3>1. PICK x \in 1 .. Len(o) : o[x] = j
      BY <2>5 DEF In
    <3>2. x \notin s + 1 .. Len(o)
      BY <2>1, <2>2, <2>5, <3>1, Zenon DEF In
    <3>3. Len(o) - x >= Capacity
      BY <1>2, <2>3, <3>2 DEF s
    <3>4. IsFiniteSet(Later(o, j)) /\ Cardinality(Later(o, j)) = Len(o) - x
      BY <3>1, LaterCounts
    <3> QED
      BY <3>3, <3>4
  <2> QED
    BY <2>1, <2>4, <2>5
<1> QED
  BY <1>1, <1>2
-----------------------------------------------------------------------------
(* The order and the history of uses                                       *)

\* The keys used since the last use of a completed key are those behind it in the
\* order; a key that is not completed was never used since the tables were cleared,
\* or as many others as fit were used since.
RecencyInvOf(k) ==
    IF In(order, k) THEN since[k] = Later(order, k)
    ELSE k \in since[k] \/ (IsFiniteSet(since[k]) /\ Cardinality(since[k]) >= Capacity)

RecencyInv == \A k \in Keys : RecencyInvOf(k)

\* A use of a key, with the move and the eviction that go with it.
LEMMA UseKeepsRecency ==
    ASSUME TypeOK, OrderInv, RecencyInv, NEW k \in Keys, Use(k),
           order' = Newest(MoveToEnd(order, k))
    PROVE  RecencyInv'
<1> DEFINE m == MoveToEnd(order, k)
<1>1. order \in Seq(Keys) /\ Distinct(order) /\ since \in [Keys -> SUBSET Keys]
  BY DEF TypeOK, OrderInv
<1>2. /\ m \in Seq(Keys) /\ Distinct(m) /\ Len(m) > 0 /\ m[Len(m)] = k
      /\ \A j \in Keys : In(m, j) <=> In(order, j) \/ j = k
  <2>1. /\ m \in Seq(Keys) /\ Distinct(m) /\ m[Len(m)] = k
        /\ \A j \in Keys : In(m, j) <=> In(order, j) \/ j = k
    BY <1>1, MoveToEndProperties
  <2> HIDE DEF m
  <2>2. Len(m) > 0
    BY <2>1 DEF In
  <2> QED
    BY <2>1, <2>2
<1>3. /\ Later(m, k) = {}
      /\ \A j \in Keys : In(order, j) /\ j # k => Later(m, j) = Later(order, j) \cup {k}
  BY <1>1, LaterMoved
<1> HIDE DEF m
<1>4. order' = Newest(m)
  BY DEF m
<1>5. (\A j \in Keys : In(order', j) => In(m, j)) /\ In(order', k)
  BY <1>2, <1>4, NewestProperties
<1>6. /\ \A j \in Keys : In(order', j) => Later(order', j) = Later(m, j)
      /\ \A j \in Keys : In(m, j) /\ ~In(order', j) =>
            IsFiniteSet(Later(m, j)) /\ Cardinality(Later(m, j)) >= Capacity
  BY <1>2, <1>4, LaterNewest
<1>7. \A j \in Keys : since'[j] = IF j = k THEN {} ELSE since[j] \cup {k}
  BY DEF Use
<1> SUFFICES ASSUME NEW j \in Keys PROVE RecencyInvOf(j)'
  BY DEF RecencyInv
<1>8. RecencyInvOf(j)
  BY DEF RecencyInv
<1>9. CASE j = k
  BY <1>3, <1>5, <1>6, <1>7, <1>9, Zenon DEF RecencyInvOf
<1>10. CASE j # k /\ In(order, j)
  <2>1. since'[j] = Later(m, j) /\ In(m, j)
    <3>1. since'[j] = since[j] \cup {k} /\ since[j] = Later(order, j)
      BY <1>7, <1>8, <1>10, Zenon DEF RecencyInvOf
    <3>2. Later(m, j) = Later(order, j) \cup {k} /\ In(m, j)
      BY <1>2, <1>3, <1>10
    <3> QED
      BY <3>1, <3>2
  <2> QED
    BY <1>6, <2>1 DEF RecencyInvOf
<1>11. CASE j # k /\ ~In(order, j)
  <2>1. ~In(order', j) /\ since'[j] = since[j] \cup {k}
    BY <1>2, <1>5, <1>7, <1>11, Zenon
  <2>2. CASE j \in since[j]
    BY <2>1, <2>2 DEF RecencyInvOf
  <2>3. CASE IsFiniteSet(since[j]) /\ Cardinality(since[j]) >= Capacity
    <3>1. /\ IsFiniteSet(since[j] \cup {k})
          /\ Cardinality(since[j] \cup {k}) =
                IF k \in since[j] THEN Cardinality(since[j]) ELSE Cardinality(since[j]) + 1
      BY <2>3, FS_AddElement
    <3>2. Cardinality(since[j]) \in Nat /\ Capacity \in Nat
      BY <2>3, FS_CardinalityType, CapacityAssumption
    <3>3. Cardinality(since[j] \cup {k}) >= Capacity
      BY <2>3, <3>1, <3>2
    <3> QED
      BY <2>1, <3>1, <3>3 DEF RecencyInvOf
  <2> QED
    BY <1>8, <1>11, <2>2, <2>3 DEF RecencyInvOf
<1> QED
  BY <1>9, <1>10, <1>11

LEMMA RecencyStep == IInv /\ RecencyInv /\ [Next]_vars => RecencyInv'
<1> SUFFICES ASSUME IInv, RecencyInv, [Next]_vars PROVE RecencyInv'
  OBVIOUS
<1>0. TypeOK /\ OrderInv
  BY DEF IInv, TypeInv
<1>1. CASE UNCHANGED <<order, since>>
  BY <1>1 DEF RecencyInv, RecencyInvOf, Later, In
<1>2. CASE FinishClose
  <2>1. order' = <<>> /\ since' = [k \in Keys |-> Keys]
    BY <1>2 DEF FinishClose, ForgetUses
  <2>2. \A k \in Keys : ~In(order', k) /\ k \in since'[k]
    BY <2>1 DEF In
  <2> QED
    BY <2>2 DEF RecencyInv, RecencyInvOf
<1>3. ASSUME NEW c \in Calls, NEW k \in Keys, NEW f \in Fingerprints, ReplayCompleted(c, k, f)
       PROVE  RecencyInv'
  <2>1. In(order, k) /\ order' = MoveToEnd(order, k) /\ Use(k)
    BY <1>0, <1>3 DEF ReplayCompleted, OrderInv
  <2>2. Len(MoveToEnd(order, k)) = Len(order) /\ Len(order) <= Capacity
    BY <1>0, <2>1, MoveToEndProperties DEF OrderInv, TypeOK
  <2>3. order' = Newest(MoveToEnd(order, k))
    BY <1>0, <2>1, <2>2, CapacityAssumption DEF Newest, TypeOK
  <2> QED
    BY <1>0, <2>1, <2>3, UseKeepsRecency, Zenon
<1>4. ASSUME NEW t \in Calls, SettleSuccess(t) PROVE RecencyInv'
  <2>1. CASE Current(t)
    <3>1. call[t].key \in Keys /\ order' = Newest(MoveToEnd(order, call[t].key))
      BY <1>4, <2>1, StoreFrame DEF IInv
    <3>2. Use(call[t].key)
      BY <1>4, <2>1 DEF SettleSuccess, StoreResult
    <3> QED
      BY <1>0, <3>1, <3>2, UseKeepsRecency
  <2>2. CASE ~Current(t)
    BY <1>1, <1>4, <2>2 DEF SettleSuccess, tables, history
  <2> QED
    BY <2>1, <2>2
<1>5. ASSUME NEW c \in Calls, ParseText(c),
             ~(\E k \in Keys, f \in Fingerprints : ReplayCompleted(c, k, f))
      PROVE  UNCHANGED <<order, since>>
  BY <1>5 DEF ParseText, ParseUnkeyed, RejectInvalidKey, RejectConflict, JoinInflight,
              StartTask, tables, history
<1>6. ASSUME NEW c \in Calls, Attempt(c) \/ SettleFailure(c) \/ Deliver(c) \/ CancelCaller(c)
      PROVE  UNCHANGED <<order, since>>
  BY <1>6 DEF Attempt, RejectInput, CallProvider, AttemptSucceeds, AttemptFailsRetryably,
              AttemptFailsFatally, Advance, SettleFailure, Deliver, CancelCaller, tables, history
<1>7. CASE Start \/ BeginClose \/ UNCHANGED vars
  BY <1>1, <1>7 DEF Start, BeginClose, vars, tables, history
<1> QED
  BY <1>1, <1>2, <1>3, <1>4, <1>5, <1>6, <1>7 DEF Next, Settle

\* In the initial state no key has been used.
LEMMA InitRecency == Init => RecencyInv
<1> SUFFICES ASSUME Init PROVE RecencyInv
  OBVIOUS
<1>1. order = <<>> /\ since = [k \in Keys |-> Keys]
  BY DEF Init
<1>2. \A k \in Keys : ~In(order, k) /\ k \in since[k]
  BY <1>1 DEF In
<1> QED
  BY <1>2 DEF RecencyInv, RecencyInvOf

-----------------------------------------------------------------------------
(* The theorem                                                             *)

\* For any calls, keys and capacity: a key is in the completed table if and only if
\* fewer than Capacity other keys were used since its own last use.
THEOREM CacheIsLeastRecentlyUsed == Spec => []LeastRecentlyUsedGoes
<1>1. Spec => [](IInv /\ RecencyInv)
  <2>1. IInv /\ RecencyInv /\ [Next]_vars => RecencyInv'
    BY RecencyStep
  <2> QED
    BY <2>1, InitRecency, InvariantIInv, PTL DEF Spec
<1>2. IInv /\ RecencyInv => LeastRecentlyUsedGoes
  <2> SUFFICES ASSUME IInv, RecencyInv, NEW k \in Keys
               PROVE  completed[k] # NoTask <=>
                         k \notin since[k] /\ Cardinality(since[k]) < Capacity
    BY DEF LeastRecentlyUsedGoes
  <2>1. /\ order \in Seq(Keys) /\ Distinct(order) /\ Len(order) <= Capacity
        /\ In(order, k) <=> completed[k] # NoTask
    BY DEF IInv, TypeInv, TypeOK, OrderInv
  <2>2. RecencyInvOf(k)
    BY DEF RecencyInv
  <2>3. CASE In(order, k)
    <3>1. PICK x \in 1 .. Len(order) : order[x] = k
      BY <2>3 DEF In
    <3>2. Cardinality(since[k]) = Len(order) - x /\ k \notin since[k]
      BY <2>1, <2>2, <2>3, <3>1, LaterCounts DEF RecencyInvOf
    <3>3. Cardinality(since[k]) < Capacity
      BY <2>1, <3>1, <3>2, CapacityAssumption
    <3> QED
      BY <2>1, <2>3, <3>2, <3>3
  <2>4. CASE ~In(order, k)
    <3>1. CASE k \in since[k]
      BY <2>1, <2>4, <3>1
    <3>2. CASE IsFiniteSet(since[k]) /\ Cardinality(since[k]) >= Capacity
      <4>1. Cardinality(since[k]) \in Nat /\ Capacity \in Nat
        BY <3>2, FS_CardinalityType, CapacityAssumption
      <4> QED
        BY <2>1, <2>4, <3>2, <4>1
    <3> QED
      BY <2>2, <2>4, <3>1, <3>2 DEF RecencyInvOf
  <2> QED
    BY <2>3, <2>4
<1> QED
  BY <1>1, <1>2, PTL

-----------------------------------------------------------------------------
(* The refinement: the coordinator implements the bindings of KeyBinding.  *)
(* Its initial state is an initial state there, and each of its steps is a *)
(* step there or leaves the bindings, the requests, the answers and the    *)
(* parses begun as they are.                                               *)

\* The refinement mapping, part by part.
StateOf(k) == IF Entry(k) = NoTask THEN "free"
              ELSE IF completed[k] = NoTask THEN "pending" ELSE "done"
AnswerOf(c) == IF call[c].state = "returned" /\ Keyed(c) THEN call[c].task ELSE NoTask

Bindings == [k \in Keys |-> StateOf(k)]
Holders  == [k \in Keys |-> Entry(k)]
Requests == [c \in Calls |-> [key |-> call[c].key, fp |-> call[c].fp]]
Answers  == [c \in Calls |-> AnswerOf(c)]
Begun    == {t \in Calls : Keyed(t) /\ task[t].state # "none"}

mapped == <<Bindings, Holders, Requests, Answers, Begun>>

\* A call that has not been made has asked for nothing.
IdleInv == \A c \in Calls : call[c].state = "idle" => call[c].key = NoKey

\* The invariant under which steps are mapped.
MapInv == IInv /\ IdleInv

\* A call is made once and is idle no more.
LEMMA IdleStep ==
    TypeInv /\ CallInv /\ IdleInv /\ [Next]_vars => IdleInv'
<1> SUFFICES ASSUME TypeInv /\ CallInv /\ IdleInv, [Next]_vars PROVE IdleInv'
  OBVIOUS
<1>1. ASSUME NEW c \in Calls, ParseText(c) PROVE IdleInv'
  <2>1. PICK k, f, s, t : Record(c, k, f, s, t) /\ s # "idle"
    <3> DEFINE G == \E k, f, s, t : Record(c, k, f, s, t) /\ s # "idle"
    <3>1. ASSUME NEW f, ParseUnkeyed(c, f) PROVE G
      BY <3>1 DEF ParseUnkeyed
    <3>2. ASSUME NEW f, RejectInvalidKey(c, f) PROVE G
      BY <3>2 DEF RejectInvalidKey
    <3>3. ASSUME NEW f, NEW k, ReplayCompleted(c, k, f) PROVE G
      BY <3>3 DEF ReplayCompleted
    <3>4. ASSUME NEW f, NEW k, RejectConflict(c, k, f) PROVE G
      BY <3>4 DEF RejectConflict
    <3>5. ASSUME NEW f, NEW k, JoinInflight(c, k, f) PROVE G
      BY <3>5 DEF JoinInflight
    <3>6. ASSUME NEW f, NEW k, StartTask(c, k, f) PROVE G
      BY <3>6 DEF StartTask
    <3> HIDE DEF G
    <3>7. G
      BY <1>1, <3>1, <3>2, <3>3, <3>4, <3>5, <3>6 DEF ParseText
    <3> QED
      BY <3>7 DEF G
  <2>2. /\ call'[c] = [state |-> s, key |-> k, fp |-> f, task |-> t]
        /\ \A d \in Calls : d # c => call'[d] = call[d]
    BY <2>1, RecordFrame
  <2> QED
    BY <2>1, <2>2 DEF IdleInv
<1>2. ASSUME NEW c \in Calls, Deliver(c) PROVE IdleInv'
  <2>1. /\ call[c].state = "waiting"
        /\ call' = [call EXCEPT ![c].state = Outcome(call[c].task)]
        /\ task[call[c].task].state \in Settled
    BY <1>2 DEF Deliver
  <2>2. Outcome(call[c].task) # "idle"
    BY <2>1 DEF Outcome, Settled
  <2>3. call \in [Calls -> [state : {"idle", "waiting", "returned", "failed",
                                    "aborted", "conflict", "invalid", "cancelled"},
                           key   : Keys \cup {NoKey},
                           fp    : Fingerprints,
                           task  : Calls \cup {NoTask}]]
    BY DEF TypeInv, TypeOK
  <2> QED
    BY <2>1, <2>2, <2>3 DEF IdleInv
<1>3. ASSUME NEW c \in Calls, CancelCaller(c) PROVE IdleInv'
  <2>1. call' = [call EXCEPT ![c].state = "cancelled"]
    BY <1>3 DEF CancelCaller
  <2> QED
    BY <2>1 DEF IdleInv, TypeInv, TypeOK
<1>4. CASE UNCHANGED call
  BY <1>4 DEF IdleInv
<1>5. ASSUME NEW c \in Calls, Attempt(c) \/ Settle(c) PROVE UNCHANGED call
  BY <1>5 DEF Attempt, Settle, RejectInput, CallProvider, AttemptSucceeds, AttemptFailsRetryably,
     AttemptFailsFatally, Advance, SettleSuccess, SettleFailure
<1> QED
  BY <1>1, <1>2, <1>3, <1>4, <1>5 DEF Next, Start, BeginClose, FinishClose, vars

LEMMA MapInvariant == Spec => []MapInv
<1>1. Init => IdleInv
  BY DEF Init, IdleInv
<1>2. IInv /\ IdleInv /\ [Next]_vars => IdleInv'
  BY IdleStep DEF IInv
<1> QED
  BY <1>1, <1>2, InvariantIInv, PTL DEF Spec, MapInv

-----------------------------------------------------------------------------
(* What leaves the parts of the mapping alone                              *)

LEMMA SameTables ==
    ASSUME completed' = completed, inflight' = inflight
    PROVE  Bindings' = Bindings /\ Holders' = Holders
BY DEF Bindings, Holders, StateOf, Entry

LEMMA SameCalls ==
    ASSUME call' = call
    PROVE  Requests' = Requests /\ Answers' = Answers
BY DEF Requests, Answers, AnswerOf, Keyed

\* A task that goes from one state to another was begun before and after.
LEMMA SameBegun ==
    ASSUME TypeInv, call' = call, NEW t \in Calls, NEW s, s # "none", task[t].state # "none",
           task' = [task EXCEPT ![t].state = s]
    PROVE  Begun' = Begun
<1>1. \A u \in Calls : task'[u].state # "none" <=> task[u].state # "none"
  BY DEF TypeInv, TypeOK
<1> QED
  BY <1>1 DEF Begun, Keyed

\* A call that is recorded asks for what is recorded, and it had asked for nothing.
LEMMA RecordAsks ==
    ASSUME MapInv, NEW c \in Calls, NEW k \in Keys \cup {NoKey}, NEW f \in Fingerprints,
           NEW s, NEW t, Record(c, k, f, s, t)
    PROVE  /\ Requests[c].key = NoKey
           /\ Requests' = [Requests EXCEPT ![c] = [key |-> k, fp |-> f]]
           /\ Answers' = [Answers EXCEPT ![c] = IF s = "returned" /\ k # NoKey
                                                THEN t ELSE NoTask]
           /\ Answers[c] = NoTask
           /\ c \notin Begun
           /\ \A d \in Calls : d # c => call'[d] = call[d]
           /\ call'[c].key = k
<1>1. /\ call[c].state = "idle"
      /\ task[c].state = "none"
      /\ call'[c] = [state |-> s, key |-> k, fp |-> f, task |-> t]
      /\ \A d \in Calls : d # c => call'[d] = call[d]
  BY RecordFrame DEF MapInv, IInv
<1>2. call[c].key = NoKey
  BY <1>1 DEF MapInv, IdleInv
<1>3. Requests' = [Requests EXCEPT ![c] = [key |-> k, fp |-> f]]
  <2> DEFINE asked(d) == [key |-> call[d].key, fp |-> call[d].fp]
  <2>1. asked(c)' = [key |-> k, fp |-> f]
    BY <1>1
  <2>2. \A d \in Calls : d # c => asked(d)' = asked(d)
    BY <1>1
  <2>3. Requests = [d \in Calls |-> asked(d)] /\ Requests' = [d \in Calls |-> asked(d)']
    BY DEF Requests
  <2> HIDE DEF asked
  <2> QED
    BY <2>1, <2>2, <2>3
<1>4. Answers' = [Answers EXCEPT ![c] = IF s = "returned" /\ k # NoKey THEN t ELSE NoTask]
  <2>1. AnswerOf(c)' = IF s = "returned" /\ k # NoKey THEN t ELSE NoTask
    BY <1>1 DEF AnswerOf, Keyed
  <2>2. \A d \in Calls : d # c => AnswerOf(d)' = AnswerOf(d)
    BY <1>1 DEF AnswerOf, Keyed
  <2> QED
    BY <2>1, <2>2, Zenon DEF Answers
<1>5. Requests[c].key = NoKey /\ Answers[c] = NoTask /\ c \notin Begun
  BY <1>1, <1>2 DEF Requests, Answers, AnswerOf, Begun
<1> QED
  BY <1>1, <1>3, <1>4, <1>5

-----------------------------------------------------------------------------
(* Every step of the coordinator is a step of the bindings                 *)

\* A call that is refused, that joins or that has no key binds nothing.
LEMMA QuietRecordMaps ==
    ASSUME MapInv, NEW c \in Calls, NEW k \in Keys \cup {NoKey}, NEW f \in Fingerprints,
           NEW s, NEW t, Record(c, k, f, s, t), s # "returned", UNCHANGED tables,
           \/ task' = task
           \/ k = NoKey /\ Create(c)
    PROVE  Promise!Submit(c)
<1>1. /\ Requests[c].key = NoKey
      /\ Requests' = [Requests EXCEPT ![c] = [key |-> k, fp |-> f]]
      /\ Answers' = [Answers EXCEPT ![c] = NoTask]
      /\ Answers[c] = NoTask
      /\ c \notin Begun
      /\ \A d \in Calls : d # c => call'[d] = call[d]
      /\ call'[c].key = k
  BY RecordAsks
<1>2. Bindings' = Bindings /\ Holders' = Holders
  BY SameTables DEF tables
<1>3. Answers' = Answers
  BY <1>1, Zenon DEF Answers
<1>4. \A d \in Calls : d # c => task'[d] = task[d]
  BY DEF Create, MapInv, IInv, TypeInv, TypeOK
<1>5. ~(Keyed(c) /\ task[c].state # "none")'
  <2>1. task[c].state = "none"
    BY RecordFrame, Zenon DEF MapInv, IInv
  <2> QED
    BY <1>1, <2>1 DEF Keyed
<1>6. Begun' = Begun
  BY <1>1, <1>4, <1>5 DEF Begun, Keyed
<1> QED
  BY <1>1, <1>2, <1>3, <1>6, Zenon
     DEF Promise!Submit, Promise!Ask, Bindings, Holders, StateOf, Requests, Answers, AnswerOf, Begun

\* A completed binding answers a call at once.
LEMMA ReplayMaps ==
    ASSUME MapInv, NEW c \in Calls, NEW k \in Keys, NEW f \in Fingerprints,
           ReplayCompleted(c, k, f)
    PROVE  Promise!Replay(c, k)
<1>1. /\ completed[k] # NoTask
      /\ call[completed[k]].fp = f
      /\ Record(c, k, f, "returned", completed[k])
      /\ UNCHANGED <<completed, inflight, task>>
  BY DEF ReplayCompleted
<1>2. /\ Requests[c].key = NoKey
      /\ Requests' = [Requests EXCEPT ![c] = [key |-> k, fp |-> f]]
      /\ Answers' = [Answers EXCEPT ![c] = completed[k]]
      /\ c \notin Begun
      /\ \A d \in Calls : d # c => call'[d] = call[d]
  BY <1>1, RecordAsks, KeyAssumption
<1>3. Bindings' = Bindings /\ Holders' = Holders
  BY <1>1, SameTables
<1>4. Begun' = Begun
  <2>1. task[c].state = "none"
    BY <1>1, RecordFrame, Zenon DEF MapInv, IInv
  <2> QED
    BY <1>1, <1>2, <2>1 DEF Begun, Keyed
<1>5. /\ Bindings[k] = "done"
      /\ Holders[k] = completed[k]
      /\ Requests[Holders[k]].fp = f
  <2>1. completed[k] \in Calls
    BY <1>1 DEF MapInv, IInv, TypeInv, TypeOK
  <2> QED
    BY <1>1, <2>1 DEF Bindings, Holders, StateOf, Entry, Requests
<1> QED
  BY <1>2, <1>3, <1>4, <1>5, Zenon
     DEF Promise!Replay, Promise!Ask, Bindings, Holders, StateOf, Requests, Answers, AnswerOf, Begun

\* The call that finds a key free binds it to the parse that it begins.
LEMMA StartMaps ==
    ASSUME MapInv, NEW c \in Calls, NEW k \in Keys, NEW f \in Fingerprints,
           StartTask(c, k, f)
    PROVE  Promise!Bind(c, k)
<1>1. /\ Entry(k) = NoTask
      /\ Record(c, k, f, "waiting", c)
      /\ Create(c)
      /\ inflight' = [inflight EXCEPT ![k] = c]
      /\ completed' = completed
  BY DEF StartTask
<1>2. /\ Requests[c].key = NoKey
      /\ Requests' = [Requests EXCEPT ![c] = [key |-> k, fp |-> f]]
      /\ Answers' = [Answers EXCEPT ![c] = NoTask]
      /\ Answers[c] = NoTask
      /\ c \notin Begun
      /\ \A d \in Calls : d # c => call'[d] = call[d]
      /\ call'[c].key = k
  BY <1>1, RecordAsks
<1>3. Answers' = Answers
  BY <1>2, Zenon DEF Answers
<1>4. Begun' = Begun \cup {c}
  <2>1. task'[c].state = "ready" /\ \A d \in Calls : d # c => task'[d] = task[d]
    BY <1>1 DEF Create, MapInv, IInv, TypeInv, TypeOK
  <2>2. Keyed(c)'
    BY <1>2, KeyAssumption DEF Keyed
  <2> QED
    BY <1>2, <2>1, <2>2 DEF Begun, Keyed
<1>5. completed[k] = NoTask
  BY <1>1 DEF Entry
<1>6. /\ inflight'[k] = c
      /\ \A j \in Keys : j # k => inflight'[j] = inflight[j]
  BY <1>1 DEF MapInv, IInv, TypeInv, TypeOK
<1>7. Holders' = [Holders EXCEPT ![k] = c]
  <2>1. Entry(k)' = c /\ \A j \in Keys : j # k => Entry(j)' = Entry(j)
    BY <1>1, <1>5, <1>6 DEF Entry
  <2> QED
    BY <2>1, Zenon DEF Holders
<1>8. Bindings' = [Bindings EXCEPT ![k] = "pending"] /\ Bindings[k] = "free"
  <2>1. /\ StateOf(k)' = "pending"
        /\ \A j \in Keys : j # k => StateOf(j)' = StateOf(j)
    BY <1>1, <1>5, <1>6, TaskAssumption DEF StateOf, Entry
  <2> QED
    BY <1>1, <2>1, Zenon DEF Bindings, StateOf
<1> QED
  BY <1>2, <1>3, <1>4, <1>7, <1>8, Zenon
     DEF Promise!Bind, Promise!Ask, Bindings, Holders, StateOf, Requests, Answers, AnswerOf, Begun

\* A parse that succeeds and still holds its key makes the binding final, and the
\* entries that are evicted for it are the final bindings that are given up.
LEMMA SuccessMaps ==
    ASSUME MapInv, NEW t \in Calls, SettleSuccess(t)
    PROVE  (\E k \in Keys : Promise!Finish(k)) \/ UNCHANGED mapped
<1>1. /\ task[t].state = "parsed"
      /\ task' = [task EXCEPT ![t].state = "succeeded"]
      /\ call' = call
  BY DEF SettleSuccess
<1>2. UNCHANGED <<Requests, Answers, Begun>>
  BY <1>1, SameCalls, SameBegun, Zenon DEF MapInv, IInv
<1>3. CASE ~Current(t)
  <2>1. UNCHANGED tables
    BY <1>3 DEF SettleSuccess
  <2> QED
    BY <1>2, <2>1, SameTables DEF mapped, tables
<1>4. CASE Current(t)
  <2>0. PICK k \in Keys : k = call[t].key
    BY <1>4 DEF Current, MapInv, IInv, TypeInv, TypeOK
  <2> DEFINE K == {j \in Keys : completed[j] # NoTask /\ ~In(order', j)}
  <2>1. /\ inflight[k] = t
        /\ completed[k] = NoTask
        /\ inflight' = [inflight EXCEPT ![k] = NoTask]
        /\ completed' = [j \in Keys |-> IF ~In(order', j) THEN NoTask
                                         ELSE IF j = k THEN t ELSE completed[j]]
        /\ In(order', k)
    BY <1>4, <2>0, StoreFrame DEF MapInv, IInv
  <2>2. /\ inflight'[k] = NoTask
        /\ \A j \in Keys : j # k => inflight'[j] = inflight[j]
        /\ completed'[k] = t
        /\ t # NoTask
    BY <2>1, TaskAssumption DEF MapInv, IInv, TypeInv, TypeOK
  <2>3. \A j \in Keys : j # k => completed'[j] = IF j \in K THEN NoTask ELSE completed[j]
    BY <2>1
  <2>4. \A j \in K : j # k /\ inflight[j] = NoTask
    BY <2>1 DEF MapInv, IInv, TableInv, TableInvOf
  <2>5. ASSUME NEW j \in Keys
        PROVE  /\ StateOf(j)' = IF j = k THEN "done" ELSE IF j \in K THEN "free" ELSE StateOf(j)
               /\ Entry(j)' = IF j \in K THEN NoTask ELSE Entry(j)
    <3>1. CASE j = k
      BY <2>1, <2>2, <2>4, <3>1 DEF StateOf, Entry
    <3>2. CASE j \in K
      BY <2>2, <2>3, <2>4, <3>2 DEF StateOf, Entry
    <3>3. CASE j # k /\ j \notin K
      BY <2>2, <2>3, <3>3 DEF StateOf, Entry
    <3> QED
      BY <3>1, <3>2, <3>3
  <2>6. Bindings[k] = "pending"
    BY <2>1, <2>2 DEF Bindings, StateOf, Entry
  <2>7. K \in SUBSET {j \in Keys : Bindings[j] = "done"}
    BY DEF Bindings, StateOf, Entry
  <2> HIDE DEF K
  <2>8. /\ Bindings' = [j \in Keys |-> IF j = k THEN "done"
                                       ELSE IF j \in K THEN "free" ELSE Bindings[j]]
        /\ Holders' = [j \in Keys |-> IF j \in K THEN NoTask ELSE Holders[j]]
    BY <2>5 DEF Bindings, Holders
  <2>9. Promise!Finish(k)
    BY <1>2, <2>6, <2>7, <2>8, Zenon
       DEF Promise!Finish, Bindings, Holders, StateOf, Requests, Answers, AnswerOf, Begun
  <2> QED
    BY <2>9
<1> QED
  BY <1>3, <1>4

\* A parse that fails and still holds its key gives the binding up.
LEMMA FailureMaps ==
    ASSUME MapInv, NEW t \in Calls, SettleFailure(t)
    PROVE  Promise!GiveUp \/ UNCHANGED mapped
<1>1. /\ task[t].state = "rejected"
      /\ task' = [task EXCEPT ![t].state = "failed"]
      /\ inflight' = [j \in Keys |-> IF Current(t) /\ j = call[t].key
                                     THEN NoTask ELSE inflight[j]]
      /\ completed' = completed
      /\ call' = call
  BY DEF SettleFailure
<1>2. UNCHANGED <<Requests, Answers, Begun>>
  BY <1>1, SameCalls, SameBegun, Zenon DEF MapInv, IInv
<1>3. CASE ~Current(t)
  <2>1. inflight' = inflight
    BY <1>1, <1>3 DEF MapInv, IInv, TypeInv, TypeOK
  <2> QED
    BY <1>1, <1>2, <2>1, SameTables DEF mapped
<1>4. CASE Current(t)
  <2>1. PICK k \in Keys : k = call[t].key /\ inflight[k] = t
    BY <1>4 DEF Current, MapInv, IInv, TypeInv, TypeOK
  <2>2. completed[k] = NoTask /\ t # NoTask
    BY <2>1, TaskAssumption DEF MapInv, IInv, TableInv, TableInvOf
  <2>3. \A j \in Keys : inflight'[j] = IF j = k THEN NoTask ELSE inflight[j]
    BY <1>1, <1>4, <2>1
  <2>4. ASSUME NEW j \in Keys
        PROVE  /\ StateOf(j)' = IF j \in {k} THEN "free" ELSE StateOf(j)
               /\ Entry(j)' = IF j \in {k} THEN NoTask ELSE Entry(j)
    BY <1>1, <2>2, <2>3 DEF StateOf, Entry
  <2>5. Bindings[k] = "pending"
    BY <2>1, <2>2 DEF Bindings, StateOf, Entry
  <2>6. /\ Bindings' = [j \in Keys |-> IF j \in {k} THEN "free" ELSE Bindings[j]]
        /\ Holders' = [j \in Keys |-> IF j \in {k} THEN NoTask ELSE Holders[j]]
    BY <2>4 DEF Bindings, Holders
  <2>7. Bindings[k] = "pending" /\ Promise!Free({k})
    BY <2>5, <2>6 DEF Promise!Free, Bindings, Holders, StateOf
  <2>8. \E j \in Keys : Bindings[j] = "pending" /\ Promise!Free({j})
    BY <2>7
  <2> QED
    BY <1>2, <2>8, Zenon
       DEF Promise!GiveUp, Bindings, StateOf, Requests, Answers, AnswerOf, Begun
<1> QED
  BY <1>3, <1>4

\* close() gives every binding up.
LEMMA CloseMaps ==
    ASSUME FinishClose
    PROVE  Promise!GiveUp
<1>1. /\ completed' = [k \in Keys |-> NoTask]
      /\ inflight' = [k \in Keys |-> NoTask]
      /\ call' = call
      /\ task' = task
  BY DEF FinishClose
<1>2. UNCHANGED <<Requests, Answers, Begun>>
  BY <1>1, SameCalls DEF Begun, Keyed
<1>3. \A j \in Keys : StateOf(j)' = "free" /\ Entry(j)' = NoTask
  BY <1>1 DEF StateOf, Entry
<1>4. /\ Bindings' = [j \in Keys |-> IF j \in Keys THEN "free" ELSE Bindings[j]]
      /\ Holders' = [j \in Keys |-> IF j \in Keys THEN NoTask ELSE Holders[j]]
  BY <1>3 DEF Bindings, Holders
<1>5. Promise!Free(Keys)
  BY <1>4 DEF Promise!Free, Bindings, Holders, StateOf
<1> QED
  BY <1>2, <1>5 DEF Promise!GiveUp, Requests, Answers, AnswerOf, Begun

\* A delivered result is the answer of a parse of the same key and fingerprint; a
\* failure, and the result of a call without key, answer nothing.
LEMMA DeliverMaps ==
    ASSUME MapInv, NEW c \in Calls, Deliver(c)
    PROVE  Promise!Answer(c) \/ UNCHANGED mapped
<1> DEFINE t == call[c].task
           o == Outcome(t)
<1>1. /\ call[c].state = "waiting"
      /\ task[t].state \in Settled
      /\ call' = [call EXCEPT ![c].state = o]
      /\ UNCHANGED <<completed, inflight, task>>
  BY DEF Deliver, tables
<1>2. /\ t \in Calls
      /\ task[t].state # "none"
      /\ call[t].key = call[c].key
      /\ call[t].fp = call[c].fp
  BY <1>1 DEF MapInv, IInv, CallInv, CallInvOf, Served
<1>3. o = "returned" <=> task[t].state = "succeeded"
  BY <1>1 DEF Outcome, Settled
<1> HIDE DEF o
<1>4. /\ call'[c].key = call[c].key /\ call'[c].fp = call[c].fp
      /\ call'[c].task = t /\ call'[c].state = o
      /\ \A d \in Calls : d # c => call'[d] = call[d]
  BY <1>1 DEF MapInv, IInv, TypeInv, TypeOK
<1> HIDE DEF t
<1>5. UNCHANGED <<Bindings, Holders>>
  BY <1>1, SameTables
<1>6. \A d \in Calls : call'[d].key = call[d].key /\ call'[d].fp = call[d].fp
  BY <1>4
<1>7. UNCHANGED <<Requests, Begun>>
  BY <1>1, <1>6 DEF Requests, Begun, Keyed
<1>8. Answers[c] = NoTask
  BY <1>1 DEF Answers, AnswerOf
<1>9. \A d \in Calls : d # c => AnswerOf(d)' = AnswerOf(d)
  BY <1>4 DEF AnswerOf, Keyed
<1>10. CASE o = "returned" /\ Keyed(c)
  <2>1. AnswerOf(c)' = t
    BY <1>4, <1>10 DEF AnswerOf, Keyed
  <2>2. Answers' = [Answers EXCEPT ![c] = t]
    BY <1>9, <2>1, Zenon DEF Answers
  <2>3. t \in Begun /\ Requests[t] = Requests[c] /\ Requests[c].key # NoKey
    BY <1>2, <1>10 DEF Begun, Requests, Keyed
  <2> QED
    BY <1>5, <1>7, <1>8, <2>2, <2>3, Zenon
       DEF Promise!Answer, Bindings, Holders, StateOf, Requests, Answers, AnswerOf, Begun
<1>11. CASE ~(o = "returned" /\ Keyed(c))
  <2>1. AnswerOf(c)' = NoTask /\ AnswerOf(c) = NoTask
    BY <1>1, <1>4, <1>11 DEF AnswerOf, Keyed
  <2>2. Answers' = Answers
    BY <1>9, <2>1 DEF Answers
  <2> QED
    BY <1>5, <1>7, <2>2 DEF mapped
<1> QED
  BY <1>10, <1>11

\* A caller that gives up leaves every binding and every answer alone.
LEMMA CancelMaps ==
    ASSUME MapInv, NEW c \in Calls, CancelCaller(c)
    PROVE  UNCHANGED mapped
<1>1. /\ call[c].state = "waiting"
      /\ call' = [call EXCEPT ![c].state = "cancelled"]
      /\ UNCHANGED <<completed, inflight>>
  BY DEF CancelCaller, tables
<1>2. /\ call'[c].key = call[c].key /\ call'[c].fp = call[c].fp
      /\ call'[c].state = "cancelled"
      /\ \A d \in Calls : d # c => call'[d] = call[d]
  BY <1>1 DEF MapInv, IInv, TypeInv, TypeOK
<1>3. \A d \in Calls : call'[d].key = call[d].key /\ call'[d].fp = call[d].fp
  BY <1>2
<1>4. \A u \in Calls : task'[u].state # "none" <=> task[u].state # "none"
  <2>1. CASE task' = task
    BY <2>1
  <2>2. CASE task' = [task EXCEPT ![c].state = "cancelled"] /\ task[c].state \in Live
    BY <2>2 DEF MapInv, IInv, TypeInv, TypeOK, Live
  <2> QED
    BY <2>1, <2>2 DEF CancelCaller
<1>5. UNCHANGED <<Requests, Begun>>
  BY <1>3, <1>4 DEF Requests, Begun, Keyed
<1>6. \A d \in Calls : AnswerOf(d)' = AnswerOf(d)
  BY <1>1, <1>2 DEF AnswerOf, Keyed
<1>7. UNCHANGED Answers
  BY <1>6 DEF Answers
<1> QED
  BY <1>1, <1>5, <1>7, SameTables DEF mapped

\* The attempts of a parse are not seen.
LEMMA AttemptMaps ==
    ASSUME MapInv, NEW t \in Calls, Attempt(t)
    PROVE  UNCHANGED mapped
<1>1. call' = call /\ UNCHANGED tables
  BY DEF Attempt, RejectInput, CallProvider, AttemptSucceeds, AttemptFailsRetryably,
         AttemptFailsFatally, Advance
<1>2. /\ task[t].state # "none"
      /\ task'[t].state # "none"
      /\ \A u \in Calls : u # t => task'[u] = task[u]
  BY DEF Attempt, RejectInput, CallProvider, AttemptSucceeds, AttemptFailsRetryably,
         AttemptFailsFatally, Advance, MapInv, IInv, TypeInv, TypeOK
<1>3. Begun' = Begun
  BY <1>1, <1>2 DEF Begun, Keyed
<1> QED
  BY <1>1, <1>3, SameTables, SameCalls DEF mapped, tables

\* A call of parse_text is a request, and may bind its key or be answered at once.
LEMMA ParseTextMaps ==
    ASSUME MapInv, NEW c \in Calls, ParseText(c)
    PROVE  Promise!Submit(c) \/ \E k \in Keys : Promise!Bind(c, k) \/ Promise!Replay(c, k)
<1>1. PICK f \in Fingerprints :
         \/ ParseUnkeyed(c, f)
         \/ RejectInvalidKey(c, f)
         \/ \E k \in Keys : \/ ReplayCompleted(c, k, f)
                            \/ RejectConflict(c, k, f)
                            \/ JoinInflight(c, k, f)
                            \/ StartTask(c, k, f)
  BY DEF ParseText
<1>2. CASE ParseUnkeyed(c, f)
  BY <1>2, QuietRecordMaps DEF ParseUnkeyed
<1>3. CASE RejectInvalidKey(c, f)
  BY <1>3, QuietRecordMaps DEF RejectInvalidKey
<1>4. ASSUME NEW k \in Keys, RejectConflict(c, k, f) PROVE Promise!Submit(c)
  BY <1>4, QuietRecordMaps DEF RejectConflict
<1>5. ASSUME NEW k \in Keys, JoinInflight(c, k, f) PROVE Promise!Submit(c)
  BY <1>5, QuietRecordMaps DEF JoinInflight
<1> QED
  BY <1>1, <1>2, <1>3, <1>4, <1>5, ReplayMaps, StartMaps

LEMMA StepMaps ==
    MapInv /\ [Next]_vars => Promise!Next \/ UNCHANGED mapped
<1> SUFFICES ASSUME MapInv, [Next]_vars PROVE Promise!Next \/ UNCHANGED mapped
  OBVIOUS
<1>1. CASE Start \/ BeginClose \/ UNCHANGED vars
  <2>1. UNCHANGED <<completed, inflight, task, call>>
    BY <1>1 DEF Start, BeginClose, vars, tables
  <2>2. Begun' = Begun
    BY <2>1 DEF Begun, Keyed
  <2> QED
    BY <2>1, <2>2, SameTables, SameCalls DEF mapped
<1>2. CASE FinishClose
  BY <1>2, CloseMaps DEF Promise!Next
<1>3. ASSUME NEW c \in Calls, ParseText(c) PROVE Promise!Next
  BY <1>3, ParseTextMaps DEF Promise!Next
<1>4. ASSUME NEW c \in Calls, Settle(c) PROVE Promise!Next \/ UNCHANGED mapped
  BY <1>4, SuccessMaps, FailureMaps DEF Settle, Promise!Next
<1>5. ASSUME NEW c \in Calls, Deliver(c) PROVE Promise!Next \/ UNCHANGED mapped
  BY <1>5, DeliverMaps DEF Promise!Next
<1> QED
  BY <1>1, <1>2, <1>3, <1>4, <1>5, AttemptMaps, CancelMaps DEF Next

\* The coordinator keeps what KeyBinding promises the callers: whatever calls race,
\* give up, fail or are evicted, and however often the service closes and starts, a key
\* never passes from one parse to another, and no call is answered by another's parse.
THEOREM CoordinatorKeepsThePromise == Spec => ImplementsKeyBinding
<1>1. Init => Promise!Init
  BY DEF Init, Promise!Init, Entry, Keyed, NoParse
<1>2. MapInv /\ [Next]_vars => [Promise!Next]_(Promise!vars)
  BY StepMaps DEF mapped, Promise!vars, Bindings, Holders, StateOf, Requests, Answers,
     AnswerOf, Begun
<1> QED
  BY <1>1, <1>2, MapInvariant, PTL DEF Spec, ImplementsKeyBinding, Promise!Spec
=============================================================================
