------------------------- MODULE IdempotentParsing -------------------------
(***************************************************************************)
(* The idempotency coordinator of RuleParsingService (workflow.py): the    *)
(* table of parses in flight and the bounded LRU table of completed ones,  *)
(* the asyncio tasks that fill them, the callers that wait for a task      *)
(* through asyncio.shield, and the life cycle of the service around them.  *)
(*                                                                         *)
(* asyncio runs one task at a time and switches only at an await.  No      *)
(* section under _idempotency_lock awaits anything, so the lock is never   *)
(* contended and each section is one action.                               *)
(*                                                                         *)
(* A call of parse_text is an element of Calls; the task a call creates    *)
(* bears the name of the call.  A key stands for the SHA-256 digest of an  *)
(* idempotency key that passed the format check, a fingerprint for the     *)
(* SHA-256 digest of the parse identity.                                   *)
(***************************************************************************)
EXTENDS Naturals, Sequences, FiniteSets

CONSTANTS Calls,         \* invocations of parse_text
          Keys,          \* digests of well-formed idempotency keys
          Fingerprints,  \* digests of parse identities
          Capacity,      \* idempotency_cache_max_entries
          MaxAttempts,   \* max_retries + 1
          NoKey,         \* idempotency_key is None
          NoTask         \* None, where a task is expected

ASSUME CapacityAssumption == Capacity \in Nat \ {0}
ASSUME AttemptsAssumption == MaxAttempts \in Nat \ {0}
ASSUME KeyAssumption      == NoKey \notin Keys
ASSUME TaskAssumption     == NoTask \notin Calls
ASSUME FingerprintAssumption == Fingerprints # {}

VARIABLES completed,  \* _completed_idempotency: the task whose result a key has
          order,      \* the order of that OrderedDict, least recently used first
          inflight,   \* _inflight_idempotency: the task that works on a key
          task,       \* task[c]: the parse that call c created, if it did
          call,       \* call[c]: what became of call c
          client,     \* DeepSeekChatModel._client
          service,    \* where start() and close() stand
          forgotten,  \* history: tasks whose entry was evicted or cleared
          since       \* history: the keys used since the last use of each key

tables  == <<completed, order, inflight>>
history == <<forgotten, since>>
vars    == <<completed, order, inflight, task, call, client, service, forgotten, since>>

Live      == {"ready", "calling", "parsed", "rejected"}
Settled   == {"succeeded", "failed", "cancelled"}
NoParse   == [state |-> "none", attempts |-> 0]

TypeOK ==
    /\ completed \in [Keys -> Calls \cup {NoTask}]
    /\ order \in Seq(Keys)
    /\ inflight \in [Keys -> Calls \cup {NoTask}]
    /\ task \in [Calls -> [state    : {"none"} \cup Live \cup Settled,
                           attempts : 0 .. MaxAttempts]]
    /\ call \in [Calls -> [state : {"idle", "waiting", "returned", "failed",
                                    "aborted", "conflict", "invalid", "cancelled"},
                           key   : Keys \cup {NoKey},
                           fp    : Fingerprints,
                           task  : Calls \cup {NoTask}]]
    /\ client \in {"none", "open"}
    /\ service \in {"stopped", "started", "closing"}
    /\ forgotten \subseteq Calls
    /\ since \in [Keys -> SUBSET Keys]

Init ==
    /\ completed = [k \in Keys |-> NoTask]
    /\ order = <<>>
    /\ inflight = [k \in Keys |-> NoTask]
    /\ task = [c \in Calls |-> NoParse]
    /\ call = [c \in Calls |-> [state |-> "idle", key |-> NoKey,
                                fp |-> CHOOSE f \in Fingerprints : TRUE,
                                task |-> NoTask]]
    /\ client = "none"
    /\ service = "stopped"
    /\ forgotten = {}
    /\ since = [k \in Keys |-> Keys]

-----------------------------------------------------------------------------
(* The tables.  Mutated forms of an operator stand before it; they are the *)
(* plausible slips the properties below have to notice.                    *)

\* What a key is bound to: parse_text looks at the completed table first.
EntryInflightOnly(k) == inflight[k]
Entry(k) == IF completed[k] # NoTask THEN completed[k] ELSE inflight[k]

\* Is t the task that the in-flight table holds for its key?
CurrentUnchecked(t) == call[t].key # NoKey
Current(t)          == call[t].key # NoKey /\ inflight[call[t].key] = t

\* OrderedDict.move_to_end, which also appends a key that is new.
Without(o, k) ==
    LET i == CHOOSE j \in 1 .. Len(o) : o[j] = k
    IN  IF \E j \in 1 .. Len(o) : o[j] = k
        THEN [j \in 1 .. Len(o) - 1 |-> IF j < i THEN o[j] ELSE o[j + 1]]
        ELSE o

NeverMoved(o, k) == IF \E j \in 1 .. Len(o) : o[j] = k THEN o ELSE Append(o, k)
MoveToEnd(o, k)  == Append(Without(o, k), k)

\* What popitem(last=False) leaves when it runs while the table is too long.
Newest(o)        == IF Len(o) > Capacity
                    THEN SubSeq(o, Len(o) - Capacity + 1, Len(o)) ELSE o

In(o, k) == \E j \in 1 .. Len(o) : o[j] = k

\* History: k is used now; before its first use a key is in its own set.
Use(k)     == since' = [j \in Keys |-> IF j = k THEN {} ELSE since[j] \cup {k}]
ForgetUses == since' = [k \in Keys |-> Keys]

-----------------------------------------------------------------------------
(* start() and close()                                                     *)

\* start() opens the client (the provider is configured).
Start ==
    /\ service = "stopped"
    /\ service' = "started"
    /\ client' = "open"
    /\ UNCHANGED <<tables, task, call, history>>

\* close() up to the await of aclose(): the client is given up at once.
BeginClose ==
    /\ service = "started"
    /\ service' = "closing"
    /\ client' = "none"
    /\ UNCHANGED <<tables, task, call, history>>

\* The rest of close(): both tables are cleared.  The tasks are not cancelled.
FinishClose ==
    /\ service = "closing"
    /\ service' = "stopped"
    /\ completed' = [k \in Keys |-> NoTask]
    /\ order' = <<>>
    /\ ForgetUses
    /\ inflight' = [k \in Keys |-> NoTask]
    /\ forgotten' = forgotten \cup
                      {t \in Calls : \E k \in Keys : t \in {completed[k], inflight[k]}}
    /\ UNCHANGED <<task, call, client>>

-----------------------------------------------------------------------------
(* parse_text.  The callers are requests of a running service.             *)

\* The call is recorded with what it asked for and what became of it.
Record(c, k, f, state, t) ==
    /\ service = "started"
    /\ call[c].state = "idle"
    /\ call' = [call EXCEPT ![c] = [state |-> state, key |-> k, fp |-> f, task |-> t]]

Create(c) == task' = [task EXCEPT ![c] = [state |-> "ready", attempts |-> 0]]

\* Without a key the parse runs in the caller's own coroutine.
ParseUnkeyed(c, f) ==
    /\ Record(c, NoKey, f, "waiting", c)
    /\ Create(c)
    /\ UNCHANGED <<tables, client, service, history>>

\* A malformed key is refused before its digest is taken.
RejectInvalidKey(c, f) ==
    /\ Record(c, NoKey, f, "invalid", NoTask)
    /\ UNCHANGED <<tables, task, client, service, history>>

\* A completed parse of the same identity is replayed, and becomes the newest.
ReplayCompleted(c, k, f) ==
    /\ completed[k] # NoTask
    /\ call[completed[k]].fp = f
    /\ Record(c, k, f, "returned", completed[k])
    /\ order' = MoveToEnd(order, k)
    /\ Use(k)
    /\ UNCHANGED <<completed, inflight, task, client, service, forgotten>>

\* The key is bound to another parse identity.
RejectConflict(c, k, f) ==
    /\ Entry(k) # NoTask
    /\ call[Entry(k)].fp # f
    /\ Record(c, k, f, "conflict", NoTask)
    /\ UNCHANGED <<tables, task, client, service, history>>

\* A parse of the same identity is in flight: wait for its task.
JoinWhateverIsInflight(c, k, f) ==
    /\ completed[k] = NoTask
    /\ inflight[k] # NoTask
    /\ Record(c, k, f, "waiting", inflight[k])
    /\ UNCHANGED <<tables, task, client, service, history>>

JoinInflight(c, k, f) ==
    /\ completed[k] = NoTask
    /\ inflight[k] # NoTask
    /\ call[inflight[k]].fp = f
    /\ Record(c, k, f, "waiting", inflight[k])
    /\ UNCHANGED <<tables, task, client, service, history>>

\* The key is free: create the task that every call with this key will share.
StartTask(c, k, f) ==
    /\ Entry(k) = NoTask
    /\ Record(c, k, f, "waiting", c)
    /\ Create(c)
    /\ inflight' = [inflight EXCEPT ![k] = c]
    /\ UNCHANGED <<completed, order, client, service, history>>

-----------------------------------------------------------------------------
(* The parse of one task: _parse_once, seen from outside.                  *)

Advance(t, from, to) ==
    /\ task[t].state = from
    /\ task' = [task EXCEPT ![t].state = to]
    /\ UNCHANGED <<tables, call, service, history>>

\* prepare_input refuses the text; the provider is never called.
RejectInput(t) ==
    /\ task[t].attempts = 0
    /\ Advance(t, "ready", "rejected")
    /\ UNCHANGED client

\* An attempt reaches the provider.  A closed client is opened again.
CallProviderUncounted(t) ==
    /\ Advance(t, "ready", "calling")
    /\ client' = "open"

CallProvider(t) ==
    /\ task[t].state = "ready"
    /\ task' = [task EXCEPT ![t] = [state |-> "calling", attempts |-> @.attempts + 1]]
    /\ client' = "open"
    /\ UNCHANGED <<tables, call, service, history>>

\* A candidate arrived and was accepted; the graph has a result.
AttemptSucceeds(t) == Advance(t, "calling", "parsed") /\ UNCHANGED client

\* A retryable failure: back off for another attempt while any is left.
RetryOnceTooOften(t) ==
    /\ Advance(t, "calling", IF task[t].attempts <= MaxAttempts THEN "ready" ELSE "rejected")
    /\ UNCHANGED client

AttemptFailsRetryably(t) ==
    /\ Advance(t, "calling", IF task[t].attempts < MaxAttempts THEN "ready" ELSE "rejected")
    /\ UNCHANGED client

AttemptFailsFatally(t) == Advance(t, "calling", "rejected") /\ UNCHANGED client

\* _run_idempotent after success: a task that is still the one in flight for
\* its key moves to the completed table, and the oldest entries give way.
StoreResult(t) ==
    LET k    == call[t].key
        kept == Newest(MoveToEnd(order, k))
    IN  /\ inflight' = [inflight EXCEPT ![k] = NoTask]
        /\ order' = kept
        /\ completed' = [j \in Keys |-> IF ~In(kept, j) THEN NoTask
                                        ELSE IF j = k THEN t ELSE completed[j]]
        /\ forgotten' = forgotten \cup
                          {u \in Calls : \E j \in Keys : completed[j] = u /\ ~In(kept, j)}
        /\ Use(k)

SettleSuccess(t) ==
    /\ task[t].state = "parsed"
    /\ task' = [task EXCEPT ![t].state = "succeeded"]
    /\ IF Current(t) THEN StoreResult(t) ELSE UNCHANGED <<tables, history>>
    /\ UNCHANGED <<call, client, service>>

\* _run_idempotent after an exception: the key is free again.
SettleFailureUnchecked(t) ==
    /\ task[t].state = "rejected"
    /\ task' = [task EXCEPT ![t].state = "failed"]
    /\ inflight' = [k \in Keys |-> IF k = call[t].key THEN NoTask ELSE inflight[k]]
    /\ UNCHANGED <<completed, order, call, client, service, history>>

SettleFailure(t) ==
    /\ task[t].state = "rejected"
    /\ task' = [task EXCEPT ![t].state = "failed"]
    /\ inflight' = [k \in Keys |-> IF Current(t) /\ k = call[t].key
                                   THEN NoTask ELSE inflight[k]]
    /\ UNCHANGED <<completed, order, call, client, service, history>>

-----------------------------------------------------------------------------
(* The callers                                                             *)

\* The awaited task is done: its result or its exception reaches the caller.
Outcome(t) ==
    CASE task[t].state = "succeeded" -> "returned"
      [] task[t].state = "failed"    -> "failed"
      [] task[t].state = "cancelled" -> "aborted"

Deliver(c) ==
    /\ call[c].state = "waiting"
    /\ task[call[c].task].state \in Settled
    /\ call' = [call EXCEPT ![c].state = Outcome(call[c].task)]
    /\ UNCHANGED <<tables, task, client, service, history>>

\* A waiting caller is cancelled.  asyncio.shield keeps the cancellation from
\* a keyed task; a parse without key is the caller's own coroutine.
CancelUnshielded(c) ==
    /\ call[c].state = "waiting"
    /\ call' = [call EXCEPT ![c].state = "cancelled"]
    /\ task[call[c].task].state \in Live
    /\ task' = [task EXCEPT ![call[c].task].state = "cancelled"]
    /\ inflight' = [k \in Keys |-> IF inflight[k] = call[c].task THEN NoTask ELSE inflight[k]]
    /\ UNCHANGED <<completed, order, client, service, history>>

CancelCaller(c) ==
    /\ call[c].state = "waiting"
    /\ call' = [call EXCEPT ![c].state = "cancelled"]
    /\ \/ /\ call[c].key # NoKey
          /\ UNCHANGED task
       \/ /\ call[c].key = NoKey
          /\ task[c].state \in Live
          /\ task' = [task EXCEPT ![c].state = "cancelled"]
    /\ UNCHANGED <<tables, client, service, history>>

-----------------------------------------------------------------------------

ParseText(c) ==
    \E f \in Fingerprints :
       \/ ParseUnkeyed(c, f)
       \/ RejectInvalidKey(c, f)
       \/ \E k \in Keys : \/ ReplayCompleted(c, k, f)
                          \/ RejectConflict(c, k, f)
                          \/ JoinInflight(c, k, f)
                          \/ StartTask(c, k, f)

Attempt(t) ==
    \/ RejectInput(t)
    \/ CallProvider(t)
    \/ AttemptSucceeds(t)
    \/ AttemptFailsRetryably(t)
    \/ AttemptFailsFatally(t)

Settle(t) == SettleSuccess(t) \/ SettleFailure(t)

Next ==
    \/ Start
    \/ BeginClose
    \/ FinishClose
    \/ \E c \in Calls : \/ ParseText(c)
                        \/ Attempt(c)
                        \/ Settle(c)
                        \/ Deliver(c)
                        \/ CancelCaller(c)

\* The event loop runs every task that can run, each provider request ends
\* (httpx bounds it with a timeout), and close() ends.  Nothing obliges a
\* caller to call or to cancel, or the application to start or to close.
Fairness ==
    /\ \A c \in Calls : WF_vars(Attempt(c)) /\ WF_vars(Settle(c)) /\ WF_vars(Deliver(c))
    /\ WF_vars(FinishClose)

Spec     == Init /\ [][Next]_vars
FairSpec == Spec /\ Fairness

-----------------------------------------------------------------------------
(* Properties                                                              *)

Keyed(t) == call[t].key # NoKey

\* The two tables agree with each other and with the tasks: the order lists the
\* completed keys, each once and at most Capacity of them; a key is never both
\* completed and in flight; a completed entry holds a parse that succeeded and
\* an in-flight entry one that is still running, both started for that very key.
TablesConsistent ==
    /\ Len(order) <= Capacity
    /\ \A i, j \in 1 .. Len(order) : order[i] = order[j] => i = j
    /\ \A k \in Keys :
          /\ In(order, k) <=> completed[k] # NoTask
          /\ completed[k] # NoTask =>
                /\ inflight[k] = NoTask
                /\ task[completed[k]].state = "succeeded"
                /\ call[completed[k]].key = k
          /\ inflight[k] # NoTask =>
                /\ task[inflight[k]].state \in Live
                /\ call[inflight[k]].key = k

\* A call is only ever answered by a parse of what it asked for: the task that
\* served it was created by a call with the same key and the same fingerprint,
\* across replays, joins, evictions and restarts of the service.
NoForeignResult ==
    \A c \in Calls : call[c].state = "returned" =>
        /\ task[call[c].task].state = "succeeded"
        /\ call[call[c].task].key = call[c].key
        /\ call[call[c].task].fp = call[c].fp

\* At most one parse runs for a key, whoever asked and whoever gave up waiting;
\* only tasks that an earlier close() dropped from the table may run beside it.
SingleFlight ==
    \A t, u \in Calls \ forgotten :
        /\ Keyed(t) /\ call[t].key = call[u].key
        /\ task[t].state \in Live
        /\ task[u].state \in Live
        => t = u

\* Two calls with one key that are both answered get the result of one and the
\* same parse, unless the entry they shared was evicted or cleared meanwhile.
ExactReplay ==
    \A c, d \in Calls :
        /\ Keyed(c) /\ call[c].key = call[d].key
        /\ call[c].state = "returned"
        /\ call[d].state = "returned"
        => \/ call[c].task = call[d].task
           \/ {call[c].task, call[d].task} \cap forgotten # {}

\* The cache is exactly LRU: a key stays in it until Capacity other keys have
\* been used since its own last use, a replay counting as a use.
LeastRecentlyUsedGoes ==
    \A k \in Keys : completed[k] # NoTask <=>
                        k \notin since[k] /\ Cardinality(since[k]) < Capacity

\* A task that close() dropped never gets back into a table: its result does
\* not leak into the cache of the restarted service.
OrphansStayOut ==
    \A k \in Keys : completed[k] \notin forgotten /\ inflight[k] \notin forgotten

\* A caller that waits for a shared task never suffers from the cancellation of
\* another caller of that task.
NeighbourCancellationIsInvisible == \A c \in Calls : call[c].state # "aborted"

\* Every call that waits is answered or gives up: no schedule, failure, close or
\* cancellation of a neighbour leaves a caller waiting for ever.
EveryCallAnswered ==
    \A c \in Calls : call[c].state = "waiting" ~> call[c].state # "waiting"

-----------------------------------------------------------------------------
(* What the coordinator promises: stable bindings of keys to parses.       *)

Promise == INSTANCE KeyBinding WITH
    binding <- [k \in Keys |-> IF Entry(k) = NoTask THEN "free"
                               ELSE IF completed[k] = NoTask THEN "pending" ELSE "done"],
    holder  <- [k \in Keys |-> Entry(k)],
    request <- [c \in Calls |-> [key |-> call[c].key, fp |-> call[c].fp]],
    answer  <- [c \in Calls |-> IF call[c].state = "returned" /\ Keyed(c)
                                THEN call[c].task ELSE NoTask],
    begun   <- {t \in Calls : Keyed(t) /\ task[t].state # "none"}

\* The coordinator implements that promise.
ImplementsKeyBinding == Promise!Spec

=============================================================================
