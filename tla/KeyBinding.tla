---------------------------- MODULE KeyBinding -----------------------------
(***************************************************************************)
(* What idempotency keys promise to the callers of RuleParsingService,     *)
(* with no word of tables, order, attempts or life cycle: a key that is    *)
(* free may be bound to the parse that one call begins; the binding may    *)
(* become final or be given up, but never passes from one parse to another *)
(* directly; and a call is answered, once, by a parse that was begun for   *)
(* the same key and the same fingerprint.                                  *)
(***************************************************************************)
CONSTANTS Calls, Keys, Fingerprints, NoKey, NoTask

VARIABLES binding,  \* the state of a key: free, pending or done
          holder,   \* the parse that a key is bound to
          request,  \* what a call asked for
          answer,   \* the parse that answered a call
          begun     \* the parses ever begun, each named after its call

vars == <<binding, holder, request, answer, begun>>

Init ==
    /\ binding = [k \in Keys |-> "free"]
    /\ holder = [k \in Keys |-> NoTask]
    /\ request = [c \in Calls |-> [key |-> NoKey, fp |-> CHOOSE f \in Fingerprints : TRUE]]
    /\ answer = [c \in Calls |-> NoTask]
    /\ begun = {}

Free(K) ==
    /\ binding' = [k \in Keys |-> IF k \in K THEN "free" ELSE binding[k]]
    /\ holder' = [k \in Keys |-> IF k \in K THEN NoTask ELSE holder[k]]

Ask(c, k, f) ==
    /\ request[c].key = NoKey
    /\ request' = [request EXCEPT ![c] = [key |-> k, fp |-> f]]

\* A call that binds nothing: it joins, it is refused, or it has no key.
Submit(c) ==
    /\ \E k \in Keys \cup {NoKey}, f \in Fingerprints : Ask(c, k, f)
    /\ UNCHANGED <<binding, holder, answer, begun>>

Bind(c, k) ==
    /\ binding[k] = "free"
    /\ c \notin begun
    /\ \E f \in Fingerprints : Ask(c, k, f)
    /\ binding' = [binding EXCEPT ![k] = "pending"]
    /\ holder' = [holder EXCEPT ![k] = c]
    /\ begun' = begun \cup {c}
    /\ UNCHANGED answer

\* A final binding answers a call at once.
Replay(c, k) ==
    /\ binding[k] = "done"
    /\ Ask(c, k, request[holder[k]].fp)
    /\ answer' = [answer EXCEPT ![c] = holder[k]]
    /\ UNCHANGED <<binding, holder, begun>>

\* The parse of k is final; other final bindings may be given up for it.
Finish(k) ==
    /\ binding[k] = "pending"
    /\ \E K \in SUBSET {j \in Keys : binding[j] = "done"} :
          /\ binding' = [j \in Keys |-> IF j = k THEN "done"
                                        ELSE IF j \in K THEN "free" ELSE binding[j]]
          /\ holder' = [j \in Keys |-> IF j \in K THEN NoTask ELSE holder[j]]
    /\ UNCHANGED <<request, answer, begun>>

\* Bindings are given up: a parse failed, or everything is forgotten.
GiveUp ==
    /\ \/ \E k \in Keys : binding[k] = "pending" /\ Free({k})
       \/ Free(Keys)
    /\ UNCHANGED <<request, answer, begun>>

Answer(c) ==
    /\ request[c].key # NoKey
    /\ answer[c] = NoTask
    /\ \E t \in begun : request[t] = request[c] /\ answer' = [answer EXCEPT ![c] = t]
    /\ UNCHANGED <<binding, holder, request, begun>>

Next ==
    \/ GiveUp
    \/ \E k \in Keys : Finish(k)
    \/ \E c \in Calls : \/ Submit(c)
                        \/ Answer(c)
                        \/ \E k \in Keys : Bind(c, k) \/ Replay(c, k)

Spec == Init /\ [][Next]_vars

=============================================================================
