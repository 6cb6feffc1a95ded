------------------------ MODULE MCIdempotentParsing ------------------------
(* Small instances of IdempotentParsing for TLC.                           *)
EXTENDS IdempotentParsing, TLC

\* Calls and keys are interchangeable in the safety runs.
Symmetry == Permutations(Calls) \cup Permutations(Keys)

\* The run about the LRU order leaves aside the calls that never use the cache:
\* those without a key, and those that fail, conflict or are cancelled.
OnlyCacheTraffic ==
    \A c \in Calls : \/ call[c].state = "idle"
                     \/ Keyed(c) /\ call[c].state \in {"waiting", "returned"}

\* The run about the tables leaves aside the calls that have no key, or a
\* malformed one: they touch no table, and the liveness run has them.
OnlyCallsWithKey == \A c \in Calls : call[c].state = "idle" \/ Keyed(c)
=============================================================================
