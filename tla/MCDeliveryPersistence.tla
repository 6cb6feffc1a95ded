----------------------- MODULE MCDeliveryPersistence -----------------------
(* Small instances of DeliveryPersistence for TLC.                         *)
EXTENDS DeliveryPersistence, TLC

\* Under one version: releases for 3.1.0 that differ in the rule and in the batch, in
\* the batch alone, and one for 3.0.0.  Under a second version: the same source generated
\* again.  Under the historical version: what is stored there, and what the service for
\* 3.1.0 must not write over it.
Release(version, source, schema, rule, batch) ==
    [version |-> version, source |-> source, schema |-> schema, rule |-> rule, batch |-> batch]
Releases == {Release("v", "s1", "3.1.0", "r1", "b1"), Release("v", "s1", "3.1.0", "r2", "b2"),
             Release("v", "s1", "3.1.0", "r1", "b3"), Release("v", "s1", "3.0.0", "r1", "b1"),
             Release("again", "s1", "3.1.0", "r4", "b4"),
             Release("h", "s0", "3.1.0", "r0", "b0")}

\* What a reader sees does not depend on the legacy collections; what a run counts
\* does not depend on readers, damage or other workers; and damage meets every
\* worker alone.  Those are not explored against each other, and the readers look at
\* the two versions where there is most to see.
Counting == \/ \E x \in Recoverers : recoverer[x].pc # "idle"
            \/ \E c \in CollectionNames : legacy[c] > 0
Reading  == \E r \in Readers : reader[r].pc # "idle"
Alone    == Cardinality({w \in Workers : run[w].pc # "idle"}) <= 1
Apart    == /\ Counting => Alone /\ ~Reading /\ damage = {}
            /\ damage # {} => Alone
            /\ \A r \in Readers : reader[r].version # "again"
            /\ (\A x \in Recoverers : recoverer[x].pc # "idle") =>
                  \A w \in Workers : run[w].pc = "idle"

Symmetry == Permutations(Workers) \cup Permutations(Recoverers)
=============================================================================
