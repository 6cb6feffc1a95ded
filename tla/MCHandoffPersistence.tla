------------------------ MODULE MCHandoffPersistence ------------------------
(* Small instances of HandoffPersistence for TLC.                          *)
EXTENDS HandoffPersistence

\* Four releases of the exporter: one; one with a further fact; one that has
\* replaced a fact by another; and one that describes a fact otherwise.
FourReleases == {[f \in {1, 2} |-> "a"],
                 [f \in {1, 2, 3} |-> "a"],
                 [f \in {1, 3} |-> "a"],
                 [f \in {2, 3} |-> IF f = 2 THEN "b" ELSE "a"]}
=============================================================================
