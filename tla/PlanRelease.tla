---------------------------- MODULE PlanRelease ----------------------------
(***************************************************************************)
(* The packages of module PlanPackages with the deliveries that the code   *)
(* builds (PlanDelivery) and the gates it has (ResultV31).                 *)
(***************************************************************************)
EXTENDS PlanPackages, PlanDelivery

\* Every fact that the tree of a delivery asks for is requested once, and no other.
Requested(delivery) == [i \in DOMAIN delivery.requests |-> delivery.requests[i].fact.code]
Complete(delivery) ==
    ToSet(Requested(delivery)) = ActiveRefs(delivery.candidate) /\ ~Repeats(Requested(delivery))
CompleteOf ==
    [name \in Revisions |-> [kind \in TheKinds |-> Complete(Built[name][kind][1])]]

\* Nothing is generated of an identity that does not hold; and whatever is generated
\* requests what its tree depends on, though no gate compares the requests with the tree.
OnlyTheFrozenPlanIsGenerated ==
    \A kind \in made : plan \in Revisions /\ CompleteOf[plan][kind]

\* The trees as they stand can be delivered: of an identity that holds both kinds are
\* generated and pass the gates of persistence, so every case reproduces and every fact of
\* a tree has a condition, a query and an example.
ThePlanIsGenerated ==
    /\ plan \in Revisions /\ written = 0
    /\ step \notin {"check_identity", "generate_report", "generate_data", "gate_delivery"}
    => step = "generated" /\ made = TheKinds
=============================================================================
