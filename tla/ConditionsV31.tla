--------------------------- MODULE ConditionsV31 ---------------------------
(***************************************************************************)
(* What recurs over the trees of conditions and expressions of Rule Schema *)
(* 3.1.0 (domain/rules/validation_v31.py): module ConditionNodesV31 says   *)
(* what one node comes to, given its parts.  The recursions do not depend  *)
(* on each other but for conditions, which ask for values; each takes from *)
(* that module what it needs, and no value for the rest.                   *)
(***************************************************************************)
EXTENDS SequencesExt

NoType(e, facts, parameters)          == "none"
NoValue(n, context, facts, parameters) == "none"

RECURSIVE Nodes(_)
Node == INSTANCE ConditionNodesV31
            WITH NodesOf <- Nodes, InferredTypeOf <- NoType, ValueOf <- NoValue, ResultOf <- NoValue
Nodes(node) == {node} \cup UNION {Nodes(part) : part \in ToSet(Node!Below(node))}

\* How many nodes there are, repeated ones counted: ids are distinct when they are as many.
RECURSIVE Size(_)
Size(node) == FoldLeft(LAMBDA n, part : n + Size(part), 1, Node!Below(node))

RECURSIVE TypeOf(_, _, _)
TypeOf(e, facts, parameters) ==
    Node!Typed(e, [i \in DOMAIN Node!Children(e) |-> TypeOf(e.children[i], facts, parameters)],
               facts, parameters)

\* _evaluate_expression.
RECURSIVE Value(_, _, _, _)
Expression == INSTANCE ConditionNodesV31
            WITH NodesOf <- Nodes, InferredTypeOf <- TypeOf, ValueOf <- Value, ResultOf <- NoValue
Value(e, context, facts, parameters) == Expression!Valued(e, context, facts, parameters)

\* evaluate_condition_v31.
RECURSIVE Holds(_, _, _, _)
Condition == INSTANCE ConditionNodesV31
            WITH NodesOf <- Nodes, InferredTypeOf <- TypeOf, ValueOf <- Value, ResultOf <- Holds
Holds(node, context, facts, parameters) == Condition!Judged(node, context, facts, parameters)
=============================================================================
