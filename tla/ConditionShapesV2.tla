-------------------------- MODULE ConditionShapesV2 --------------------------
(***************************************************************************)
(* Conditions and expressions of Rule Schema 2.0.0, which 3.0.0 keeps      *)
(* (domain/rules/validation_v2.py), node by node: the fields of each kind, *)
(* the types that go together, the values that fit a fact.  A node is a    *)
(* record whose field "children" is there when it has children, as "right" *)
(* is when a comparison has a right side; facts is a function from the     *)
(* declared codes to their records.                                        *)
(***************************************************************************)
EXTENDS RuleValues, FiniteSets, SequencesExt

Children(node) == IF "children" \in DOMAIN node THEN node.children ELSE <<>>
HasRight(node) == "right" \in DOMAIN node
IsDerived(fact) == fact.kind = "derived"

\* ExpressionNodeV2.validate_shape and ConditionNodeV2.validate_shape: a node has the
\* fields of its kind and no others.
ExpressionShaped(e) ==
    LET fields == DOMAIN e \ {"kind"}
    IN  CASE e.kind = "fact"    -> fields = {"code"}
          [] e.kind = "literal" -> fields = {"value"} /\ Known(e.value)
          [] e.kind = "today"   -> fields = {}
          [] e.kind \in {"add", "multiply", "coalesce"} -> fields = {"children"} /\ Len(e.children) >= 2
          [] e.kind \in {"subtract", "divide"} -> fields = {"children"} /\ Len(e.children) = 2
          [] e.kind = "dateAdd" -> fields = {"children", "unit"} /\ Len(e.children) = 2

ConditionShaped(node) ==
    LET fields == DOMAIN node \ {"id", "kind", "enabled"}
        sides  == IF node.operator \in Unary THEN {"left"} ELSE {"left", "right"}
    IN  CASE node.kind \in {"all", "any"} -> fields = {"children"} /\ node.children # <<>>
          [] node.kind = "not"     -> fields = {"children"} /\ Len(node.children) = 1
          [] node.kind = "compare" -> fields = sides \cup {"operator", "nullPolicy"}

-----------------------------------------------------------------------------
LiteralType(v) ==
    CASE Kind(v) = "bool"       -> "boolean"
      [] Kind(v) = "number"     -> IF v[3] = 1 THEN "integer" ELSE "number"
      [] Kind(v) = "list"       -> "list"
      [] Kind(v) = "isoInstant" -> "datetime"
      [] Kind(v) = "isoDate"    -> "date"
      [] OTHER                  -> "string"

Compatible(left, right) ==
    \/ left = right
    \/ {left, right} \subseteq NumericTypes
    \/ left = "enum" /\ right = "string"

Arithmetic == {"add", "subtract", "multiply", "divide"}

\* What each operator asks of the types of its two sides, which are compatible or not.
TypesFit(operator, left, right, compatible) ==
    CASE operator \in Membership -> right = "list"
      [] operator \in Ordering   -> {left, right} \subseteq OrderedTypes /\ compatible
      [] operator \in Equality   -> compatible
      [] OTHER                   -> TRUE

\* _matches_fact_data_type, for the values a JSON document can hold.
MatchesType(v, type) ==
    CASE type = "unknown"  -> TRUE
      [] type = "boolean"  -> Kind(v) = "bool"
      [] type = "integer"  -> Kind(v) = "number" /\ v[3] = 1
      [] type \in {"number", "money"} -> Kind(v) = "number"
      [] type = "string"   -> IsString(v)
      [] type = "list"     -> Kind(v) = "list"
      [] type = "enum"     -> IsString(v) \/ Numeric(v)
      [] type = "date"     -> Kind(v) = "isoDate"
      [] type = "datetime" -> Kind(v) = "isoInstant"

\* _validate_test_value finds nothing wrong.
FitsFact(v, fact) ==
    IF v = Null THEN fact.nullable
    ELSE MatchesType(v, fact.type) /\ (fact.allowed # <<>> => PyIn(v, List(fact.allowed)))
=============================================================================
