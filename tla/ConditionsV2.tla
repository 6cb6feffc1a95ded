---------------------------- MODULE ConditionsV2 ----------------------------
(***************************************************************************)
(* What recurs over the trees of conditions and expressions of Rule Schema *)
(* 2.0.0 (domain/rules/validation_v2.py): their nodes, the types that are  *)
(* inferred for them, and their three-valued evaluation; given is a        *)
(* function from the codes whose values are known.                         *)
(***************************************************************************)
EXTENDS ConditionShapesV2

\* The node and everything below it, and how many nodes that is, repeated ones counted.
RECURSIVE Nodes(_)
Nodes(node) == {node} \cup UNION {Nodes(child) : child \in ToSet(Children(node))}
RECURSIVE Size(_)
Size(node) == FoldLeft(LAMBDA n, child : n + Size(child), 1, Children(node))

RECURSIVE TypeOf(_, _)
TypeOf(e, facts) ==
    LET types == [i \in DOMAIN Children(e) |-> TypeOf(e.children[i], facts)]
    IN  CASE e.kind = "fact"    -> IF e.code \in DOMAIN facts THEN facts[e.code].type ELSE "unknown"
          [] e.kind = "literal" -> LiteralType(e.value)
          [] e.kind = "today"   -> "date"
          [] e.kind = "dateAdd" -> types[1]
          [] e.kind = "coalesce" ->
               IF \A t \in ToSet(types) : Compatible(types[1], t) THEN types[1] ELSE "unknown"
          [] e.kind \in Arithmetic ->
               IF ~(ToSet(types) \subseteq NumericTypes) THEN "unknown"
               ELSE IF "money" \in ToSet(types) THEN "money" ELSE "number"

\* infer_expression_type adds an issue for this node or for one below it.
RECURSIVE IllTyped(_, _)
IllTyped(e, facts) ==
    LET types == [i \in DOMAIN Children(e) |-> TypeOf(e.children[i], facts)]
    IN  \/ \E i \in DOMAIN Children(e) : IllTyped(e.children[i], facts)
        \/ e.kind \in Arithmetic /\ ~(ToSet(types) \subseteq NumericTypes)
        \/ e.kind = "coalesce" /\ \E t \in ToSet(types) : ~Compatible(types[1], t)
        \/ e.kind = "dateAdd" /\ \/ types[1] \notin TemporalTypes
                                 \/ types[1] = "date" /\ e.unit # "day"
                                 \/ types[2] # "integer"

-----------------------------------------------------------------------------
AsTemporal(v) ==
    CASE Kind(v) \in {"date", "instant"} -> v
      [] Kind(v) = "isoDate"    -> Date(v[2])
      [] Kind(v) = "isoInstant" -> Instant(v[2])
      [] OTHER -> Missing

Minutes(amount, unit) ==
    Truncate(amount) * (CASE unit = "day" -> DayLength [] unit = "hour" -> 60 [] OTHER -> 1)

\* date + timedelta counts the whole days of the timedelta only.
AddTime(temporal, minutes) ==
    IF Kind(temporal) = "date" THEN Date(temporal[2] + (minutes \div DayLength))
    ELSE Instant(temporal[2] + minutes)

\* Arithmetic over decimals: one operand that is none makes the whole MISSING.
Calculate(kind, values) ==
    LET n == [i \in DOMAIN values |-> AsDecimal(values[i])]
    IN  IF Missing \in ToSet(n) THEN Missing
        ELSE CASE kind = "add"      -> FoldLeft(Plus, Whole(0), n)
               [] kind = "multiply" -> FoldLeft(Times, Whole(1), n)
               [] kind = "subtract" -> Minus(n[1], n[2])
               [] kind = "divide"   -> IF n[2][2] = 0 THEN Missing ELSE Over(n[1], n[2])

FirstKnown(values) ==
    LET known == SelectSeq(values, Known) IN IF known = <<>> THEN Missing ELSE Head(known)

\* _evaluate_expression: a fact that is not given is derived, unless it is being derived.
RECURSIVE Value(_, _, _, _, _)
Value(e, given, facts, resolving, today) ==
    LET values == [i \in DOMAIN Children(e) |-> Value(e.children[i], given, facts, resolving, today)]
    IN  CASE e.kind = "literal" ->
               IF AsTemporal(e.value) # Missing THEN AsTemporal(e.value) ELSE e.value
          [] e.kind = "today" -> today
          [] e.kind = "fact" /\ e.code \in DOMAIN given ->
               IF e.code \in DOMAIN facts /\ facts[e.code].type \in TemporalTypes
               THEN AsTemporal(given[e.code]) ELSE given[e.code]
          [] e.kind = "fact" /\ e.code \notin DOMAIN given ->
               IF e.code \notin DOMAIN facts \/ e.code \in resolving THEN Missing
               ELSE IF ~IsDerived(facts[e.code]) THEN Missing
               ELSE Value(facts[e.code].derivation, given, facts, resolving \cup {e.code}, today)
          [] e.kind = "coalesce" -> FirstKnown(values)
          [] e.kind = "dateAdd" ->
               IF Missing \in {AsTemporal(values[1]), AsDecimal(values[2])} THEN Missing
               ELSE AddTime(AsTemporal(values[1]), Minutes(AsDecimal(values[2]), e.unit))
          [] e.kind \in Arithmetic -> Calculate(e.kind, values)

\* The blank operators look at the left side only: MISSING is neither None nor "".
UnaryResult(operator, left) ==
    LET holds == CASE operator = "is_null"      -> left = Null
                   [] operator = "is_not_null"  -> left # Null
                   [] operator = "is_blank"     -> left \in {Null, Blank}
                   [] operator = "is_not_blank" -> left \notin {Null, Blank}
    IN  IF holds THEN "pass" ELSE "fail"

\* Python's `in`: membership of a list, part of a text; other operands raise TypeError.
Contained(right, left) ==
    CASE Kind(left) = "list" -> IF PyIn(right, left) THEN "pass" ELSE "fail"
      [] IsString(left) /\ IsString(right) -> IF right \in {left, Blank} THEN "pass" ELSE "fail"
      [] OTHER -> "indeterminate"

\* < and its kin, on decimals when both sides can be read as decimals.
OrderResult(operator, left, right) ==
    LET both == Missing \notin {AsDecimal(left), AsDecimal(right)}
        a == IF both THEN AsDecimal(left) ELSE left
        b == IF both THEN AsDecimal(right) ELSE right
        holds == CASE operator = "gt"  -> PyLess(b, a)
                   [] operator = "gte" -> PyLessEqual(b, a)
                   [] operator = "lt"  -> PyLess(a, b)
                   [] operator = "lte" -> PyLessEqual(a, b)
    IN  IF ~Orderable(a, b) THEN "indeterminate" ELSE IF holds THEN "pass" ELSE "fail"

BinaryResult(operator, left, right) ==
    LET Holds(p) == IF p THEN "pass" ELSE "fail"
    IN  CASE operator = "eq" -> Holds(PyEqual(left, right))
          [] operator = "ne" -> Holds(~PyEqual(left, right))
          [] operator = "in" -> Holds(Kind(right) = "list" /\ PyIn(left, right))
          [] operator = "not_in" -> Holds(Kind(right) = "list" /\ ~PyIn(left, right))
          [] operator = "contains" -> Contained(right, left)
          [] operator = "not_contains" -> Negate(Contained(right, left))
          [] operator \in Ordering -> OrderResult(operator, left, right)

Compare(node, given, facts, today) ==
    LET left  == Value(node.left, given, facts, {}, today)
        right == Value(node.right, given, facts, {}, today)
    IN  IF node.operator \in Unary THEN UnaryResult(node.operator, left)
        ELSE IF ~Known(left) THEN NullResult(node.nullPolicy)
        ELSE IF ~Known(right) THEN NullResult(node.nullPolicy)
        ELSE BinaryResult(node.operator, left, right)

\* evaluate_condition.
RECURSIVE Holds(_, _, _, _)
Holds(node, given, facts, today) ==
    LET results == [i \in DOMAIN Children(node) |-> Holds(node.children[i], given, facts, today)]
    IN  CASE ~node.enabled          -> "pass"
          [] node.enabled /\ node.kind = "compare" -> Compare(node, given, facts, today)
          [] node.enabled /\ node.kind = "not"     -> Negate(results[1])
          [] node.enabled /\ node.kind = "all"     -> Conjunction(results)
          [] node.enabled /\ node.kind = "any"     -> Disjunction(results)
=============================================================================
