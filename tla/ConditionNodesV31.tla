------------------------- MODULE ConditionNodesV31 -------------------------
(***************************************************************************)
(* Conditions of Rule Schema 3.1.0 (domain/rules/validation_v31.py), node  *)
(* by node: the interpreter is written anew there, with runtime parameters *)
(* in place of `today`, calendar days of Asia/Shanghai in place of         *)
(* instants, and allMembers, which asks a condition of every member of a   *)
(* collection.  A context is [facts, runtime, members], each a function:   *)
(* members maps a member's key to the facts known about that member.  What *)
(* the parts of a node come to is a parameter; module ConditionsV31 closes *)
(* the recursion.                                                          *)
(***************************************************************************)
EXTENDS RuleValues, FiniteSets, SequencesExt

CONSTANTS NodesOf(_),              \* a node and everything below it
          InferredTypeOf(_, _, _), \* the type inferred for an expression
          ValueOf(_, _, _, _),     \* the value of an expression
          ResultOf(_, _, _, _)     \* what a condition evaluates to

Children(node) == IF "children" \in DOMAIN node THEN node.children ELSE <<>>
Has(node, field) == field \in DOMAIN node
Optional(node, field) == IF Has(node, field) THEN <<node[field]>> ELSE <<>>

\* The parts of an allMembers node that hold conditions count as its children.
Below(node) == Children(node) \o Optional(node, "alreadySatisfied")
                              \o Optional(node, "memberPredicate")

\* What the expressions of a condition refer to by facts, or by parameters.
Sides(node) == UNION {ToSet(Optional(n, "left") \o Optional(n, "right")) : n \in NodesOf(node)}
Leaves(node, kind) ==
    LET leaves == {n \in UNION {NodesOf(e) : e \in Sides(node)} : n.kind = kind}
    IN  {n.code : n \in leaves}

ParameterRefs(node) == Leaves(node, "parameter")
ConditionRefs(node) == Leaves(node, "fact")
    \cup {n.collection : n \in {m \in NodesOf(node) : m.kind = "allMembers"}}

\* ExpressionNodeV31.validate_shape and ConditionNodeV31.validate_shape: a node has the
\* fields of its kind and no others.
ExpressionShaped(e) ==
    LET fields == DOMAIN e \ {"kind"}
    IN  CASE e.kind \in {"fact", "parameter"} -> fields = {"code"}
          [] e.kind = "literal" -> fields = {"value"} /\ Known(e.value)
          [] e.kind \in {"add", "multiply", "coalesce"} -> fields = {"children"} /\ Len(e.children) >= 2
          [] e.kind \in {"subtract", "divide"} -> fields = {"children"} /\ Len(e.children) = 2
          [] e.kind = "dateAdd" -> fields = {"children", "unit"} /\ Len(e.children) = 2

ConditionShaped(node) ==
    LET fields == DOMAIN node \ {"id", "kind", "enabled"}
        sides  == IF node.operator \in Unary THEN {"left"} ELSE {"left", "right"}
        asked  == {"collection", "emptyCollection", "missingMember", "memberPredicate"}
    IN  CASE node.kind \in {"all", "any"} -> fields = {"children"} /\ node.children # <<>>
          [] node.kind = "not"        -> fields = {"children"} /\ Len(node.children) = 1
          [] node.kind = "compare"    -> fields = sides \cup {"operator", "nullPolicy"}
          [] node.kind = "allMembers" -> fields \ {"alreadySatisfied"} = asked

Shaped(condition) ==
    /\ \A node \in NodesOf(condition) : ConditionShaped(node)
    /\ \A side \in Sides(condition) : \A e \in NodesOf(side) : ExpressionShaped(e)

-----------------------------------------------------------------------------
\* A text of ten characters with a dash in the fifth place passes for a date, whatever it
\* says; an ISO instant is a string.
LiteralType(v) ==
    CASE Kind(v) = "bool"    -> "boolean"
      [] Kind(v) = "number"  -> IF v[3] = 1 THEN "integer" ELSE "number"
      [] Kind(v) = "list"    -> "list"
      [] Kind(v) = "isoDate" -> "date"
      [] OTHER               -> "string"

Compatible(left, right) ==
    \/ left = right
    \/ {left, right} \subseteq NumericTypes
    \/ left = "enum" /\ right \in {"string", "integer", "number"}
    \/ {left, right} \subseteq TemporalTypes

Arithmetic == {"add", "subtract", "multiply", "divide"}

\* The type of an expression, given those of its children.
Typed(e, types, facts, parameters) ==
    LET Declared(table) == IF e.code \in DOMAIN table THEN table[e.code].type ELSE "unknown"
    IN  CASE e.kind = "fact"      -> Declared(facts)
          [] e.kind = "parameter" -> Declared(parameters)
          [] e.kind = "literal"   -> LiteralType(e.value)
          [] e.kind \in {"coalesce", "dateAdd"} -> types[1]
          [] e.kind \in Arithmetic ->
               IF ~(ToSet(types) \subseteq NumericTypes) THEN "unknown"
               ELSE IF "money" \in ToSet(types) THEN "money" ELSE "number"

\* _infer_expression_type adds an issue for this node or for one below it.
IllTyped(e, facts, parameters) ==
    \E n \in NodesOf(e) :
        \/ n.kind = "parameter" /\ n.code \notin DOMAIN parameters
        \/ n.kind \in Arithmetic
           /\ \E i \in DOMAIN n.children : InferredTypeOf(n.children[i], facts, parameters) \notin NumericTypes

\* The checks of one comparison; an ordering asks for no more than two ordered types.
TypeIssue(node, facts, parameters) ==
    LET T(e) == InferredTypeOf(e, facts, parameters)
        Fit(c) == CASE c.operator \in Membership -> T(c.right) = "list"
                    [] c.operator \in Ordering   -> {T(c.left), T(c.right)} \subseteq OrderedTypes
                    [] c.operator \in Equality   -> Compatible(T(c.left), T(c.right))
                    [] OTHER                     -> TRUE
    IN  \E c \in {m \in NodesOf(node) : m.kind = "compare"} :
            \/ IllTyped(c.left, facts, parameters)
            \/ Has(c, "right") /\ (IllTyped(c.right, facts, parameters) \/ ~Fit(c))

\* _matches_data_type: for a date any text will do.
MatchesType(v, type) ==
    CASE type = "boolean"  -> Kind(v) = "bool"
      [] type = "integer"  -> Kind(v) = "number" /\ v[3] = 1
      [] type \in {"number", "money"} -> Kind(v) = "number"
      [] type \in {"string", "date"}  -> IsString(v)
      [] type = "list"     -> Kind(v) = "list"
      [] type = "enum"     -> IsString(v) \/ Numeric(v)
      [] type = "datetime" -> Kind(v) = "isoInstant"
      [] OTHER             -> TRUE

-----------------------------------------------------------------------------
UtcOffset == 480
\* to_business_date: the calendar day in Asia/Shanghai.
BusinessDate(v) ==
    CASE Kind(v) \in {"date", "isoDate"}       -> Date(v[2])
      [] Kind(v) \in {"instant", "isoInstant"} -> Date((v[2] + UtcOffset) \div DayLength)
      [] OTHER -> Missing

Lookup(code, table, declared) ==
    LET temporal == code \in DOMAIN declared /\ declared[code].type \in TemporalTypes
    IN  IF code \notin DOMAIN table THEN Missing
        ELSE IF temporal THEN BusinessDate(table[code]) ELSE table[code]

FirstKnown(values) ==
    LET known == SelectSeq(values, Known) IN IF known = <<>> THEN Missing ELSE Head(known)

\* The sum and the product of a sequence of numbers, from the left.
Total(n) ==
    LET upTo[i \in 0 .. Len(n)] == IF i = 0 THEN Whole(0) ELSE Plus(upTo[i - 1], n[i])
    IN  upTo[Len(n)]
Product(n) ==
    LET upTo[i \in 0 .. Len(n)] == IF i = 0 THEN Whole(1) ELSE Times(upTo[i - 1], n[i])
    IN  upTo[Len(n)]

Calculate(kind, values) ==
    LET n == [i \in DOMAIN values |-> AsDecimal(values[i])]
    IN  IF \E i \in DOMAIN n : n[i] = Missing THEN Missing
        ELSE CASE kind = "add"      -> Total(n)
               [] kind = "multiply" -> Product(n)
               [] kind = "subtract" -> Minus(n[1], n[2])
               [] kind = "divide"   -> IF n[2][2] = 0 THEN Missing ELSE Over(n[1], n[2])

AddDays(day, amount) ==
    IF Missing \in {day, amount} THEN Missing ELSE Date(day[2] + Truncate(amount))
\* The value of an expression with children, given theirs.
Combined(e, values) ==
    CASE e.kind = "coalesce" -> FirstKnown(values)
      [] e.kind = "dateAdd"  -> IF e.unit # "day" THEN Missing
                                ELSE AddDays(BusinessDate(values[1]), AsDecimal(values[2]))
      [] OTHER               -> Calculate(e.kind, values)

\* _evaluate_expression.
Valued(e, context, facts, parameters) ==
    CASE e.kind = "literal"   -> e.value
      [] e.kind = "parameter" -> Lookup(e.code, context.runtime, parameters)
      [] e.kind = "fact"      -> Lookup(e.code, context.facts, facts)
      [] OTHER -> Combined(e, [i \in DOMAIN e.children |->
                                  ValueOf(e.children[i], context, facts, parameters)])

\* The last branch of the chain of operators is <=, and contains and not_contains reach it.
Ordered(operator, a, b) ==
    LET holds == CASE operator = "gt"  -> PyLess(b, a)
                   [] operator = "gte" -> PyLessEqual(b, a)
                   [] operator = "lt"  -> PyLess(a, b)
                   [] OTHER            -> PyLessEqual(a, b)
    IN  IF ~Orderable(a, b) THEN "indeterminate" ELSE IF holds THEN "pass" ELSE "fail"
OrderResult(operator, left, right) ==
    IF Missing \in {AsDecimal(left), AsDecimal(right)} THEN Ordered(operator, left, right)
    ELSE Ordered(operator, AsDecimal(left), AsDecimal(right))

Result(operator, left, right) ==
    LET Holds(p) == IF p THEN "pass" ELSE "fail"
    IN  CASE operator = "eq" -> Holds(PyEqual(left, right))
          [] operator = "ne" -> Holds(~PyEqual(left, right))
          [] operator = "in" -> Holds(Kind(right) = "list" /\ PyIn(left, right))
          [] operator = "not_in" -> Holds(Kind(right) = "list" /\ ~PyIn(left, right))
          [] OTHER -> OrderResult(operator, left, right)

\* The null and blank operators look at the left side alone: MISSING is neither.
UnaryResult(operator, left) ==
    LET blank == IF operator \in {"is_null", "is_not_null"} THEN {Null} ELSE {Null, Blank}
        asked == operator \in {"is_null", "is_blank"}
    IN  IF (left \in blank) = asked THEN "pass" ELSE "fail"

Compared(node, left, right) ==
    IF Known(left) /\ Known(right) THEN Result(node.operator, left, right)
    ELSE NullResult(node.nullPolicy)
Compare(node, context, facts, parameters) ==
    IF node.operator \in Unary
    THEN UnaryResult(node.operator, ValueOf(node.left, context, facts, parameters))
    ELSE Compared(node, ValueOf(node.left, context, facts, parameters),
                        ValueOf(node.right, context, facts, parameters))

-----------------------------------------------------------------------------
\* str(item): 5 and "5" name the same member.
Key(item) == IF Kind(item) = "number" /\ item[3] = 1 THEN Numeral(item[2]) ELSE item

\* _unique_preserve_order: every member is asked once; in a conjunction their order does
\* not tell.
KeysIn(items) == {Key(item) : item \in ToSet(items)}

\* Mutant: a member of which nothing is known does not count.
IgnoresUnknownMembers(node, known, already, predicate) ==
    IF ~known THEN "pass" ELSE IF already # "fail" THEN already ELSE predicate
\* What one member adds to the result, given what is asked of it.
MemberResult(node, known, already, predicate) ==
    CASE ~known -> IF node.missingMember = "fail" THEN "fail" ELSE "indeterminate"
      [] known /\ already # "fail" -> already
      [] OTHER  -> predicate

\* all, any and not, given the results of the children.
Connected(kind, results) ==
    CASE kind = "not" -> Negate(results[1])
      [] kind = "all" -> Conjunction(results)
      [] kind = "any" -> Disjunction(results)

\* _evaluate_all_members.
ResultOfMembers(node, context, facts, parameters, keys) ==
    LET About(key) == [context EXCEPT !.facts = context.members[key]]
        Asked(field, key) == ResultOf(node[field], About(key), facts, parameters)
        Member(key) ==
            MemberResult(node, key \in DOMAIN context.members,
                         IF Has(node, "alreadySatisfied") THEN Asked("alreadySatisfied", key) ELSE "fail",
                         Asked("memberPredicate", key))
    IN  IF keys = {} THEN node.emptyCollection
        ELSE Conjunction([key \in keys |-> Member(key)])
AllMembers(node, context, facts, parameters) ==
    LET raw == Lookup(node.collection, context.facts, <<>>)
    IN  IF Kind(raw) # "list" THEN "indeterminate"
        ELSE ResultOfMembers(node, context, facts, parameters, KeysIn(raw[2]))

\* evaluate_condition_v31.
Judged(node, context, facts, parameters) ==
    CASE ~node.enabled -> "pass"
      [] node.enabled /\ node.kind = "compare"    -> Compare(node, context, facts, parameters)
      [] node.enabled /\ node.kind = "allMembers" -> AllMembers(node, context, facts, parameters)
      [] OTHER -> Connected(node.kind, [i \in DOMAIN node.children |->
                                           ResultOf(node.children[i], context, facts, parameters)])
=============================================================================
