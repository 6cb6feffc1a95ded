------------------------ MODULE PlanDecision_proofs ------------------------
(***************************************************************************)
(* Theorems about module PlanDecision.                                     *)
(*                                                                         *)
(* The verdict is always that of what is known; no amount, and no member   *)
(* looked up, changes an outcome that has been reached; no report is       *)
(* released that is not paid for, and none of a merge group without the    *)
(* group.  Each rests on what single nodes of the language come to, and    *)
(* then on what the ten rules of the plan, its stages and the decision     *)
(* come to in one world, or in a world and a later one.                    *)
(***************************************************************************)
EXTENDS PlanDecision, TLAPS, WellFoundedInduction

\* The value of an expression and the result of a condition are what the interpreter computes
\* at each well-formed node from the nodes below it: module ConditionsV31 defines them so, by
\* recursion, and every other hypothesis about them would follow from this one.
Interpretation ==
    /\ \A e, context, facts, parameters : V31!ExpressionShaped(e) =>
           ValueOf(e, context, facts, parameters) = V31!Valued(e, context, facts, parameters)
    /\ \A node, context, facts, parameters : V31!ConditionShaped(node) =>
           ResultOf(node, context, facts, parameters) = V31!Judged(node, context, facts, parameters)

\* A world is what is known of a task: [context, facts, parameters].
Says(node, w) == ResultOf(node, w.context, w.facts, w.parameters)
Reads(e, w)   == ValueOf(e, w.context, w.facts, w.parameters)
Raw(code, w)  == IF code \in DOMAIN w.context.facts THEN w.context.facts[code] ELSE Missing
AsDeclared(code, value, w) ==
    IF code \in DOMAIN w.facts /\ w.facts[code].type \in TemporalTypes
    THEN V31!BusinessDate(value) ELSE value

-----------------------------------------------------------------------------
(* The nodes that the plan is made of                                      *)

LEMMA SameValues ==
    /\ V31!Missing = Missing /\ V31!Null = Null /\ V31!Blank = Blank
    /\ V31!Unary = Unary /\ V31!TemporalTypes = TemporalTypes
    /\ \A v : V31!Kind(v) = Kind(v) /\ V31!Known(v) = Known(v) /\ V31!AsDecimal(v) = AsDecimal(v)
    /\ \A p, q : V31!Number(p, q) = Number(p, q)
    /\ \A policy : V31!NullResult(policy) = NullResult(policy)
  BY DEF V31!Missing, Missing, V31!Null, Null, V31!Blank, Blank, V31!Text, Text, V31!Unary, Unary,
         V31!TemporalTypes, TemporalTypes, V31!Kind, Kind, V31!Known, Known, V31!AsDecimal, AsDecimal,
         V31!Number, Number, V31!NullResult, NullResult

LEMMA SameConnectives ==
    /\ \A r : V31!Negate(r) = Negate(r)
    /\ \A results : V31!Conjunction(results) = Conjunction(results)
    /\ \A results : V31!Disjunction(results) = Disjunction(results)
  BY DEF V31!Negate, Negate, V31!Conjunction, Conjunction, V31!Disjunction, Disjunction

LEMMA SameComparisons ==
    /\ \A a, b : V31!PyEqual(a, b) = PyEqual(a, b) /\ V31!PyIn(a, b) = PyIn(a, b)
    /\ \A a, b : V31!PyLess(a, b) = PyLess(a, b) /\ V31!PyLessEqual(a, b) = PyLessEqual(a, b)
    /\ \A a, b : V31!Orderable(a, b) = Orderable(a, b)
  BY DEF V31!PyEqual, PyEqual, V31!PyIn, PyIn, V31!PyLess, PyLess, V31!PyLessEqual, PyLessEqual,
         V31!Orderable, Orderable, V31!Numeric, Numeric, V31!Kind, Kind, V31!Strings, Strings

LEMMA DateOfMissing ==
    V31!BusinessDate(Missing) = Missing
  BY DEF V31!BusinessDate, V31!Missing, Missing, V31!Kind

LEMMA FactReads ==
    ASSUME Interpretation, NEW code, NEW w
    PROVE  Reads(Fact(code), w) = AsDeclared(code, Raw(code, w), w)
  <1>1. Fact(code).kind = "fact" /\ DOMAIN Fact(code) = {"kind", "code"} /\ Fact(code).code = code
    BY DEF Fact
  <1>2. V31!ExpressionShaped(Fact(code))
    BY <1>1 DEF V31!ExpressionShaped
  <1>3. Reads(Fact(code), w) = V31!Valued(Fact(code), w.context, w.facts, w.parameters)
    BY <1>2 DEF Interpretation, Reads
  <1>4. @ = V31!Lookup(code, w.context.facts, w.facts)
    BY <1>1 DEF V31!Valued
  <1> QED
    BY <1>3, <1>4, SameValues, DateOfMissing DEF V31!Lookup, AsDeclared, Raw

LEMMA LitReads ==
    ASSUME Interpretation, NEW value, Known(value), NEW w
    PROVE  Reads(Lit(value), w) = value
  <1>1. Lit(value).kind = "literal" /\ DOMAIN Lit(value) = {"kind", "value"} /\ Lit(value).value = value
    BY DEF Lit
  <1>2. V31!ExpressionShaped(Lit(value))
    BY <1>1, SameValues DEF V31!ExpressionShaped
  <1> QED
    BY <1>1, <1>2 DEF Interpretation, Reads, V31!Valued

LEMMA ParamReads ==
    ASSUME Interpretation, NEW name, NEW w
    PROVE  Reads(Param(name), w) = V31!Lookup(name, w.context.runtime, w.parameters)
  <1>1. Param(name).kind = "parameter" /\ DOMAIN Param(name) = {"kind", "code"} /\ Param(name).code = name
    BY DEF Param
  <1>2. V31!ExpressionShaped(Param(name))
    BY <1>1 DEF V31!ExpressionShaped
  <1>3. Reads(Param(name), w) = V31!Valued(Param(name), w.context, w.facts, w.parameters)
    BY <1>2 DEF Interpretation, Reads
  <1> QED
    BY <1>1, <1>3 DEF V31!Valued

\* The values of several expressions.
Values(es, w) == [i \in DOMAIN es |-> Reads(es[i], w)]

LEMMA OpReads ==
    ASSUME Interpretation, NEW kind \in {"add", "multiply", "coalesce", "subtract"}, NEW es,
           Len(es) = 2 \/ (Len(es) = 3 /\ kind # "subtract"), NEW w
    PROVE  Reads(Op(kind, es), w) = V31!Combined(Op(kind, es), Values(es, w))
  <1> DEFINE e == Op(kind, es)
  <1>1. e.kind = kind /\ DOMAIN e = {"kind", "children"} /\ e.children = es
    BY DEF Op
  <1> HIDE DEF e
  <1>2. V31!ExpressionShaped(e)
    <2>1. DOMAIN e \ {"kind"} = {"children"} /\ Len(e.children) >= 2
      BY <1>1
    <2>2. CASE kind = "subtract"
      BY <1>1, <2>1, <2>2 DEF V31!ExpressionShaped
    <2>3. CASE kind \in {"add", "multiply", "coalesce"}
      BY <1>1, <2>1, <2>3 DEF V31!ExpressionShaped
    <2> QED
      BY <2>2, <2>3
  <1>3. Reads(e, w) = V31!Valued(e, w.context, w.facts, w.parameters)
    BY <1>2 DEF Interpretation, Reads
  <1>4. @ = V31!Combined(e, Values(es, w))
    BY <1>1 DEF V31!Valued, Reads, Values
  <1> QED
    BY <1>3, <1>4 DEF e

LEMMA DateAddReads ==
    ASSUME Interpretation, NEW base, NEW days \in Int, NEW w
    PROVE  Reads(DateAdd(base, days), w) =
             V31!AddDays(V31!BusinessDate(Reads(base, w)), Whole(days))
  <1> DEFINE e == DateAdd(base, days)
             d == Lit(Whole(days))
  <1>1. /\ e.kind = "dateAdd" /\ DOMAIN e = {"kind", "unit", "children"} /\ e.children = <<base, d>>
        /\ e.unit = "day" /\ Len(e.children) = 2 /\ DOMAIN e.children = {1, 2}
    BY DEF DateAdd
  <1>2. Known(Whole(days)) /\ AsDecimal(Whole(days)) = Whole(days)
    BY DEF Known, Kind, Whole, Number, AsDecimal
  <1>3. Reads(d, w) = Whole(days)
    BY <1>2, LitReads
  <1> HIDE DEF e, d
  <1>4. V31!ExpressionShaped(e)
    <2>1. DOMAIN e \ {"kind"} = {"children", "unit"}
      BY <1>1
    <2> QED
      BY <1>1, <2>1 DEF V31!ExpressionShaped
  <1>5. Reads(e, w) = V31!Valued(e, w.context, w.facts, w.parameters)
    BY <1>4 DEF Interpretation, Reads
  <1>6. @ = V31!Combined(e, [i \in {1, 2} |-> Reads(<<base, d>>[i], w)])
    BY <1>1 DEF V31!Valued, Reads
  <1>7. [i \in {1, 2} |-> Reads(<<base, d>>[i], w)] = <<Reads(base, w), Whole(days)>>
    BY <1>3
  <1>8. V31!Combined(e, <<Reads(base, w), Whole(days)>>) =
          V31!AddDays(V31!BusinessDate(Reads(base, w)), Whole(days))
    BY <1>1, <1>2, SameValues DEF V31!Combined
  <1> QED
    BY <1>5, <1>6, <1>7, <1>8 DEF e

LEMMA AllOfSays ==
    ASSUME Interpretation, NEW id, NEW children, children # <<>>, NEW w
    PROVE  Says(AllOf(id, children), w) = Conjunction([i \in DOMAIN children |-> Says(children[i], w)])
  <1> DEFINE n == AllOf(id, children)
  <1>1. /\ n.kind = "all" /\ DOMAIN n = {"id", "kind", "enabled", "children"}
        /\ n.children = children /\ n.enabled
    BY DEF AllOf, Node
  <1> HIDE DEF n
  <1>2. V31!ConditionShaped(n)
    BY <1>1 DEF V31!ConditionShaped
  <1>3. Says(n, w) = V31!Judged(n, w.context, w.facts, w.parameters)
    BY <1>2 DEF Interpretation, Says
  <1>4. @ = V31!Connected("all", [i \in DOMAIN children |-> Says(children[i], w)])
    BY <1>1 DEF V31!Judged, Says
  <1> QED
    BY <1>3, <1>4, SameConnectives DEF V31!Connected, n

LEMMA AnyOfSays ==
    ASSUME Interpretation, NEW id, NEW children, children # <<>>, NEW w
    PROVE  Says(AnyOf(id, children), w) = Disjunction([i \in DOMAIN children |-> Says(children[i], w)])
  <1> DEFINE n == AnyOf(id, children)
  <1>1. /\ n.kind = "any" /\ DOMAIN n = {"id", "kind", "enabled", "children"}
        /\ n.children = children /\ n.enabled
    BY DEF AnyOf, Node
  <1> HIDE DEF n
  <1>2. V31!ConditionShaped(n)
    BY <1>1 DEF V31!ConditionShaped
  <1>3. Says(n, w) = V31!Judged(n, w.context, w.facts, w.parameters)
    BY <1>2 DEF Interpretation, Says
  <1>4. @ = V31!Connected("any", [i \in DOMAIN children |-> Says(children[i], w)])
    BY <1>1 DEF V31!Judged, Says
  <1> QED
    BY <1>3, <1>4, SameConnectives DEF V31!Connected, n

LEMMA NotOfSays ==
    ASSUME Interpretation, NEW id, NEW child, NEW w
    PROVE  Says(NotOf(id, child), w) = Negate(Says(child, w))
  <1> DEFINE n == NotOf(id, child)
  <1>1. /\ n.kind = "not" /\ DOMAIN n = {"id", "kind", "enabled", "children"}
        /\ n.children = <<child>> /\ n.enabled
    BY DEF NotOf, Node
  <1> HIDE DEF n
  <1>2. Len(n.children) = 1 /\ DOMAIN n.children = {1} /\ n.children[1] = child
    BY <1>1
  <1>3. V31!ConditionShaped(n)
    BY <1>1, <1>2 DEF V31!ConditionShaped
  <1>4. Says(n, w) = V31!Judged(n, w.context, w.facts, w.parameters)
    BY <1>3 DEF Interpretation, Says
  <1>5. @ = V31!Connected("not", [i \in {1} |-> Says(child, w)])
    BY <1>1, <1>2 DEF V31!Judged, Says
  <1> QED
    BY <1>4, <1>5, SameConnectives DEF V31!Connected, n

\* What a comparison of two sides comes to.
CompareSides(operator, policy, left, right) ==
    IF Known(left) /\ Known(right) THEN V31!Result(operator, left, right) ELSE NullResult(policy)

LEMMA AsksSays ==
    ASSUME Interpretation, NEW id, NEW left, NEW operator, operator \notin Unary, NEW right, NEW policy, NEW w
    PROVE  Says(Asks(id, left, operator, right, policy), w) =
             CompareSides(operator, policy, Reads(left, w), Reads(right, w))
  <1> DEFINE n == Asks(id, left, operator, right, policy)
  <1>1. /\ n.kind = "compare" /\ DOMAIN n = {"id", "kind", "enabled", "left", "operator", "right", "nullPolicy"}
        /\ n.left = left /\ n.right = right /\ n.operator = operator /\ n.nullPolicy = policy /\ n.enabled
    BY DEF Asks
  <1> HIDE DEF n
  <1>2. V31!ConditionShaped(n)
    BY <1>1, SameValues DEF V31!ConditionShaped
  <1>3. Says(n, w) = V31!Judged(n, w.context, w.facts, w.parameters)
    BY <1>2 DEF Interpretation, Says
  <1>4. @ = V31!Compare(n, w.context, w.facts, w.parameters)
    BY <1>1 DEF V31!Judged
  <1>5. @ = V31!Compared(n, Reads(left, w), Reads(right, w))
    BY <1>1, SameValues DEF V31!Compare, Reads
  <1> QED
    BY <1>1, <1>3, <1>4, <1>5, SameValues DEF V31!Compared, CompareSides, n

LEMMA IsNullSays ==
    ASSUME Interpretation, NEW id, NEW code, NEW w
    PROVE  Says(IsNull(id, code), w) = IF Reads(Fact(code), w) = Null THEN "pass" ELSE "fail"
  <1> DEFINE n == IsNull(id, code)
  <1>1. /\ n.kind = "compare" /\ DOMAIN n = {"id", "kind", "enabled", "left", "operator", "nullPolicy"}
        /\ n.left = Fact(code) /\ n.operator = "is_null" /\ n.enabled
    BY DEF IsNull
  <1> HIDE DEF n
  <1>2. V31!ConditionShaped(n)
    BY <1>1, SameValues DEF V31!ConditionShaped, Unary
  <1>3. Says(n, w) = V31!Judged(n, w.context, w.facts, w.parameters)
    BY <1>2 DEF Interpretation, Says
  <1>4. @ = V31!Compare(n, w.context, w.facts, w.parameters)
    BY <1>1 DEF V31!Judged
  <1>5. @ = V31!UnaryResult("is_null", Reads(Fact(code), w))
    BY <1>1, SameValues DEF V31!Compare, Reads, Unary
  <1> QED
    BY <1>3, <1>4, <1>5, SameValues DEF V31!UnaryResult, n

\* The world as a member sees it, and what a collection asks of its members.
Within(w, key) == [context |-> [w.context EXCEPT !.facts = w.context.members[key]],
                   facts |-> w.facts, parameters |-> w.parameters]
Members(code, w) == V31!KeysIn(Raw(code, w)[2])
Judgement(w, key, already, predicate) ==
    CASE key \notin DOMAIN w.context.members -> "indeterminate"
      [] key \in DOMAIN w.context.members /\ already # "fail" -> already
      [] OTHER -> predicate

LEMMA RawLookup ==
    ASSUME NEW code, NEW w
    PROVE  V31!Lookup(code, w.context.facts, <<>>) = Raw(code, w)
  <1>1. code \notin DOMAIN <<>>
    OBVIOUS
  <1> QED
    BY <1>1, SameValues DEF V31!Lookup, Raw

LEMMA MembersSays ==
    ASSUME Interpretation, NEW id, NEW code, NEW empty, NEW predicate, NEW w
    PROVE  Says(AllMembersOf(id, code, empty, predicate), w) =
             IF Kind(Raw(code, w)) # "list" THEN "indeterminate"
             ELSE IF Members(code, w) = {} THEN empty
             ELSE Conjunction([key \in Members(code, w) |->
                                 Judgement(w, key, "fail", Says(predicate, Within(w, key)))])
  <1> DEFINE n == AllMembersOf(id, code, empty, predicate)
             judged(key) == Judgement(w, key, "fail", Says(predicate, Within(w, key)))
             keys == Members(code, w)
  <1>1. /\ n.kind = "allMembers" /\ n.enabled /\ n.collection = code /\ n.emptyCollection = empty
        /\ n.missingMember = "indeterminate" /\ n.memberPredicate = predicate
        /\ DOMAIN n = {"id", "kind", "enabled", "collection", "emptyCollection", "missingMember",
                       "memberPredicate"}
    BY DEF AllMembersOf
  <1> HIDE DEF n
  <1>2. V31!ConditionShaped(n)
    BY <1>1 DEF V31!ConditionShaped
  <1>3. Says(n, w) = V31!Judged(n, w.context, w.facts, w.parameters)
    BY <1>2 DEF Interpretation, Says
  <1>4. @ = V31!AllMembers(n, w.context, w.facts, w.parameters)
    BY <1>1 DEF V31!Judged
  <1>5. @ = IF Kind(Raw(code, w)) # "list" THEN "indeterminate"
            ELSE V31!ResultOfMembers(n, w.context, w.facts, w.parameters, keys)
    BY <1>1, RawLookup, SameValues DEF V31!AllMembers, Members
  <1>6. V31!ResultOfMembers(n, w.context, w.facts, w.parameters, keys) =
          IF keys = {} THEN empty ELSE Conjunction([key \in keys |-> judged(key)])
    <2>1. ~V31!Has(n, "alreadySatisfied")
      BY <1>1 DEF V31!Has
    <2>2. \A key : V31!MemberResult(n, key \in DOMAIN w.context.members, "fail",
                                    Says(predicate, Within(w, key))) = judged(key)
      BY <1>1 DEF V31!MemberResult, Judgement
    <2> HIDE DEF judged, keys
    <2> QED
      BY <1>1, <2>1, <2>2, SameConnectives DEF V31!ResultOfMembers, Says, Within
  <1> QED
    BY <1>3, <1>4, <1>5, <1>6 DEF n

LEMMA MembersOrSays ==
    ASSUME Interpretation, NEW id, NEW code, NEW empty, NEW predicate, NEW already, NEW w
    PROVE  Says(Overlay([alreadySatisfied |-> already], AllMembersOf(id, code, empty, predicate)), w) =
             IF Kind(Raw(code, w)) # "list" THEN "indeterminate"
             ELSE IF Members(code, w) = {} THEN empty
             ELSE Conjunction([key \in Members(code, w) |->
                                 Judgement(w, key, Says(already, Within(w, key)),
                                           Says(predicate, Within(w, key)))])
  <1> DEFINE n == Overlay([alreadySatisfied |-> already], AllMembersOf(id, code, empty, predicate))
             judged(key) == Judgement(w, key, Says(already, Within(w, key)),
                                      Says(predicate, Within(w, key)))
             keys == Members(code, w)
  <1>1. /\ n.kind = "allMembers" /\ n.enabled /\ n.collection = code /\ n.emptyCollection = empty
        /\ n.missingMember = "indeterminate" /\ n.memberPredicate = predicate
        /\ n.alreadySatisfied = already
        /\ DOMAIN n = {"id", "kind", "enabled", "collection", "emptyCollection", "missingMember",
                       "memberPredicate", "alreadySatisfied"}
    BY DEF AllMembersOf, Overlay
  <1> HIDE DEF n
  <1>2. V31!ConditionShaped(n)
    BY <1>1 DEF V31!ConditionShaped
  <1>3. Says(n, w) = V31!Judged(n, w.context, w.facts, w.parameters)
    BY <1>2 DEF Interpretation, Says
  <1>4. @ = V31!AllMembers(n, w.context, w.facts, w.parameters)
    BY <1>1 DEF V31!Judged
  <1>5. @ = IF Kind(Raw(code, w)) # "list" THEN "indeterminate"
            ELSE V31!ResultOfMembers(n, w.context, w.facts, w.parameters, keys)
    BY <1>1, RawLookup, SameValues DEF V31!AllMembers, Members
  <1>6. V31!ResultOfMembers(n, w.context, w.facts, w.parameters, keys) =
          IF keys = {} THEN empty ELSE Conjunction([key \in keys |-> judged(key)])
    <2>1. V31!Has(n, "alreadySatisfied")
      BY <1>1 DEF V31!Has
    <2>2. \A key : V31!MemberResult(n, key \in DOMAIN w.context.members, Says(already, Within(w, key)),
                                    Says(predicate, Within(w, key))) = judged(key)
      BY <1>1 DEF V31!MemberResult, Judgement
    <2> HIDE DEF judged, keys
    <2> QED
      BY <1>1, <2>1, <2>2, SameConnectives DEF V31!ResultOfMembers, Says, Within
  <1> QED
    BY <1>3, <1>4, <1>5, <1>6 DEF n

-----------------------------------------------------------------------------
(* A world in which more is known                                          *)

\* In the second world the second node comes to what the first comes to in the first one, or
\* the first was undecided there; an expression has the same value, or had none.
Follows(n, m, w, v) == Says(n, w) \in {"indeterminate", Says(m, v)}
Grows(e, f, w, v)   == Reads(e, w) \in {Missing, Reads(f, v)}
Agree(code, w, v)   == w.facts = v.facts /\ Raw(code, w) = Raw(code, v)

LEMMA ConjunctionGrows ==
    ASSUME NEW r, NEW s, DOMAIN r = DOMAIN s, \A i \in DOMAIN r : r[i] \in {"indeterminate", s[i]}
    PROVE  /\ Conjunction(r) \in {"indeterminate", Conjunction(s)}
           /\ Disjunction(r) \in {"indeterminate", Disjunction(s)}
  <1> DEFINE R == {r[i] : i \in DOMAIN r}
             S == {s[i] : i \in DOMAIN s}
  <1>1. \A x \in R : x = "indeterminate" \/ x \in S
    OBVIOUS
  <1>2. "indeterminate" \notin R => R = S
    OBVIOUS
  <1>3. /\ Conjunction(r) = IF "fail" \in R THEN "fail"
                            ELSE IF "indeterminate" \in R THEN "indeterminate" ELSE "pass"
        /\ Conjunction(s) = IF "fail" \in S THEN "fail"
                            ELSE IF "indeterminate" \in S THEN "indeterminate" ELSE "pass"
        /\ Disjunction(r) = IF "pass" \in R THEN "pass"
                            ELSE IF "indeterminate" \in R THEN "indeterminate" ELSE "fail"
        /\ Disjunction(s) = IF "pass" \in S THEN "pass"
                            ELSE IF "indeterminate" \in S THEN "indeterminate" ELSE "fail"
    BY DEF Conjunction, Disjunction
  <1> HIDE DEF R, S
  <1> QED
    BY <1>1, <1>2, <1>3

LEMMA AllOfGrows ==
    ASSUME Interpretation, NEW w, NEW v, NEW a, NEW b, NEW ns, NEW ms, ns # <<>>, ms # <<>>,
           DOMAIN ns = DOMAIN ms, \A i \in DOMAIN ns : Follows(ns[i], ms[i], w, v)
    PROVE  /\ Follows(AllOf(a, ns), AllOf(b, ms), w, v)
           /\ Follows(AnyOf(a, ns), AnyOf(b, ms), w, v)
  <1> DEFINE r == [i \in DOMAIN ns |-> Says(ns[i], w)]
             s == [i \in DOMAIN ms |-> Says(ms[i], v)]
  <1>1. DOMAIN r = DOMAIN s /\ \A i \in DOMAIN r : r[i] \in {"indeterminate", s[i]}
    BY DEF Follows
  <1> HIDE DEF r, s
  <1>2. /\ Conjunction(r) \in {"indeterminate", Conjunction(s)}
        /\ Disjunction(r) \in {"indeterminate", Disjunction(s)}
    BY <1>1, ConjunctionGrows
  <1>3. Says(AllOf(a, ns), w) = Conjunction(r) /\ Says(AllOf(b, ms), v) = Conjunction(s)
    BY AllOfSays DEF r, s
  <1>4. Says(AnyOf(a, ns), w) = Disjunction(r) /\ Says(AnyOf(b, ms), v) = Disjunction(s)
    BY AnyOfSays DEF r, s
  <1> QED
    BY <1>2, <1>3, <1>4 DEF Follows

\* The same for as many children as the conditions of the plan have.
LEMMA PairGrows ==
    ASSUME Interpretation, NEW w, NEW v, NEW a, NEW b,
           NEW n1, NEW n2,
           NEW m1, NEW m2,
           Follows(n1, m1, w, v), Follows(n2, m2, w, v)
    PROVE  /\ Follows(AllOf(a, <<n1, n2>>), AllOf(b, <<m1, m2>>), w, v)
           /\ Follows(AnyOf(a, <<n1, n2>>), AnyOf(b, <<m1, m2>>), w, v)
  <1> DEFINE ns == <<n1, n2>>
             ms == <<m1, m2>>
  <1>1. ns # <<>> /\ ms # <<>> /\ DOMAIN ns = DOMAIN ms /\ \A i \in DOMAIN ns : Follows(ns[i], ms[i], w, v)
    OBVIOUS
  <1> HIDE DEF ns, ms
  <1>2. Follows(AllOf(a, ns), AllOf(b, ms), w, v) /\ Follows(AnyOf(a, ns), AnyOf(b, ms), w, v)
    BY <1>1, AllOfGrows
  <1> QED
    BY <1>2 DEF ns, ms

LEMMA TripleGrows ==
    ASSUME Interpretation, NEW w, NEW v, NEW a, NEW b,
           NEW n1, NEW n2, NEW n3,
           NEW m1, NEW m2, NEW m3,
           Follows(n1, m1, w, v), Follows(n2, m2, w, v), Follows(n3, m3, w, v)
    PROVE  /\ Follows(AllOf(a, <<n1, n2, n3>>), AllOf(b, <<m1, m2, m3>>), w, v)
           /\ Follows(AnyOf(a, <<n1, n2, n3>>), AnyOf(b, <<m1, m2, m3>>), w, v)
  <1> DEFINE ns == <<n1, n2, n3>>
             ms == <<m1, m2, m3>>
  <1>1. ns # <<>> /\ ms # <<>> /\ DOMAIN ns = DOMAIN ms /\ \A i \in DOMAIN ns : Follows(ns[i], ms[i], w, v)
    OBVIOUS
  <1> HIDE DEF ns, ms
  <1>2. Follows(AllOf(a, ns), AllOf(b, ms), w, v) /\ Follows(AnyOf(a, ns), AnyOf(b, ms), w, v)
    BY <1>1, AllOfGrows
  <1> QED
    BY <1>2 DEF ns, ms

LEMMA FourGrow ==
    ASSUME Interpretation, NEW w, NEW v, NEW a, NEW b,
           NEW n1, NEW n2, NEW n3, NEW n4,
           NEW m1, NEW m2, NEW m3, NEW m4,
           Follows(n1, m1, w, v), Follows(n2, m2, w, v), Follows(n3, m3, w, v), Follows(n4, m4, w,
           v)
    PROVE  /\ Follows(AllOf(a, <<n1, n2, n3, n4>>), AllOf(b, <<m1, m2, m3, m4>>), w, v)
           /\ Follows(AnyOf(a, <<n1, n2, n3, n4>>), AnyOf(b, <<m1, m2, m3, m4>>), w, v)
  <1> DEFINE ns == <<n1, n2, n3, n4>>
             ms == <<m1, m2, m3, m4>>
  <1>1. ns # <<>> /\ ms # <<>> /\ DOMAIN ns = DOMAIN ms /\ \A i \in DOMAIN ns : Follows(ns[i], ms[i], w, v)
    OBVIOUS
  <1> HIDE DEF ns, ms
  <1>2. Follows(AllOf(a, ns), AllOf(b, ms), w, v) /\ Follows(AnyOf(a, ns), AnyOf(b, ms), w, v)
    BY <1>1, AllOfGrows
  <1> QED
    BY <1>2 DEF ns, ms

LEMMA FiveGrow ==
    ASSUME Interpretation, NEW w, NEW v, NEW a, NEW b,
           NEW n1, NEW n2, NEW n3, NEW n4, NEW n5,
           NEW m1, NEW m2, NEW m3, NEW m4, NEW m5,
           Follows(n1, m1, w, v), Follows(n2, m2, w, v), Follows(n3, m3, w, v), Follows(n4, m4, w,
           v), Follows(n5, m5, w, v)
    PROVE  /\ Follows(AllOf(a, <<n1, n2, n3, n4, n5>>), AllOf(b, <<m1, m2, m3, m4, m5>>), w, v)
           /\ Follows(AnyOf(a, <<n1, n2, n3, n4, n5>>), AnyOf(b, <<m1, m2, m3, m4, m5>>), w, v)
  <1> DEFINE ns == <<n1, n2, n3, n4, n5>>
             ms == <<m1, m2, m3, m4, m5>>
  <1>1. ns # <<>> /\ ms # <<>> /\ DOMAIN ns = DOMAIN ms /\ \A i \in DOMAIN ns : Follows(ns[i], ms[i], w, v)
    OBVIOUS
  <1> HIDE DEF ns, ms
  <1>2. Follows(AllOf(a, ns), AllOf(b, ms), w, v) /\ Follows(AnyOf(a, ns), AnyOf(b, ms), w, v)
    BY <1>1, AllOfGrows
  <1> QED
    BY <1>2 DEF ns, ms

LEMMA SixGrow ==
    ASSUME Interpretation, NEW w, NEW v, NEW a, NEW b,
           NEW n1, NEW n2, NEW n3, NEW n4, NEW n5, NEW n6,
           NEW m1, NEW m2, NEW m3, NEW m4, NEW m5, NEW m6,
           Follows(n1, m1, w, v), Follows(n2, m2, w, v), Follows(n3, m3, w, v), Follows(n4, m4, w,
           v), Follows(n5, m5, w, v), Follows(n6, m6, w, v)
    PROVE  /\ Follows(AllOf(a, <<n1, n2, n3, n4, n5, n6>>), AllOf(b, <<m1, m2, m3, m4, m5, m6>>), w, v)
           /\ Follows(AnyOf(a, <<n1, n2, n3, n4, n5, n6>>), AnyOf(b, <<m1, m2, m3, m4, m5, m6>>), w, v)
  <1> DEFINE ns == <<n1, n2, n3, n4, n5, n6>>
             ms == <<m1, m2, m3, m4, m5, m6>>
  <1>1. ns # <<>> /\ ms # <<>> /\ DOMAIN ns = DOMAIN ms /\ \A i \in DOMAIN ns : Follows(ns[i], ms[i], w, v)
    OBVIOUS
  <1> HIDE DEF ns, ms
  <1>2. Follows(AllOf(a, ns), AllOf(b, ms), w, v) /\ Follows(AnyOf(a, ns), AnyOf(b, ms), w, v)
    BY <1>1, AllOfGrows
  <1> QED
    BY <1>2 DEF ns, ms

LEMMA NotOfGrows ==
    ASSUME Interpretation, NEW w, NEW v, NEW a, NEW b, NEW n, NEW m, Follows(n, m, w, v)
    PROVE  Follows(NotOf(a, n), NotOf(b, m), w, v)
  <1>1. Says(NotOf(a, n), w) = Negate(Says(n, w)) /\ Says(NotOf(b, m), v) = Negate(Says(m, v))
    BY NotOfSays
  <1>2. Negate("indeterminate") = "indeterminate"
    BY DEF Negate
  <1> QED
    BY <1>1, <1>2 DEF Follows

LEMMA QuestionGrows ==
    ASSUME Interpretation, NEW w, NEW v, NEW a, NEW b, NEW operator, operator \notin Unary, NEW policy,
           NEW left, NEW right, NEW left2, NEW right2,
           \/ Reads(left, w) = Reads(left2, v) /\ Reads(right, w) = Reads(right2, v)
           \/ policy = "indeterminate" /\ Grows(left, left2, w, v) /\ Grows(right, right2, w, v)
    PROVE  Follows(Asks(a, left, operator, right, policy), Asks(b, left2, operator, right2, policy), w, v)
  <1>1. /\ Says(Asks(a, left, operator, right, policy), w) =
              CompareSides(operator, policy, Reads(left, w), Reads(right, w))
        /\ Says(Asks(b, left2, operator, right2, policy), v) =
              CompareSides(operator, policy, Reads(left2, v), Reads(right2, v))
    BY AsksSays
  <1>2. ~Known(Missing) /\ NullResult("indeterminate") = "indeterminate"
    BY DEF Known, Kind, Missing, NullResult
  <1> QED
    BY <1>1, <1>2 DEF Follows, Grows, CompareSides

LEMMA FactAgrees ==
    ASSUME Interpretation, NEW w, NEW v, NEW code, Agree(code, w, v)
    PROVE  Reads(Fact(code), w) = Reads(Fact(code), v)
  BY FactReads DEF Agree, AsDeclared

LEMMA KnownLiterals ==
    /\ \A p, q : Known(Number(p, q))
    /\ \A n : Known(Whole(n)) /\ Known(Bool(n)) /\ Known(List(n))
  BY DEF Known, Kind, Number, Whole, Bool, List

LEMMA LiteralAgrees ==
    ASSUME Interpretation, NEW w, NEW v, NEW value, Known(value)
    PROVE  Reads(Lit(value), w) = Reads(Lit(value), v)
  BY LitReads

LEMMA FactQuestionAgrees ==
    ASSUME Interpretation, NEW w, NEW v, NEW code, Agree(code, w, v), NEW a, NEW b,
           NEW operator, operator \notin Unary, NEW value, Known(value), NEW policy
    PROVE  Follows(Asks(a, Fact(code), operator, Lit(value), policy),
                   Asks(b, Fact(code), operator, Lit(value), policy), w, v)
  <1>1. Reads(Fact(code), w) = Reads(Fact(code), v) /\ Reads(Lit(value), w) = Reads(Lit(value), v)
    BY FactAgrees, LiteralAgrees
  <1> QED
    BY <1>1, QuestionGrows

LEMMA QuestionsAgree ==
    ASSUME Interpretation, NEW w, NEW v, NEW code, Agree(code, w, v), NEW a, NEW b
    PROVE  /\ \A n : Follows(Eq(a, code, n), Eq(b, code, n), w, v)
           /\ \A n : Follows(Ne(a, code, n), Ne(b, code, n), w, v)
           /\ \A values : Follows(InList(a, code, values), InList(b, code, values), w, v)
           /\ \A policy : Follows(Positive(a, code, policy), Positive(b, code, policy), w, v)
           /\ Follows(IsTrue(a, code), IsTrue(b, code), w, v)
           /\ Follows(IsNull(a, code), IsNull(b, code), w, v)
  <1>1. "eq" \notin Unary /\ "ne" \notin Unary /\ "in" \notin Unary /\ "gt" \notin Unary
    BY DEF Unary
  <1>2. \A n : Follows(Eq(a, code, n), Eq(b, code, n), w, v)
    BY <1>1, KnownLiterals, FactQuestionAgrees DEF Eq
  <1>3. \A n : Follows(Ne(a, code, n), Ne(b, code, n), w, v)
    BY <1>1, KnownLiterals, FactQuestionAgrees DEF Ne
  <1>4. \A values : Follows(InList(a, code, values), InList(b, code, values), w, v)
    BY <1>1, KnownLiterals, FactQuestionAgrees DEF InList
  <1>5. \A policy : Follows(Positive(a, code, policy), Positive(b, code, policy), w, v)
    BY <1>1, KnownLiterals, FactQuestionAgrees DEF Positive
  <1>6. Follows(IsTrue(a, code), IsTrue(b, code), w, v)
    BY <1>1, KnownLiterals, FactQuestionAgrees DEF IsTrue
  <1>7. Follows(IsNull(a, code), IsNull(b, code), w, v)
    BY IsNullSays, FactAgrees DEF Follows
  <1> QED
    BY <1>2, <1>3, <1>4, <1>5, <1>6, <1>7

LEMMA OpGrows ==
    ASSUME Interpretation, NEW w, NEW v, NEW kind \in {"add", "multiply", "subtract"},
           NEW es, NEW fs, Len(es) = 2 \/ (Len(es) = 3 /\ kind # "subtract"), Len(fs) = Len(es),
           DOMAIN es = DOMAIN fs, \A i \in DOMAIN es : Grows(es[i], fs[i], w, v)
    PROVE  Grows(Op(kind, es), Op(kind, fs), w, v)
  <1> DEFINE r == Values(es, w)
             s == Values(fs, v)
  <1>1. /\ Reads(Op(kind, es), w) = V31!Combined(Op(kind, es), r)
        /\ Reads(Op(kind, fs), v) = V31!Combined(Op(kind, fs), s)
    <2>1. kind \in {"add", "multiply", "coalesce", "subtract"}
      OBVIOUS
    <2>2. ASSUME NEW gs, NEW u, Len(gs) = 2 \/ (Len(gs) = 3 /\ kind # "subtract")
          PROVE  Reads(Op(kind, gs), u) = V31!Combined(Op(kind, gs), Values(gs, u))
      BY <2>1, <2>2, OpReads
    <2> QED
      BY <2>2
  <1>2. /\ V31!Combined(Op(kind, es), r) = V31!Calculate(kind, r)
        /\ V31!Combined(Op(kind, fs), s) = V31!Calculate(kind, s)
    BY DEF V31!Combined, Op
  <1>3. (\A i \in DOMAIN es : r[i] = s[i]) => r = s
    BY DEF Values
  <1>4. ASSUME NEW i \in DOMAIN es, r[i] = Missing
        PROVE  V31!Calculate(kind, r) = Missing
    <2>1. DOMAIN r = DOMAIN es
      BY DEF Values
    <2>2. V31!AsDecimal(r[i]) = V31!Missing
      BY <1>4, SameValues DEF AsDecimal, Kind, Missing
    <2> HIDE DEF r
    <2> QED
      BY <2>1, <2>2, SameValues DEF V31!Calculate
  <1>5. \A i \in DOMAIN es : r[i] \in {Missing, s[i]}
    BY DEF Grows, Values
  <1> HIDE DEF r, s
  <1> QED
    BY <1>1, <1>2, <1>3, <1>4, <1>5 DEF Grows

\* A later world: amounts that had no value may have one, further members may be known, and
\* the facts that are asked of a task before anything else may differ.
Later(w, v) ==
    /\ DOMAIN w.context = {"facts", "runtime", "members"} /\ DOMAIN v.context = DOMAIN w.context
    /\ v.facts = w.facts /\ v.parameters = w.parameters /\ v.context.runtime = w.context.runtime
    /\ \A key \in DOMAIN w.context.members :
          key \in DOMAIN v.context.members /\ v.context.members[key] = w.context.members[key]
    /\ \A code : code \notin Guards =>
          Raw(code, w) = Raw(code, v) \/ (code \in Amounts /\ Raw(code, w) = Missing)

LEMMA LaterAgrees ==
    ASSUME NEW w, NEW v, Later(w, v), NEW code, code \notin Guards \cup Amounts
    PROVE  Agree(code, w, v)
  BY DEF Later, Agree

LEMMA LaterGrows ==
    ASSUME Interpretation, NEW w, NEW v, Later(w, v), NEW code, code \notin Guards
    PROVE  Grows(Fact(code), Fact(code), w, v)
  <1>1. /\ Reads(Fact(code), w) = AsDeclared(code, Raw(code, w), w)
        /\ Reads(Fact(code), v) = AsDeclared(code, Raw(code, v), v)
    BY FactReads
  <1> QED
    BY <1>1, DateOfMissing DEF Grows, AsDeclared, Later

LEMMA ParameterAgrees ==
    ASSUME Interpretation, NEW w, NEW v, Later(w, v), NEW name
    PROVE  Reads(Param(name), w) = Reads(Param(name), v)
  BY ParamReads DEF Later

LEMMA LaterWithin ==
    ASSUME NEW w, NEW v, Later(w, v), NEW key \in DOMAIN w.context.members
    PROVE  Later(Within(w, key), Within(v, key))
  <1>1. \A u : DOMAIN u.context = {"facts", "runtime", "members"} =>
          /\ Within(u, key).facts = u.facts /\ Within(u, key).parameters = u.parameters
          /\ DOMAIN Within(u, key).context = {"facts", "runtime", "members"}
          /\ Within(u, key).context.facts = u.context.members[key]
          /\ Within(u, key).context.runtime = u.context.runtime
          /\ Within(u, key).context.members = u.context.members
    BY DEF Within
  <1> DEFINE x == Within(w, key)
             y == Within(v, key)
  <1>2. /\ x.facts = w.facts /\ x.parameters = w.parameters
        /\ DOMAIN x.context = {"facts", "runtime", "members"}
        /\ x.context.facts = w.context.members[key]
        /\ x.context.runtime = w.context.runtime
        /\ x.context.members = w.context.members
    BY <1>1 DEF Later
  <1>3. /\ y.facts = v.facts /\ y.parameters = v.parameters
        /\ DOMAIN y.context = {"facts", "runtime", "members"}
        /\ y.context.facts = v.context.members[key]
        /\ y.context.runtime = v.context.runtime
        /\ y.context.members = v.context.members
    BY <1>1 DEF Later
  <1> HIDE DEF x, y
  <1>4. x.context.facts = y.context.facts
    BY <1>2, <1>3 DEF Later
  <1>5. \A code : Raw(code, x) = Raw(code, y)
    BY <1>4 DEF Raw
  <1>6. Later(x, y)
    BY <1>2, <1>3, <1>5 DEF Later
  <1> QED
    BY <1>6 DEF x, y

LEMMA MembersGrow ==
    ASSUME Interpretation, NEW w, NEW v, Later(w, v), NEW code, code \notin Guards \cup Amounts,
           NEW a, NEW b, NEW empty, NEW n, NEW m, NEW k, NEW l,
           \A key \in DOMAIN w.context.members : Follows(n, m, Within(w, key), Within(v, key)),
           \A key \in DOMAIN w.context.members : Follows(k, l, Within(w, key), Within(v, key))
    PROVE  /\ Follows(AllMembersOf(a, code, empty, n), AllMembersOf(b, code, empty, m), w, v)
           /\ Follows(Overlay([alreadySatisfied |-> k], AllMembersOf(a, code, empty, n)),
                      Overlay([alreadySatisfied |-> l], AllMembersOf(b, code, empty, m)), w, v)
  <1> DEFINE keys == Members(code, w)
  <1>1. Raw(code, w) = Raw(code, v) /\ Members(code, v) = keys
    BY LaterAgrees DEF Agree, Members
  <1>2. \A key : /\ Judgement(w, key, "fail", Says(n, Within(w, key)))
                       \in {"indeterminate", Judgement(v, key, "fail", Says(m, Within(v, key)))}
                 /\ Judgement(w, key, Says(k, Within(w, key)), Says(n, Within(w, key)))
                       \in {"indeterminate", Judgement(v, key, Says(l, Within(v, key)),
                                                       Says(m, Within(v, key)))}
    BY DEF Follows, Judgement, Later
  <1> DEFINE r == [key \in keys |-> Judgement(w, key, "fail", Says(n, Within(w, key)))]
             s == [key \in keys |-> Judgement(v, key, "fail", Says(m, Within(v, key)))]
             x == [key \in keys |-> Judgement(w, key, Says(k, Within(w, key)), Says(n, Within(w, key)))]
             y == [key \in keys |-> Judgement(v, key, Says(l, Within(v, key)), Says(m, Within(v, key)))]
  <1>3. /\ DOMAIN r = DOMAIN s /\ \A key \in DOMAIN r : r[key] \in {"indeterminate", s[key]}
        /\ DOMAIN x = DOMAIN y /\ \A key \in DOMAIN x : x[key] \in {"indeterminate", y[key]}
    BY <1>2
  <1>4. /\ Says(AllMembersOf(a, code, empty, n), w) =
              IF Kind(Raw(code, w)) # "list" THEN "indeterminate"
              ELSE IF keys = {} THEN empty ELSE Conjunction(r)
        /\ Says(AllMembersOf(b, code, empty, m), v) =
              IF Kind(Raw(code, w)) # "list" THEN "indeterminate"
              ELSE IF keys = {} THEN empty ELSE Conjunction(s)
    BY <1>1, MembersSays
  <1>5. /\ Says(Overlay([alreadySatisfied |-> k], AllMembersOf(a, code, empty, n)), w) =
              IF Kind(Raw(code, w)) # "list" THEN "indeterminate"
              ELSE IF keys = {} THEN empty ELSE Conjunction(x)
        /\ Says(Overlay([alreadySatisfied |-> l], AllMembersOf(b, code, empty, m)), v) =
              IF Kind(Raw(code, w)) # "list" THEN "indeterminate"
              ELSE IF keys = {} THEN empty ELSE Conjunction(y)
    BY <1>1, MembersOrSays
  <1> HIDE DEF r, s, x, y, keys
  <1>6. Conjunction(r) \in {"indeterminate", Conjunction(s)} /\ Conjunction(x) \in {"indeterminate", Conjunction(y)}
    BY <1>3, ConjunctionGrows
  <1>7. Follows(AllMembersOf(a, code, empty, n), AllMembersOf(b, code, empty, m), w, v)
    BY <1>4, <1>6 DEF Follows
  <1>8. Follows(Overlay([alreadySatisfied |-> k], AllMembersOf(a, code, empty, n)),
                Overlay([alreadySatisfied |-> l], AllMembersOf(b, code, empty, m)), w, v)
    BY <1>5, <1>6 DEF Follows
  <1> QED
    BY <1>7, <1>8

LEMMA CalmQuestions ==
    ASSUME Interpretation, NEW w, NEW v, Later(w, v), NEW code, code \notin Guards \cup Amounts,
           NEW a, NEW b
    PROVE  /\ \A n : Follows(Eq(a, code, n), Eq(b, code, n), w, v)
           /\ \A n : Follows(Ne(a, code, n), Ne(b, code, n), w, v)
           /\ \A values : Follows(InList(a, code, values), InList(b, code, values), w, v)
           /\ \A policy : Follows(Positive(a, code, policy), Positive(b, code, policy), w, v)
           /\ Follows(IsTrue(a, code), IsTrue(b, code), w, v)
           /\ Follows(IsNull(a, code), IsNull(b, code), w, v)
  <1>1. Agree(code, w, v)
    BY LaterAgrees
  <1> QED
    BY <1>1, QuestionsAgree

LEMMA LiteralGrows ==
    ASSUME Interpretation, NEW w, NEW v
    PROVE  /\ \A p, q : Grows(Lit(Number(p, q)), Lit(Number(p, q)), w, v)
           /\ \A n : Grows(Lit(Whole(n)), Lit(Whole(n)), w, v)
           /\ Grows(Epsilon, Epsilon, w, v)
           /\ \A p : Grows(Percent(p), Percent(p), w, v)
  <1>1. \A value : Known(value) => Grows(Lit(value), Lit(value), w, v)
    BY LiteralAgrees DEF Grows
  <1> QED
    BY <1>1, KnownLiterals DEF Epsilon, Percent

LEMMA OpPairGrows ==
    ASSUME Interpretation, NEW w, NEW v, NEW kind \in {"add", "multiply", "subtract"},
           NEW e, NEW f, NEW g, NEW h, Grows(e, f, w, v), Grows(g, h, w, v)
    PROVE  Grows(Op(kind, <<e, g>>), Op(kind, <<f, h>>), w, v)
  <1> DEFINE es == <<e, g>>
             fs == <<f, h>>
  <1>1. /\ Len(es) = 2 \/ (Len(es) = 3 /\ kind # "subtract")
        /\ Len(fs) = Len(es) /\ DOMAIN es = DOMAIN fs
        /\ \A i \in DOMAIN es : Grows(es[i], fs[i], w, v)
    OBVIOUS
  <1> HIDE DEF es, fs
  <1>2. Grows(Op(kind, es), Op(kind, fs), w, v)
    BY <1>1, OpGrows
  <1> QED
    BY <1>2 DEF es, fs

LEMMA SumOfThreeGrows ==
    ASSUME Interpretation, NEW w, NEW v, NEW e, NEW f, NEW g,
           Grows(e, e, w, v), Grows(f, f, w, v), Grows(g, g, w, v)
    PROVE  Grows(Op("add", <<e, f, g>>), Op("add", <<e, f, g>>), w, v)
  <1> DEFINE es == <<e, f, g>>
  <1>1. Len(es) = 3 /\ \A i \in DOMAIN es : Grows(es[i], es[i], w, v)
    OBVIOUS
  <1> HIDE DEF es
  <1>2. "add" \in {"add", "multiply", "subtract"} /\ "add" # "subtract"
    OBVIOUS
  <1>3. Grows(Op("add", es), Op("add", es), w, v)
    BY <1>1, <1>2, OpGrows
  <1> QED
    BY <1>3 DEF es

\* Every expression over amounts that the plan compares.
LEMMA AmountsGrow ==
    ASSUME Interpretation, NEW w, NEW v, Later(w, v)
    PROVE  /\ Grows(Fact("order.deposit_amount"), Fact("order.deposit_amount"), w, v)
           /\ Grows(Fact("task.task_amount"), Fact("task.task_amount"), w, v)
           /\ Grows(Fact("release.special_application_count"), Fact("release.special_application_count"), w, v)
           /\ Grows(ArrivalWithEpsilon, ArrivalWithEpsilon, w, v)
           /\ Grows(BaseAmount, BaseAmount, w, v)
           /\ Grows(CompletedAmount("order.data_release_amount"),
                    CompletedAmount("order.data_release_amount"), w, v)
           /\ Grows(ReportTotal, ReportTotal, w, v)
           /\ \A p : Grows(Share(ReportTotal, p), Share(ReportTotal, p), w, v)
           /\ \A p : Grows(Share(Op("subtract", <<ReportTotal, Arrival>>), p),
                           Share(Op("subtract", <<ReportTotal, Arrival>>), p), w, v)
  <1> USE LaterGrows DEF Guards
  <1>1. Grows(Fact("order.deposit_amount"), Fact("order.deposit_amount"), w, v)
    OBVIOUS
  <1>2. Grows(Fact("task.task_amount"), Fact("task.task_amount"), w, v)
    OBVIOUS
  <1>3. Grows(Fact("release.special_application_count"), Fact("release.special_application_count"), w, v)
    OBVIOUS
  <1>4. Grows(Arrival, Arrival, w, v)
    BY DEF Arrival
  <1>5. Grows(Fact("order.extraction_qc_amount"), Fact("order.extraction_qc_amount"), w, v)
    OBVIOUS
  <1>6. \A code \in {"order.report_release_amount", "order.data_release_amount"} : Grows(Fact(code), Fact(code), w, v)
    OBVIOUS
  <1>7. Grows(ArrivalWithEpsilon, ArrivalWithEpsilon, w, v)
    BY <1>4, LiteralGrows, OpPairGrows DEF ArrivalWithEpsilon
  <1>8. Grows(BaseAmount, BaseAmount, w, v)
    BY <1>2, <1>5, OpPairGrows DEF BaseAmount
  <1>9. \A code \in {"order.report_release_amount", "order.data_release_amount"} :
          Grows(CompletedAmount(code), CompletedAmount(code), w, v)
    BY <1>2, <1>5, <1>6, SumOfThreeGrows DEF CompletedAmount
  <1>10. Grows(ReportTotal, ReportTotal, w, v)
    BY <1>9 DEF ReportTotal
  <1>11. \A e, p : Grows(e, e, w, v) => Grows(Share(e, p), Share(e, p), w, v)
    BY LiteralGrows, OpPairGrows DEF Share
  <1>12. Grows(Op("subtract", <<ReportTotal, Arrival>>), Op("subtract", <<ReportTotal, Arrival>>), w, v)
    BY <1>4, <1>10, OpPairGrows
  <1> QED
    BY <1>1, <1>2, <1>3, <1>7, <1>8, <1>9, <1>10, <1>11, <1>12

\* The questions about amounts.
LEMMA OpenGrows ==
    ASSUME Interpretation, NEW w, NEW v, NEW a, NEW b, NEW operator \in {"lt", "lte", "gt", "gte", "eq"},
           NEW left, NEW right, Grows(left, left, w, v), Grows(right, right, w, v)
    PROVE  Follows(Open(a, left, operator, right), Open(b, left, operator, right), w, v)
  <1>1. operator \notin Unary
    BY DEF Unary
  <1> QED
    BY <1>1, QuestionGrows DEF Open

LEMMA AmountQuestionsGrow ==
    ASSUME Interpretation, NEW w, NEW v, Later(w, v), NEW a, NEW b
    PROVE  /\ \A n : Follows(Pays(a, n), Pays(b, n), w, v)
           /\ Follows(DepositPays(a), DepositPays(b), w, v)
           /\ Follows(Positive(a, "release.special_application_count", "indeterminate"),
                      Positive(b, "release.special_application_count", "indeterminate"), w, v)
           /\ \A operator \in {"lt", "lte", "gt", "gte"} :
                 /\ Follows(Costs(a, operator), Costs(b, operator), w, v)
                 /\ \A n, x, y : Follows(Open(x, BaseAmount, operator, Lit(Whole(n))),
                                         Open(y, BaseAmount, operator, Lit(Whole(n))), w, v)
           /\ Follows(Open(a, ArrivalWithEpsilon, "gte", CompletedAmount("order.data_release_amount")),
                      Open(b, ArrivalWithEpsilon, "gte", CompletedAmount("order.data_release_amount")), w, v)
  <1>1. ASSUME NEW n PROVE Follows(Pays(a, n), Pays(b, n), w, v)
    <2> DEFINE right == IF n = 100 THEN ReportTotal ELSE Share(ReportTotal, n)
    <2>1. Grows(right, right, w, v) /\ Grows(ArrivalWithEpsilon, ArrivalWithEpsilon, w, v)
      BY AmountsGrow
    <2> HIDE DEF right
    <2>2. Follows(Open(a, ArrivalWithEpsilon, "gte", right), Open(b, ArrivalWithEpsilon, "gte", right), w, v)
      BY <2>1, OpenGrows
    <2> QED
      BY <2>2 DEF Pays, right
  <1>2. Follows(DepositPays(a), DepositPays(b), w, v)
    BY AmountsGrow, OpenGrows DEF DepositPays
  <1>3. Follows(Positive(a, "release.special_application_count", "indeterminate"),
                Positive(b, "release.special_application_count", "indeterminate"), w, v)
    BY AmountsGrow, LiteralGrows, OpenGrows DEF Positive, Open
  <1>4. ASSUME NEW operator \in {"lt", "lte", "gt", "gte"}
        PROVE  /\ Follows(Costs(a, operator), Costs(b, operator), w, v)
               /\ \A n, x, y : Follows(Open(x, BaseAmount, operator, Lit(Whole(n))),
                                       Open(y, BaseAmount, operator, Lit(Whole(n))), w, v)
    <2>1. /\ Grows(Fact("task.task_amount"), Fact("task.task_amount"), w, v)
          /\ Grows(BaseAmount, BaseAmount, w, v)
      BY AmountsGrow
    <2>2. \A n : Grows(Lit(Whole(n)), Lit(Whole(n)), w, v)
      BY LiteralGrows
    <2>3. Follows(Costs(a, operator), Costs(b, operator), w, v)
      BY <2>1, <2>2, OpenGrows DEF Costs
    <2>4. ASSUME NEW n, NEW x, NEW y
          PROVE  Follows(Open(x, BaseAmount, operator, Lit(Whole(n))),
                         Open(y, BaseAmount, operator, Lit(Whole(n))), w, v)
      BY <2>1, <2>2, OpenGrows
    <2> QED
      BY <2>3, <2>4
  <1>5. Follows(Open(a, ArrivalWithEpsilon, "gte", CompletedAmount("order.data_release_amount")),
                Open(b, ArrivalWithEpsilon, "gte", CompletedAmount("order.data_release_amount")), w, v)
    BY AmountsGrow, OpenGrows
  <1> QED
    BY <1>1, <1>2, <1>3, <1>4, <1>5

-----------------------------------------------------------------------------
(* The rules of eligibility                                                *)

LEMMA SingleQuestionRules ==
    ASSUME Interpretation, NEW w, NEW v, Later(w, v), NEW p, NEW q
    PROVE  /\ Follows(R0(p), R0(q), w, v) /\ Follows(R1(p), R1(q), w, v)
           /\ Follows(R9(p), R9(q), w, v) /\ Follows(R2(p), R2(q), w, v)
  <1>1. \A code \in {"order.amount", "task.batch_report_release_flag", "order.source_code"} :
          \A a, b, n : Follows(Eq(a, code, n), Eq(b, code, n), w, v)
    BY CalmQuestions DEF Guards, Amounts
  <1>2. Follows(R1(p), R1(q), w, v)
    BY AmountQuestionsGrow DEF R1
  <1> QED
    BY <1>1, <1>2 DEF R0, R9, R2

LEMMA DateQuestionAgrees ==
    ASSUME Interpretation, NEW w, NEW v, Later(w, v), NEW code, code \notin Guards \cup Amounts,
           NEW a, NEW b, NEW name
    PROVE  Follows(Asks(a, Fact(code), "gte", Param(name), "fail"),
                   Asks(b, Fact(code), "gte", Param(name), "fail"), w, v)
  <1>1. Reads(Fact(code), w) = Reads(Fact(code), v)
    BY LaterAgrees, FactAgrees
  <1>2. Reads(Param(name), w) = Reads(Param(name), v)
    BY ParameterAgrees
  <1>3. "gte" \notin Unary
    BY DEF Unary
  <1> QED
    BY <1>1, <1>2, <1>3, QuestionGrows

LEMMA RawDataRule ==
    ASSUME Interpretation, NEW w, NEW v, Later(w, v), NEW p, NEW q
    PROVE  Follows(R4(p), R4(q), w, v)
  <1>1. \A a, b : Follows(Eq(a, "task.raw_data_present_flag", 0), Eq(b, "task.raw_data_present_flag", 0), w, v)
    BY CalmQuestions DEF Guards, Amounts
  <1>2. \A a, b : Follows(
          Asks(a, Fact("task.completion_date"), "gte", Param("rawDataReleasedCutoffDate"), "fail"),
          Asks(b, Fact("task.completion_date"), "gte", Param("rawDataReleasedCutoffDate"), "fail"), w, v)
    BY DateQuestionAgrees DEF Guards, Amounts
  <1> QED
    BY <1>1, <1>2, PairGrows DEF R4

LEMMA CustomerQuestions ==
    ASSUME Interpretation, NEW w, NEW v, Later(w, v), NEW a, NEW b
    PROVE  /\ Follows(NotSpecial(a), NotSpecial(b), w, v)
           /\ Follows(IsFramework(a), IsFramework(b), w, v)
           /\ Follows(NonFramework(a), NonFramework(b), w, v)
           /\ Follows(IsEnterprise(a), IsEnterprise(b), w, v)
  <1>1. \A x, y : /\ \A n : Follows(Ne(x, "task.product_id", n), Ne(y, "task.product_id", n), w, v)
                  /\ Follows(IsNull(x, "task.product_id"), IsNull(y, "task.product_id"), w, v)
    BY CalmQuestions DEF Guards, Amounts
  <1>2. Follows(NotSpecial(a), NotSpecial(b), w, v)
    BY <1>1, PairGrows DEF NotSpecial
  <1>3. \A code \in {"order.framework_type", "order.customer_org_type"} :
          \A x, y, values : Follows(InList(x, code, values), InList(y, code, values), w, v)
    BY CalmQuestions DEF Guards, Amounts
  <1>4. \A x, y : Follows(IsFramework(x), IsFramework(y), w, v)
    BY <1>3 DEF IsFramework
  <1>5. Follows(NonFramework(a), NonFramework(b), w, v)
    BY <1>4, NotOfGrows DEF NonFramework
  <1>6. Follows(IsEnterprise(a), IsEnterprise(b), w, v)
    BY <1>3 DEF IsEnterprise
  <1> QED
    BY <1>2, <1>4, <1>5, <1>6

LEMMA SpecialProductRule ==
    ASSUME Interpretation, NEW w, NEW v, Later(w, v), NEW p, NEW q
    PROVE  Follows(R3(p), R3(q), w, v)
  <1>1. Follows(Eq(p \o <<"r3-product">>, "task.product_id", Special),
                Eq(q \o <<"r3-product">>, "task.product_id", Special), w, v)
    BY CalmQuestions DEF Guards, Amounts
  <1>2. ASSUME NEW a, NEW b, NEW operator \in {"lt", "lte", "gt", "gte"}, NEW share
        PROVE  Follows(Tier(a, operator, share), Tier(b, operator, share), w, v)
    <2>1. Follows(Pays(a \o <<"pay">>, share), Pays(b \o <<"pay">>, share), w, v)
      BY AmountQuestionsGrow
    <2>2. Follows(Open(a \o <<"base">>, BaseAmount, operator, Lit(Whole(100000))),
                  Open(b \o <<"base">>, BaseAmount, operator, Lit(Whole(100000))), w, v)
      BY AmountQuestionsGrow
    <2> QED
      BY <2>1, <2>2, PairGrows DEF Tier
  <1>3. /\ Follows(Tier(p \o <<"r3-low">>, "lte", 70), Tier(q \o <<"r3-low">>, "lte", 70), w, v)
        /\ Follows(Tier(p \o <<"r3-high">>, "gt", 50), Tier(q \o <<"r3-high">>, "gt", 50), w, v)
    BY <1>2
  <1>4. Follows(AnyOf(p \o <<"r3-tiers">>, <<Tier(p \o <<"r3-low">>, "lte", 70),
                                             Tier(p \o <<"r3-high">>, "gt", 50)>>),
                AnyOf(q \o <<"r3-tiers">>, <<Tier(q \o <<"r3-low">>, "lte", 70),
                                             Tier(q \o <<"r3-high">>, "gt", 50)>>), w, v)
    BY <1>3, PairGrows
  <1> QED
    BY <1>1, <1>4, PairGrows DEF R3

LEMMA EnterpriseRule ==
    ASSUME Interpretation, NEW w, NEW v, Later(w, v), NEW p, NEW q
    PROVE  Follows(R5(p), R5(q), w, v)
  <1>1. /\ Follows(NotSpecial(p \o <<"r5">>), NotSpecial(q \o <<"r5">>), w, v)
        /\ Follows(NonFramework(p \o <<"r5">>), NonFramework(q \o <<"r5">>), w, v)
        /\ Follows(IsEnterprise(p \o <<"r5">>), IsEnterprise(q \o <<"r5">>), w, v)
    BY CustomerQuestions
  <1>2. Follows(Pays(p \o <<"r5-pay">>, 100), Pays(q \o <<"r5-pay">>, 100), w, v)
    BY AmountQuestionsGrow
  <1> QED
    BY <1>1, <1>2, FourGrow DEF R5

LEMMA FrameworkRule ==
    ASSUME Interpretation, NEW w, NEW v, Later(w, v), NEW p, NEW q
    PROVE  Follows(R7(p), R7(q), w, v)
  <1>1. Follows(IsFramework(p \o <<"r7-framework">>), IsFramework(q \o <<"r7-framework">>), w, v)
    BY CustomerQuestions
  <1>2. /\ Follows(Pays(p \o <<"r7-pay">>, 80), Pays(q \o <<"r7-pay">>, 80), w, v)
        /\ Follows(DepositPays(p \o <<"r7-deposit">>), DepositPays(q \o <<"r7-deposit">>), w, v)
    BY AmountQuestionsGrow
  <1>3. Follows(AnyOf(p \o <<"r7-or">>, <<Pays(p \o <<"r7-pay">>, 80), DepositPays(p \o <<"r7-deposit">>)>>),
                AnyOf(q \o <<"r7-or">>, <<Pays(q \o <<"r7-pay">>, 80), DepositPays(q \o <<"r7-deposit">>)>>), w, v)
    BY <1>2, PairGrows
  <1> QED
    BY <1>1, <1>3, PairGrows DEF R7

LEMMA DaysOldAgrees ==
    ASSUME Interpretation, NEW w, NEW v, Later(w, v), NEW a, NEW b, NEW n \in Int
    PROVE  Follows(DaysOld(a, n), DaysOld(b, n), w, v)
  <1> DEFINE base == Fact("task.completion_date")
  <1>1. Reads(base, w) = Reads(base, v)
    BY LaterAgrees, FactAgrees DEF Guards, Amounts
  <1>2. /\ Reads(DateAdd(base, n), w) = V31!AddDays(V31!BusinessDate(Reads(base, w)), Whole(n))
        /\ Reads(DateAdd(base, n), v) = V31!AddDays(V31!BusinessDate(Reads(base, v)), Whole(n))
    BY DateAddReads
  <1> HIDE DEF base
  <1>3. Reads(Param("evaluationDate"), w) = Reads(Param("evaluationDate"), v)
    BY ParameterAgrees
  <1>4. "eq" \notin Unary
    BY DEF Unary
  <1>5. Follows(Asks(a \o <<"day">>, DateAdd(base, n), "eq", Param("evaluationDate"), "indeterminate"),
                Asks(b \o <<"day">>, DateAdd(base, n), "eq", Param("evaluationDate"), "indeterminate"), w, v)
    BY <1>1, <1>2, <1>3, <1>4, QuestionGrows
  <1> QED
    BY <1>5 DEF DaysOld, Open, base

LEMMA TimedRule ==
    ASSUME Interpretation, NEW w, NEW v, Later(w, v), NEW p, NEW q
    PROVE  Follows(R8(p), R8(q), w, v)
  <1>1. \A a, b : Follows(IsYeast(a), IsYeast(b), w, v)
    BY CalmQuestions DEF Guards, Amounts, IsYeast
  <1>2. \A a, b : Follows(Eq(a, "task.no_main_service_flag", 0), Eq(b, "task.no_main_service_flag", 0), w, v)
    BY CalmQuestions DEF Guards, Amounts
  <1>3. Follows(Yeast(p), Yeast(q), w, v)
    BY <1>1, <1>2, PairGrows DEF Yeast
  <1>4. \A a, b : Follows(IsInvoiced(a), IsInvoiced(b), w, v)
    BY CalmQuestions DEF Guards, Amounts, IsInvoiced
  <1>5. \A a, b : \A operator \in {"lt", "gte"} : Follows(Costs(a, operator), Costs(b, operator), w, v)
    BY AmountQuestionsGrow
  <1>6. \A a, b : \A n \in {60, 75, 180} : Follows(DaysOld(a, n), DaysOld(b, n), w, v)
    BY DaysOldAgrees
  <1> DEFINE A(p1) == AllOf(p1, <<Costs(p1, "lt"), IsInvoiced(p1), DaysOld(p1, 60)>>)
             B(p1) == AllOf(p1, <<Costs(p1, "lt"), NotOf(p1 \o <<"not-inv">>, IsInvoiced(p1)), DaysOld(p1, 75)>>)
             C(p1) == AllOf(p1, <<Costs(p1, "gte"), DaysOld(p1, 180)>>)
  <1>7. ASSUME NEW a, NEW b
        PROVE  Follows(A(a), A(b), w, v) /\ Follows(B(a), B(b), w, v) /\ Follows(C(a), C(b), w, v)
    <2>1. Follows(A(a), A(b), w, v)
      BY <1>4, <1>5, <1>6, TripleGrows
    <2>2. Follows(NotOf(a \o <<"not-inv">>, IsInvoiced(a)), NotOf(b \o <<"not-inv">>, IsInvoiced(b)), w, v)
      BY <1>4, NotOfGrows
    <2>3. Follows(B(a), B(b), w, v)
      BY <2>2, <1>5, <1>6, TripleGrows
    <2>4. Follows(C(a), C(b), w, v)
      BY <1>5, <1>6, PairGrows
    <2> QED
      BY <2>1, <2>3, <2>4
  <1> HIDE DEF A, B, C
  <1> DEFINE ABC(p1) == AnyOf(p1 \o <<"r8-abc">>, <<A(p1 \o <<"r8a">>), B(p1 \o <<"r8b">>), C(p1 \o <<"r8c">>)>>)
  <1>8. Follows(ABC(p), ABC(q), w, v)
    BY <1>7, TripleGrows
  <1>9. Follows(NotOf(p \o <<"r8-not-yeast">>, IsYeast(p \o <<"r8-yeast-cat-neg">>)),
                NotOf(q \o <<"r8-not-yeast">>, IsYeast(q \o <<"r8-yeast-cat-neg">>)), w, v)
    BY <1>1, NotOfGrows
  <1>10. Follows(NotSpecial(p \o <<"r8">>), NotSpecial(q \o <<"r8">>), w, v)
    BY CustomerQuestions
  <1>11. Timed(p) = AllOf(p \o <<"r8-timed">>,
            <<NotOf(p \o <<"r8-not-yeast">>, IsYeast(p \o <<"r8-yeast-cat-neg">>)), NotSpecial(p \o <<"r8">>), ABC(p)>>)
    BY DEF Timed, A, B, C
  <1>12. Timed(q) = AllOf(q \o <<"r8-timed">>,
            <<NotOf(q \o <<"r8-not-yeast">>, IsYeast(q \o <<"r8-yeast-cat-neg">>)), NotSpecial(q \o <<"r8">>), ABC(q)>>)
    BY DEF Timed, A, B, C
  <1> HIDE DEF ABC
  <1>13. Follows(Timed(p), Timed(q), w, v)
    BY <1>8, <1>9, <1>10, <1>11, <1>12, TripleGrows
  <1> DEFINE live(p1) == Open(p1 \o <<"r8-go-live">>, Param("evaluationDate"), "gte", Param("timedReleaseEffectiveDate"))
             branches(p1) == AnyOf(p1 \o <<"r8-branches">>, <<Yeast(p1), Timed(p1)>>)
  <1>14. Follows(live(p), live(q), w, v)
    <2>1. \A name : Grows(Param(name), Param(name), w, v)
      BY ParameterAgrees DEF Grows
    <2> QED
      BY <2>1, OpenGrows
  <1>15. Follows(branches(p), branches(q), w, v)
    BY <1>3, <1>13, PairGrows
  <1>16. R8(p) = AllOf(p \o <<"r8-effective">>, <<live(p), branches(p)>>) /\ R8(q) = AllOf(q \o <<"r8-effective">>, <<live(q), branches(q)>>)
    BY DEF R8
  <1> HIDE DEF live, branches
  <1> QED
    BY <1>14, <1>15, <1>16, PairGrows

LEMMA ContractQuestions ==
    ASSUME Interpretation, NEW w, NEW v, Later(w, v), NEW a, NEW b
    PROVE  /\ Follows(IsMini(a), IsMini(b), w, v)
           /\ Follows(NotMini(a), NotMini(b), w, v)
           /\ Follows(IsNonTemplate(a), IsNonTemplate(b), w, v)
           /\ Follows(IsTemplate(a), IsTemplate(b), w, v)
           /\ Follows(IsSmall(a), IsSmall(b), w, v)
           /\ Follows(NotSmall(a), NotSmall(b), w, v)
           /\ Follows(HasMode(a), HasMode(b), w, v)
           /\ Follows(IsAfter(a), IsAfter(b), w, v)
           /\ \A ns : Follows(Receipt(a, ns), Receipt(b, ns), w, v)
           /\ \A n : Follows(Eq(a, "contract.receipt_status", n), Eq(b, "contract.receipt_status", n), w, v)
           /\ \A n : Follows(Eq(a, "contract.sign_method", n), Eq(b, "contract.sign_method", n), w, v)
  <1>1. \A code \in {"contract.quota_kind", "contract.template_kind", "contract.effective_mode",
                     "contract.receipt_status", "contract.sign_method"} :
          \A x, y, n : Follows(Eq(x, code, n), Eq(y, code, n), w, v)
    BY CalmQuestions DEF Guards, Amounts
  <1>2. /\ Follows(IsMini(a), IsMini(b), w, v) /\ Follows(IsNonTemplate(a), IsNonTemplate(b), w, v)
        /\ Follows(IsSmall(a), IsSmall(b), w, v) /\ Follows(HasMode(a), HasMode(b), w, v)
    BY <1>1 DEF IsMini, IsNonTemplate, IsSmall, HasMode
  <1>3. /\ Follows(NotMini(a), NotMini(b), w, v) /\ Follows(IsTemplate(a), IsTemplate(b), w, v)
        /\ Follows(NotSmall(a), NotSmall(b), w, v)
    BY <1>2, NotOfGrows DEF NotMini, IsTemplate, NotSmall
  <1>4. Follows(IsAfter(a), IsAfter(b), w, v)
    BY DateQuestionAgrees DEF Guards, Amounts, IsAfter
  <1>5. \A ns : Follows(Receipt(a, ns), Receipt(b, ns), w, v)
    BY CalmQuestions DEF Guards, Amounts, Receipt
  <1> QED
    BY <1>1, <1>2, <1>3, <1>4, <1>5

LEMMA SealFollows ==
    ASSUME Interpretation, NEW w, NEW v, Later(w, v), NEW p, NEW q
    PROVE  Follows(SealPredicate(p), SealPredicate(q), w, v)
  <1> DEFINE c1(x) == IsMini(x \o <<"c1">>)
             c2(x) == AllOf(x \o <<"seal">>, <<NotMini(x), IsNonTemplate(x), Receipt(x, <<1, 2>>)>>)
             c3(x) == AllOf(x \o <<"seal">>, <<NotMini(x), IsTemplate(x), IsSmall(x), Receipt(x, <<0, 1, 2>>)>>)
             c4(x) == AllOf(x \o <<"seal">>, <<NotMini(x), IsTemplate(x), NotSmall(x), IsAfter(x), HasMode(x),
                                               Receipt(x, <<1, 2>>)>>)
             early(x) == AnyOf(x \o <<"when">>, <<NotOf(x \o <<"not-after">>, IsAfter(x)),
                                                  NotOf(x \o <<"not-mode">>, HasMode(x))>>)
             contact(x) == NotOf(x \o <<"not-contact">>, Eq(x \o <<"contact">>, "contract.sign_method", 2))
             signed(x) == AllOf(x \o <<"signed">>,
                            <<Eq(x \o <<"status0">>, "contract.receipt_status", 0), contact(x)>>)
             inHand(x) == AnyOf(x \o <<"receipt">>, <<Receipt(x, <<1, 2>>), signed(x)>>)
             c5(x) == AllOf(x \o <<"seal">>, <<NotMini(x), IsTemplate(x), NotSmall(x), early(x), inHand(x)>>)
  <1>1. ASSUME NEW x, NEW y
        PROVE  /\ Follows(c1(x), c1(y), w, v) /\ Follows(c2(x), c2(y), w, v) /\ Follows(c3(x), c3(y), w, v)
               /\ Follows(c4(x), c4(y), w, v) /\ Follows(c5(x), c5(y), w, v)
    <2>1. /\ Follows(NotMini(x), NotMini(y), w, v) /\ Follows(IsTemplate(x), IsTemplate(y), w, v)
          /\ Follows(IsNonTemplate(x), IsNonTemplate(y), w, v) /\ Follows(IsSmall(x), IsSmall(y), w, v)
          /\ Follows(NotSmall(x), NotSmall(y), w, v) /\ Follows(HasMode(x), HasMode(y), w, v)
          /\ Follows(IsAfter(x), IsAfter(y), w, v) /\ \A ns : Follows(Receipt(x, ns), Receipt(y, ns), w, v)
      BY ContractQuestions
    <2>2. Follows(c1(x), c1(y), w, v)
      BY ContractQuestions
    <2>3. Follows(c2(x), c2(y), w, v)
      BY <2>1, TripleGrows
    <2>4. Follows(c3(x), c3(y), w, v)
      BY <2>1, FourGrow
    <2>5. Follows(c4(x), c4(y), w, v)
      BY <2>1, SixGrow
    <2>6. Follows(early(x), early(y), w, v)
      <3>1. /\ Follows(NotOf(x \o <<"not-after">>, IsAfter(x)), NotOf(y \o <<"not-after">>, IsAfter(y)), w, v)
            /\ Follows(NotOf(x \o <<"not-mode">>, HasMode(x)), NotOf(y \o <<"not-mode">>, HasMode(y)), w, v)
        BY <2>1, NotOfGrows
      <3> QED
        BY <3>1, PairGrows
    <2>7. Follows(contact(x), contact(y), w, v)
      BY ContractQuestions, NotOfGrows
    <2> HIDE DEF contact
    <2>8. Follows(signed(x), signed(y), w, v)
      <3>1. Follows(Eq(x \o <<"status0">>, "contract.receipt_status", 0),
                    Eq(y \o <<"status0">>, "contract.receipt_status", 0), w, v)
        BY ContractQuestions
      <3> QED
        BY <2>7, <3>1, PairGrows
    <2> HIDE DEF signed
    <2>9. Follows(inHand(x), inHand(y), w, v)
      BY <2>1, <2>8, PairGrows
    <2> HIDE DEF early, inHand
    <2>10. Follows(c5(x), c5(y), w, v)
      BY <2>1, <2>6, <2>9, FiveGrow
    <2> QED
      BY <2>2, <2>3, <2>4, <2>5, <2>10
  <1>2. \A x : SealPredicate(x) = AnyOf(x \o <<"seal-five">>,
          <<c1(x), c2(x \o <<"c2">>), c3(x \o <<"c3">>), c4(x \o <<"c4">>), c5(x \o <<"c5">>)>>)
    BY DEF SealPredicate
  <1> HIDE DEF c1, c2, c3, c4, c5
  <1>3. Follows(AnyOf(p \o <<"seal-five">>,
                  <<c1(p), c2(p \o <<"c2">>), c3(p \o <<"c3">>), c4(p \o <<"c4">>), c5(p \o <<"c5">>)>>),
                AnyOf(q \o <<"seal-five">>,
                  <<c1(q), c2(q \o <<"c2">>), c3(q \o <<"c3">>), c4(q \o <<"c4">>), c5(q \o <<"c5">>)>>), w, v)
    BY <1>1, FiveGrow
  <1> QED
    BY <1>2, <1>3

LEMMA SealedRule ==
    ASSUME Interpretation, NEW w, NEW v, Later(w, v), NEW p, NEW q
    PROVE  Follows(R6(p), R6(q), w, v)
  <1>1. Follows(AllSealed(p), AllSealed(q), w, v)
    <2>1. \A key \in DOMAIN w.context.members :
            Follows(SealPredicate(p), SealPredicate(q), Within(w, key), Within(v, key))
      BY LaterWithin, SealFollows
    <2>2. "order.seal_scope_contract_ids" \notin Guards \cup Amounts
      BY DEF Guards, Amounts
    <2> QED
      BY <2>1, <2>2, MembersGrow DEF AllSealed
  <1>2. /\ Follows(NotSpecial(p \o <<"r6">>), NotSpecial(q \o <<"r6">>), w, v)
        /\ Follows(NonFramework(p \o <<"r6">>), NonFramework(q \o <<"r6">>), w, v)
        /\ Follows(IsEnterprise(p \o <<"r6">>), IsEnterprise(q \o <<"r6">>), w, v)
    BY CustomerQuestions
  <1>3. Follows(NotOf(p \o <<"r6-non-enterprise">>, IsEnterprise(p \o <<"r6">>)),
                NotOf(q \o <<"r6-non-enterprise">>, IsEnterprise(q \o <<"r6">>)), w, v)
    BY <1>2, NotOfGrows
  <1>4. /\ Follows(Pays(p \o <<"r6-a">>, 100), Pays(q \o <<"r6-a">>, 100), w, v)
        /\ Follows(Pays(p \o <<"r6-b1">>, 80), Pays(q \o <<"r6-b1">>, 80), w, v)
        /\ Follows(DepositPays(p \o <<"r6-b2">>), DepositPays(q \o <<"r6-b2">>), w, v)
    BY AmountQuestionsGrow
  <1> DEFINE b(x) == AllOf(x \o <<"r6-b">>, <<Pays(x \o <<"r6-b1">>, 80), DepositPays(x \o <<"r6-b2">>), AllSealed(x)>>)
             ab(x) == AnyOf(x \o <<"r6-ab">>, <<Pays(x \o <<"r6-a">>, 100), b(x)>>)
  <1>5. Follows(b(p), b(q), w, v)
    BY <1>1, <1>4, TripleGrows
  <1> HIDE DEF b
  <1>6. Follows(ab(p), ab(q), w, v)
    BY <1>4, <1>5, PairGrows
  <1>7. \A x : R6(x) = AllOf(x \o <<"r6-all">>,
          <<NotSpecial(x \o <<"r6">>), NonFramework(x \o <<"r6">>),
            NotOf(x \o <<"r6-non-enterprise">>, IsEnterprise(x \o <<"r6">>)), ab(x)>>)
    BY DEF R6, b
  <1> HIDE DEF ab
  <1>8. Follows(AllOf(p \o <<"r6-all">>,
          <<NotSpecial(p \o <<"r6">>), NonFramework(p \o <<"r6">>),
            NotOf(p \o <<"r6-non-enterprise">>, IsEnterprise(p \o <<"r6">>)), ab(p)>>),
                AllOf(q \o <<"r6-all">>,
          <<NotSpecial(q \o <<"r6">>), NonFramework(q \o <<"r6">>),
            NotOf(q \o <<"r6-non-enterprise">>, IsEnterprise(q \o <<"r6">>)), ab(q)>>), w, v)
    BY <1>2, <1>3, <1>6, FourGrow
  <1> QED
    BY <1>7, <1>8

\* Each of the ten rules, and so what the members of a group are asked.
LEMMA EligibilityFollows ==
    ASSUME Interpretation, NEW w, NEW v, Later(w, v), NEW p, NEW q
    PROVE  /\ DOMAIN AllEligibility(p) = 1 .. 10 /\ DOMAIN AllEligibility(q) = 1 .. 10
           /\ \A i \in 1 .. 10 : Follows(AllEligibility(p)[i], AllEligibility(q)[i], w, v)
  <1>1. DOMAIN AllEligibility(p) = 1 .. 10 /\ DOMAIN AllEligibility(q) = 1 .. 10
    BY DEF AllEligibility
  <1>2. /\ Follows(R0(p), R0(q), w, v) /\ Follows(R1(p), R1(q), w, v) /\ Follows(R9(p), R9(q), w, v)
        /\ Follows(R2(p), R2(q), w, v)
    BY SingleQuestionRules
  <1>3. Follows(R4(p), R4(q), w, v) /\ Follows(R3(p), R3(q), w, v)
    BY RawDataRule, SpecialProductRule
  <1>4. Follows(R8(p), R8(q), w, v) /\ Follows(R5(p), R5(q), w, v)
    BY TimedRule, EnterpriseRule
  <1>5. Follows(R6(p), R6(q), w, v) /\ Follows(R7(p), R7(q), w, v)
    BY SealedRule, FrameworkRule
  <1>6. \A i \in 1 .. 10 : i \in {1, 2, 3, 4, 5, 6, 7, 8, 9, 10}
    OBVIOUS
  <1>7. \A i \in 1 .. 10 : Follows(AllEligibility(p)[i], AllEligibility(q)[i], w, v)
    BY <1>2, <1>3, <1>4, <1>5, <1>6 DEF AllEligibility
  <1> QED
    BY <1>1, <1>7

LEMMA MergeFollows ==
    ASSUME Interpretation, NEW w, NEW v, Later(w, v), Agree("report.merge_group_present", w, v)
    PROVE  Follows(MergeUnsatisfied, MergeUnsatisfied, w, v)
  <1> DEFINE rules == AllEligibility(<<"m">>)
             has == AnyOf(<<"member-has-report">>, <<Eq(<<"member-project">>, "task.project_report_flag", 0),
                                                     Eq(<<"member-qc">>, "task.qc_report_flag", 0)>>)
             prereq == AllOf(<<"member-prereq">>, <<Eq(<<"member-completed">>, "task.status_code", 19), has>>)
             already == StatusTerminal(<<"member-already">>, "report.release_status")
  <1>1. ASSUME NEW x, NEW y, Later(x, y) PROVE Follows(MemberReady, MemberReady, x, y)
    <2>1. Follows(AnyOf(<<"member-any-eligibility">>, rules), AnyOf(<<"member-any-eligibility">>, rules), x, y)
      <3>1. rules # <<>>
        BY DEF AllEligibility
      <3>2. \A i \in DOMAIN rules : Follows(rules[i], rules[i], x, y)
        BY <1>1, EligibilityFollows
      <3> HIDE DEF rules
      <3> QED
        BY <3>1, <3>2, AllOfGrows
    <2>2. \A code \in {"task.status_code", "task.project_report_flag", "task.qc_report_flag"} :
            \A a, n : Follows(Eq(a, code, n), Eq(a, code, n), x, y)
      BY <1>1, CalmQuestions DEF Guards, Amounts
    <2>3. Follows(has, has, x, y)
      BY <2>2, PairGrows
    <2> HIDE DEF has
    <2>4. Follows(prereq, prereq, x, y)
      BY <2>2, <2>3, PairGrows
    <2>5. MemberReady = AllOf(<<"member-ready">>, <<prereq, AnyOf(<<"member-any-eligibility">>, rules)>>)
      BY DEF MemberReady, has
    <2> HIDE DEF prereq, rules
    <2> QED
      BY <2>1, <2>4, <2>5, PairGrows
  <1>2. \A key \in DOMAIN w.context.members : Follows(MemberReady, MemberReady, Within(w, key), Within(v, key))
    BY <1>1, LaterWithin
  <1>3. ASSUME NEW key \in DOMAIN w.context.members
        PROVE  Follows(already, already, Within(w, key), Within(v, key))
    <2>1. Agree("report.release_status", Within(w, key), Within(v, key))
      BY DEF Agree, Raw, Within, Later
    <2> QED
      BY <2>1, QuestionsAgree DEF StatusTerminal
  <1> DEFINE members == Overlay([alreadySatisfied |-> already],
                          AllMembersOf(<<"merge-all-members">>, "report.merge_group_member_ids", "pass", MemberReady))
             asked == IsTrue(<<"merge-present">>, "report.merge_group_present")
             notAll == NotOf(<<"merge-not-all">>, members)
  <1>4. Follows(members, members, w, v)
    <2>1. "report.merge_group_member_ids" \notin Guards \cup Amounts
      BY DEF Guards, Amounts
    <2> HIDE DEF already
    <2> QED
      BY <1>2, <1>3, <2>1, MembersGrow
  <1>5. Follows(asked, asked, w, v)
    BY QuestionsAgree
  <1>6. MergeUnsatisfied = AllOf(<<"merge-unsatisfied">>, <<asked, notAll>>)
    BY DEF MergeUnsatisfied
  <1> HIDE DEF members, asked
  <1>7. Follows(notAll, notAll, w, v)
    BY <1>4, NotOfGrows
  <1> HIDE DEF notAll
  <1> QED
    BY <1>5, <1>6, <1>7, PairGrows

-----------------------------------------------------------------------------
(* What a stage adds to a decision                                         *)

LEMMA MinIsLeast ==
    ASSUME NEW T, T \subseteq Nat, T # {}
    PROVE  Min(T) \in T /\ \A n \in T : Min(T) <= n
  <1> DEFINE Below == {ss \in Nat \X Nat : ss[1] < ss[2]}
  <1>1. OpToRel(<, Nat) = Below
    BY DEF OpToRel
  <1>2. PICK m \in T : \A n \in T : ~(<<n, m>> \in Below)
    BY <1>1, NatLessThanWellFounded, WFMin
  <1>3. \A n \in T : m <= n
    <2> TAKE n \in T
    <2>1. ~(n < m)
      BY <1>2
    <2> QED
      BY <2>1
  <1> QED
    BY <1>3 DEF Min

\* Where everything of a stage says what it said, or its rules have one outcome, a later
\* world changes nothing that was decided.
Decision(d)  == {"done", "outcome", "reason", "matched"} \subseteq DOMAIN d
LaterDecision(d, e) ==
    /\ Decision(d) /\ Decision(e)
    /\ (d.done /\ d.outcome = "INDETERMINATE") \/ (d.done = e.done /\ d.outcome = e.outcome)
OneOutcome(stage) == \A i, j \in DOMAIN stage.rules : stage.rules[i].outcome = stage.rules[j].outcome

LEMMA StepKeepsDecision ==
    ASSUME NEW stage, NEW r, NEW d, Decision(d)
    PROVE  Decision(StageStep(stage, r, d))
  BY DEF Decision, StageStep

LEMMA StepOfADecision ==
    ASSUME NEW stage, NEW r, NEW d, Decision(d), d.done
    PROVE  StageStep(stage, r, d) = d
  BY DEF StageStep

LEMMA StepThatHits ==
    ASSUME NEW stage, NEW r, NEW d, Decision(d), ~d.done, DOMAIN stage.rules \subseteq Nat,
           \E i \in Active(stage) : r[i] = "pass"
    PROVE  \E k \in Active(stage) :
             /\ r[k] = "pass"
             /\ StageStep(stage, r, d).outcome = stage.rules[k].outcome
             /\ StageStep(stage, r, d).matched = Append(d.matched, stage.rules[k].code)
             /\ StageStep(stage, r, d).done = (stage.stage # "eligibility")
  <1> DEFINE passing == {i \in Active(stage) : r[i] = "pass"}
  <1>1. Min(passing) \in passing
    BY MinIsLeast DEF Active
  <1>2. StageStep(stage, r, d) = [done    |-> stage.stage # "eligibility",
                                  outcome |-> stage.rules[Min(passing)].outcome,
                                  reason  |-> stage.rules[Min(passing)].reason,
                                  matched |-> Append(d.matched, stage.rules[Min(passing)].code)]
    BY DEF StageStep
  <1> HIDE DEF passing
  <1>3. /\ StageStep(stage, r, d).outcome = stage.rules[Min(passing)].outcome
        /\ StageStep(stage, r, d).matched = Append(d.matched, stage.rules[Min(passing)].code)
        /\ StageStep(stage, r, d).done = (stage.stage # "eligibility")
    BY <1>2
  <1> QED
    BY <1>1, <1>3 DEF passing

LEMMA StepWithoutHit ==
    ASSUME NEW stage, NEW r, NEW d, Decision(d), ~d.done, ~\E i \in Active(stage) : r[i] = "pass"
    PROVE  /\ (\E i \in Active(stage) : r[i] = "indeterminate") =>
                 StageStep(stage, r, d).done /\ StageStep(stage, r, d).outcome = "INDETERMINATE"
           /\ (\A i \in Active(stage) : r[i] # "indeterminate") => StageStep(stage, r, d) = d
  BY DEF StageStep, Decision

LEMMA StepGrows ==
    ASSUME NEW stage, DOMAIN stage.rules \subseteq Nat, NEW r, NEW s, NEW d, NEW e,
           LaterDecision(d, e),
           \A i \in Active(stage) : r[i] \in {"indeterminate", s[i]},
           OneOutcome(stage) \/ \A i \in Active(stage) : r[i] = s[i]
    PROVE  LaterDecision(StageStep(stage, r, d), StageStep(stage, s, e))
  <1> DEFINE D == StageStep(stage, r, d)
             E == StageStep(stage, s, e)
  <1>1. Decision(D) /\ Decision(E) /\ Decision(d) /\ Decision(e)
    BY StepKeepsDecision DEF LaterDecision
  <1>2. CASE d.done
    <2>1. D = d
      BY <1>1, <1>2, StepOfADecision
    <2>2. CASE d.outcome = "INDETERMINATE"
      BY <1>1, <1>2, <2>1, <2>2 DEF LaterDecision
    <2>3. CASE d.outcome # "INDETERMINATE"
      <3>1. e.done /\ d.outcome = e.outcome
        BY <1>2, <2>3 DEF LaterDecision
      <3>2. E = e
        BY <1>1, <3>1, StepOfADecision
      <3> QED
        BY <1>1, <1>2, <2>1, <3>1, <3>2 DEF LaterDecision
    <2> QED
      BY <2>2, <2>3
  <1>3. CASE ~d.done
    <2>1. e.done = d.done /\ d.outcome = e.outcome
      BY <1>3 DEF LaterDecision
    <2>2. CASE \E i \in Active(stage) : r[i] = "pass"
      <3>1. PICK k \in Active(stage) : /\ r[k] = "pass" /\ D.outcome = stage.rules[k].outcome
                                       /\ D.done = (stage.stage # "eligibility")
        BY <1>1, <1>3, <2>2, StepThatHits
      <3>2. \E i \in Active(stage) : s[i] = "pass"
        BY <3>1
      <3>3. PICK l \in Active(stage) : /\ s[l] = "pass" /\ E.outcome = stage.rules[l].outcome
                                       /\ E.done = (stage.stage # "eligibility")
        BY <1>1, <1>3, <2>1, <3>2, StepThatHits
      <3>4. D.outcome = E.outcome
        <4>1. CASE OneOutcome(stage)
          BY <3>1, <3>3, <4>1 DEF OneOutcome, Active
        <4>2. CASE \A i \in Active(stage) : r[i] = s[i]
          <5>1. {i \in Active(stage) : r[i] = "pass"} = {i \in Active(stage) : s[i] = "pass"}
            BY <4>2
          <5> QED
            BY <5>1, <1>3, <2>1, <2>2, <3>2 DEF StageStep
        <4> QED
          BY <4>1, <4>2
      <3> QED
        BY <1>1, <3>1, <3>3, <3>4 DEF LaterDecision
    <2>3. CASE ~\E i \in Active(stage) : r[i] = "pass"
      <3>1. CASE \E i \in Active(stage) : r[i] = "indeterminate"
        BY <1>1, <1>3, <2>3, <3>1, StepWithoutHit DEF LaterDecision
      <3>2. CASE \A i \in Active(stage) : r[i] # "indeterminate"
        <4>1. \A i \in Active(stage) : s[i] = r[i]
          BY <3>2
        <4>2. D = d
          BY <1>1, <1>3, <2>3, <3>2, StepWithoutHit
        <4>3. E = e
          BY <1>1, <1>3, <2>1, <2>3, <3>2, <4>1, StepWithoutHit
        <4> QED
          BY <1>1, <2>1, <4>2, <4>3 DEF LaterDecision
      <3> QED
        BY <3>1, <3>2
    <2> QED
      BY <2>2, <2>3
  <1> QED
    BY <1>2, <1>3

LEMMA FiveStages ==
    ASSUME NEW candidate, Len(candidate.stages) = 5, NEW results
    PROVE  LET d1 == StageStep(candidate.stages[1], results[1], Undecided(candidate))
               d2 == StageStep(candidate.stages[2], results[2], d1)
               d3 == StageStep(candidate.stages[3], results[3], d2)
               d4 == StageStep(candidate.stages[4], results[4], d3)
           IN  Decide(candidate, results) = StageStep(candidate.stages[5], results[5], d4)
  <1> DEFINE d0 == Undecided(candidate)
             st(k, d) == StageStep(candidate.stages[k], results[k], d)
             d1 == st(1, d0)
             d2 == st(2, d1)
             d3 == st(3, d2)
             d4 == st(4, d3)
             d5 == st(5, d4)
             eq(f) == f = [k \in 0 .. 5 |-> IF k = 0 THEN d0 ELSE st(k, f[k - 1])]
             g == [k \in 0 .. 5 |-> CASE k = 0 -> d0 [] k = 1 -> d1 [] k = 2 -> d2 [] k = 3 -> d3
                                      [] k = 4 -> d4 [] k = 5 -> d5]
             f == CHOOSE x : eq(x)
  <1>1. Decide(candidate, results) = f[5]
    BY DEF Decide
  <1> HIDE DEF st
  <1>2. g[0] = d0 /\ g[1] = d1 /\ g[2] = d2 /\ g[3] = d3 /\ g[4] = d4 /\ g[5] = d5
    OBVIOUS
  <1>3. eq(g)
    <2>1. \A k \in 0 .. 5 : k \in {0, 1, 2, 3, 4, 5}
      OBVIOUS
    <2>2. ASSUME NEW k \in 0 .. 5 PROVE g[k] = IF k = 0 THEN d0 ELSE st(k, g[k - 1])
      <3> HIDE DEF g
      <3>1. CASE k = 0 BY <1>2, <3>1
      <3>2. CASE k = 1 BY <1>2, <3>2
      <3>3. CASE k = 2 BY <1>2, <3>3
      <3>4. CASE k = 3 BY <1>2, <3>4
      <3>5. CASE k = 4 BY <1>2, <3>5
      <3>6. CASE k = 5 BY <1>2, <3>6
      <3> QED BY <2>1, <3>1, <3>2, <3>3, <3>4, <3>5, <3>6
    <2>3. g = [k \in 0 .. 5 |-> g[k]]
      OBVIOUS
    <2> HIDE DEF g
    <2> QED
      BY <2>2, <2>3
  <1>4. eq(f)
    <2> HIDE DEF eq, g
    <2> QED
      BY <1>3
  <1> HIDE DEF g
  <1>5. f[5] = d5
    <2> HIDE DEF f
    <2>1. \A k \in 0 .. 5 : f[k] = IF k = 0 THEN d0 ELSE st(k, f[k - 1])
      BY <1>4
    <2>2. f[0] = d0 BY <2>1
    <2>3. f[1] = d1 BY <2>1, <2>2
    <2>4. f[2] = d2 BY <2>1, <2>3
    <2>5. f[3] = d3 BY <2>1, <2>4
    <2>6. f[4] = d4 BY <2>1, <2>5
    <2> QED BY <2>1, <2>6
  <1> QED
    BY <1>1, <1>5 DEF st

-----------------------------------------------------------------------------
(* The two trees in a later world                                          *)

\* What the prerequisites ask of a task.
ReportAsked == {"task.status_code", "task.experiment_status_code", "task.offline_report_release_flag",
                "task.project_report_flag", "task.qc_report_flag"}
DataAsked == {"task.status_code", "task.data_lost_flag", "task.offline_data_release_flag",
              "task.raw_data_present_flag"}

LEMMA NotCompletedAgrees ==
    ASSUME Interpretation, NEW w, NEW v, Agree("task.status_code", w, v), NEW prefix
    PROVE  Follows(NotCompleted(prefix), NotCompleted(prefix), w, v)
  <1>1. /\ \A n, a : Follows(Ne(a, "task.status_code", n), Ne(a, "task.status_code", n), w, v)
        /\ \A a : Follows(IsNull(a, "task.status_code"), IsNull(a, "task.status_code"), w, v)
    BY QuestionsAgree
  <1> QED
    BY <1>1, PairGrows DEF NotCompleted

LEMMA ReportPrerequisitesAgree ==
    ASSUME Interpretation, NEW w, NEW v, \A code \in ReportAsked : Agree(code, w, v)
    PROVE  /\ DOMAIN ReportPrerequisites = 1 .. 6
           /\ \A i \in 1 .. 6 : /\ Follows(ReportPrerequisites[i].when, ReportPrerequisites[i].when, w, v)
                                /\ ReportPrerequisites[i].status = "active"
  <1> DEFINE absent(id) == AllOf(<<id, "both-absent">>, <<Eq(<<id, "project">>, "task.project_report_flag", 1),
                                                          Eq(<<id, "qc">>, "task.qc_report_flag", 1)>>)
             present(id) == AnyOf(<<id, "has-report">>, <<Eq(<<id, "project">>, "task.project_report_flag", 0),
                                                          Eq(<<id, "qc">>, "task.qc_report_flag", 0)>>)
             pending == AllOf(<<"report-pending">>, <<NotOf(<<"not-has-report">>, present("pending-has")),
                                                      NotOf(<<"not-both-absent">>, absent("pending-no"))>>)
  <1>1. \A code \in ReportAsked : \A a, n : Follows(Eq(a, code, n), Eq(a, code, n), w, v)
    BY QuestionsAgree
  <1>2. \A a, n : /\ Follows(Eq(a, "task.experiment_status_code", n), Eq(a, "task.experiment_status_code", n), w, v)
                  /\ Follows(Eq(a, "task.offline_report_release_flag", n),
                             Eq(a, "task.offline_report_release_flag", n), w, v)
                  /\ Follows(Eq(a, "task.project_report_flag", n), Eq(a, "task.project_report_flag", n), w, v)
                  /\ Follows(Eq(a, "task.qc_report_flag", n), Eq(a, "task.qc_report_flag", n), w, v)
    BY <1>1 DEF ReportAsked
  <1>3. Follows(NotCompleted("report"), NotCompleted("report"), w, v)
    BY NotCompletedAgrees DEF ReportAsked
  <1>4. \A id : Follows(absent(id), absent(id), w, v) /\ Follows(present(id), present(id), w, v)
    BY <1>2, PairGrows
  <1> HIDE DEF absent, present
  <1>5. Follows(pending, pending, w, v)
    <2>1. /\ Follows(NotOf(<<"not-has-report">>, present("pending-has")),
                     NotOf(<<"not-has-report">>, present("pending-has")), w, v)
          /\ Follows(NotOf(<<"not-both-absent">>, absent("pending-no")),
                     NotOf(<<"not-both-absent">>, absent("pending-no")), w, v)
      BY <1>4, NotOfGrows
    <2> QED
      BY <2>1, PairGrows
  <1> DEFINE r == ReportPrerequisites
  <1>6. /\ DOMAIN r = 1 .. 6
        /\ r[1].when = NotCompleted("report") /\ r[2].when = Eq(<<"exp-2">>, "task.experiment_status_code", 2)
        /\ r[3].when = Eq(<<"exp-7">>, "task.experiment_status_code", 7)
        /\ r[4].when = Eq(<<"offline-0">>, "task.offline_report_release_flag", 0)
        /\ r[5].when = absent("none") /\ r[6].when = pending
        /\ r[1].status = "active" /\ r[2].status = "active" /\ r[3].status = "active"
        /\ r[4].status = "active" /\ r[5].status = "active" /\ r[6].status = "active"
    BY DEF ReportPrerequisites, Match, Rule, absent, present
  <1>7. \A i \in 1 .. 6 : i \in {1, 2, 3, 4, 5, 6}
    OBVIOUS
  <1> HIDE DEF r, pending
  <1>8. \A i \in 1 .. 6 : Follows(r[i].when, r[i].when, w, v) /\ r[i].status = "active"
    BY <1>2, <1>3, <1>4, <1>5, <1>6, <1>7
  <1> QED
    BY <1>6, <1>8 DEF r

LEMMA DataPrerequisitesAgree ==
    ASSUME Interpretation, NEW w, NEW v, \A code \in DataAsked : Agree(code, w, v)
    PROVE  /\ DOMAIN DataPrerequisites = 1 .. 5
           /\ \A i \in 1 .. 5 : /\ Follows(DataPrerequisites[i].when, DataPrerequisites[i].when, w, v)
                                /\ DataPrerequisites[i].status = "active"
  <1> DEFINE absent(id)  == Eq(id, "task.raw_data_present_flag", 1)
             present(id) == Eq(id, "task.raw_data_present_flag", 0)
             pending == AllOf(<<"raw-pending">>,
                          <<NotOf(<<"not-raw-present">>, present(<<"raw-present">>)),
                            NotOf(<<"not-raw-absent">>, absent(<<"raw-absent-pending">>))>>)
  <1>1. \A code \in DataAsked : \A a, n : Follows(Eq(a, code, n), Eq(a, code, n), w, v)
    BY QuestionsAgree
  <1>2. \A a, n : /\ Follows(Eq(a, "task.data_lost_flag", n), Eq(a, "task.data_lost_flag", n), w, v)
                  /\ Follows(Eq(a, "task.offline_data_release_flag", n),
                             Eq(a, "task.offline_data_release_flag", n), w, v)
                  /\ Follows(Eq(a, "task.raw_data_present_flag", n), Eq(a, "task.raw_data_present_flag", n), w, v)
    BY <1>1 DEF DataAsked
  <1>3. Follows(NotCompleted("data"), NotCompleted("data"), w, v)
    BY NotCompletedAgrees DEF DataAsked
  <1>4. \A id : Follows(absent(id), absent(id), w, v) /\ Follows(present(id), present(id), w, v)
    BY <1>2
  <1> HIDE DEF absent, present
  <1>5. Follows(pending, pending, w, v)
    <2>1. /\ Follows(NotOf(<<"not-raw-present">>, present(<<"raw-present">>)),
                     NotOf(<<"not-raw-present">>, present(<<"raw-present">>)), w, v)
          /\ Follows(NotOf(<<"not-raw-absent">>, absent(<<"raw-absent-pending">>)),
                     NotOf(<<"not-raw-absent">>, absent(<<"raw-absent-pending">>)), w, v)
      BY <1>4, NotOfGrows
    <2> QED
      BY <2>1, PairGrows
  <1> DEFINE r == DataPrerequisites
  <1>6. /\ DOMAIN r = 1 .. 5
        /\ r[1].when = NotCompleted("data") /\ r[2].when = Eq(<<"data-lost-1">>, "task.data_lost_flag", 1)
        /\ r[3].when = Eq(<<"offline-data-1">>, "task.offline_data_release_flag", 1)
        /\ r[4].when = absent(<<"raw-absent">>) /\ r[5].when = pending
        /\ r[1].status = "active" /\ r[2].status = "active" /\ r[3].status = "active"
        /\ r[4].status = "active" /\ r[5].status = "active"
    BY DEF DataPrerequisites, Match, Rule, absent, present
  <1>7. \A i \in 1 .. 5 : i \in {1, 2, 3, 4, 5}
    OBVIOUS
  <1> HIDE DEF r, pending
  <1>8. \A i \in 1 .. 5 : Follows(r[i].when, r[i].when, w, v) /\ r[i].status = "active"
    BY <1>2, <1>3, <1>4, <1>5, <1>6, <1>7
  <1> QED
    BY <1>6, <1>8 DEF r

LEMMA DataRulesFollow ==
    ASSUME Interpretation, NEW w, NEW v, Later(w, v)
    PROVE  /\ Follows(D0, D0, w, v) /\ Follows(D1, D1, w, v) /\ Follows(D2, D2, w, v)
           /\ Follows(D3, D3, w, v) /\ Follows(D4, D4, w, v)
  <1> USE DEF Guards, Amounts
  <1>1. Follows(D0, D0, w, v) /\ Follows(D2, D2, w, v)
    BY CalmQuestions DEF D0, D2
  <1>2. Follows(D1, D1, w, v)
    BY AmountQuestionsGrow DEF D1
  <1>3. Follows(D3, D3, w, v)
    BY CalmQuestions DEF D3
  <1> DEFINE cell(id) == InList(id, "task.product_type_code", CellCodes)
             known(id, code, default, n) ==
               Asks(id, Op("coalesce", <<Fact(code), Lit(Whole(default))>>), "eq", Lit(Whole(n)), "fail")
             complete == IsTrue(<<"d4-seq-complete">>, "order.sequencing_services_complete")
             experiment == AnyOf(<<"d4-experiment-complete">>,
               <<known(<<"d4-closed-flag">>, "order.closed_flag", 1, 0),
                 known(<<"d4-terminated">>, "order.experiment_run_status", 0, 1), complete>>)
             pay == Open(<<"d4-pay">>, ArrivalWithEpsilon, "gte", CompletedAmount("order.data_release_amount"))
             extra == AllOf(<<"d4-single-extra">>, <<cell(<<"d4-single-cell-extra">>), experiment>>)
             other == NotOf(<<"d4-not-single-cell">>, cell(<<"d4-single-cell">>))
             gate == AnyOf(<<"d4-cell-gate">>, <<other, extra>>)
  <1>4. \A id : Follows(cell(id), cell(id), w, v)
    BY CalmQuestions
  <1>5. ASSUME NEW id, NEW code \in {"order.closed_flag", "order.experiment_run_status"}, NEW default, NEW n
        PROVE  Follows(known(id, code, default, n), known(id, code, default, n), w, v)
    <2> DEFINE es == <<Fact(code), Lit(Whole(default))>>
    <2>1. Reads(Fact(code), w) = Reads(Fact(code), v)
      BY LaterAgrees, FactAgrees
    <2>2. \A m : Reads(Lit(Whole(m)), w) = Reads(Lit(Whole(m)), v)
      BY LiteralAgrees, KnownLiterals
    <2>3. Values(es, w) = Values(es, v) /\ Len(es) = 2
      BY <2>1, <2>2 DEF Values
    <2> HIDE DEF es
    <2>4. /\ Reads(Op("coalesce", es), w) = V31!Combined(Op("coalesce", es), Values(es, w))
          /\ Reads(Op("coalesce", es), v) = V31!Combined(Op("coalesce", es), Values(es, v))
      BY <2>3, OpReads
    <2>5. "eq" \notin Unary
      BY DEF Unary
    <2>6. Follows(Asks(id, Op("coalesce", es), "eq", Lit(Whole(n)), "fail"),
                  Asks(id, Op("coalesce", es), "eq", Lit(Whole(n)), "fail"), w, v)
      BY <2>2, <2>3, <2>4, <2>5, QuestionGrows
    <2> QED
      BY <2>6 DEF es
  <1>6. Follows(complete, complete, w, v)
    BY CalmQuestions
  <1> HIDE DEF complete, known
  <1>7. Follows(experiment, experiment, w, v)
    BY <1>5, <1>6, TripleGrows
  <1> HIDE DEF experiment
  <1>8. Follows(extra, extra, w, v)
    BY <1>4, <1>7, PairGrows
  <1>9. Follows(other, other, w, v)
    BY <1>4, NotOfGrows
  <1> HIDE DEF other, extra
  <1>10. Follows(gate, gate, w, v)
    BY <1>8, <1>9, PairGrows
  <1>11. Follows(pay, pay, w, v)
    BY AmountQuestionsGrow
  <1>12. D4 = AllOf(<<"d4-all">>, <<pay, gate>>)
    BY DEF D4, other, extra, experiment, known, complete
  <1> HIDE DEF gate, pay
  <1>13. Follows(D4, D4, w, v)
    BY <1>10, <1>11, <1>12, PairGrows
  <1> QED
    BY <1>1, <1>2, <1>3, <1>13

-----------------------------------------------------------------------------
(* What a structure says in a later world                                  *)

\* What is known when a structure is interpreted.
World(of, facts, about) ==
    [context    |-> [facts |-> facts,
                     runtime |-> Runtime(Trees[of].candidate, [evaluationDate |-> IsoDate(EvalDate)]),
                     members |-> about],
     facts      |-> FactMap(Trees[of].catalog),
     parameters |-> Trees[of].candidate.parameters]
\* What the rules of a stage come to, and the five results in turn.
Saying(stage, w) == [i \in Active(stage) |-> Says(stage.rules[i].when, w)]
Decided5(candidate, w) ==
    LET d1 == StageStep(candidate.stages[1], Saying(candidate.stages[1], w), Undecided(candidate))
        d2 == StageStep(candidate.stages[2], Saying(candidate.stages[2], w), d1)
        d3 == StageStep(candidate.stages[3], Saying(candidate.stages[3], w), d2)
        d4 == StageStep(candidate.stages[4], Saying(candidate.stages[4], w), d3)
    IN  StageStep(candidate.stages[5], Saying(candidate.stages[5], w), d4)

LEMMA ShapeOfTheTrees ==
    /\ Trees["report"].candidate.stages = ReportStages /\ Trees["data"].candidate.stages = DataStages
    /\ \A of \in {"report", "data"} :
          /\ Trees[of].candidate.issues = <<>> /\ Len(Trees[of].candidate.stages) = 5
          /\ DOMAIN Trees[of].candidate.stages = 1 .. 5
          /\ Undecided(Trees[of].candidate).outcome = "WAITING_CONDITIONS"
    /\ DOMAIN Trees = {"report", "data"}
  <1>1. \A set, catalog, stages, parameters, identity :
          /\ BuildCandidate(set, catalog, stages, parameters, identity).stages = stages
          /\ BuildCandidate(set, catalog, stages, parameters, identity).issues = <<>>
          /\ BuildCandidate(set, catalog, stages, parameters, identity).defaultOutcome = "WAITING_CONDITIONS"
    BY DEF BuildCandidate
  <1>2. /\ Trees["report"].candidate = ReportCandidate(Revision)
        /\ Trees["data"].candidate = DataCandidate(Revision)
    BY DEF Trees
  <1>3. /\ ReportCandidate(Revision).stages = ReportStages /\ ReportCandidate(Revision).issues = <<>>
        /\ DataCandidate(Revision).stages = DataStages /\ DataCandidate(Revision).issues = <<>>
        /\ ReportCandidate(Revision).defaultOutcome = "WAITING_CONDITIONS"
        /\ DataCandidate(Revision).defaultOutcome = "WAITING_CONDITIONS"
    BY <1>1 DEF ReportCandidate, DataCandidate
  <1>4. /\ Len(ReportStages) = 5 /\ Len(DataStages) = 5
        /\ DOMAIN ReportStages = 1 .. 5 /\ DOMAIN DataStages = 1 .. 5
    BY DEF ReportStages, DataStages
  <1>5. \A of \in {"report", "data"} :
          /\ Trees[of].candidate.issues = <<>> /\ Len(Trees[of].candidate.stages) = 5
          /\ DOMAIN Trees[of].candidate.stages = 1 .. 5
    BY <1>2, <1>3, <1>4
  <1>6. \A of \in {"report", "data"} : Undecided(Trees[of].candidate).outcome = "WAITING_CONDITIONS"
    BY <1>2, <1>3 DEF Undecided
  <1>7. DOMAIN Trees = {"report", "data"}
    BY DEF Trees
  <1> QED
    BY <1>2, <1>3, <1>5, <1>6, <1>7

LEMMA InterpretedIsDecided ==
    ASSUME NEW of \in {"report", "data"}, NEW facts, NEW about
    PROVE  /\ GivenFits(facts, FactMap(Trees[of].catalog)) =>
                Interpreted(of, facts, about) = Decided5(Trees[of].candidate, World(of, facts, about))
           /\ ~GivenFits(facts, FactMap(Trees[of].catalog)) => Interpreted(of, facts, about).outcome = "refused"
  <1> DEFINE candidate == Trees[of].candidate
             w == World(of, facts, about)
             results == ResultsOf(candidate, w.context, w.facts)
  <1>1. /\ candidate.issues = <<>> /\ Len(candidate.stages) = 5 /\ DOMAIN candidate.stages = 1 .. 5
    BY ShapeOfTheTrees
  <1>2. /\ w.context = [facts |-> facts, runtime |-> Runtime(candidate, [evaluationDate |-> IsoDate(EvalDate)]),
                        members |-> about]
        /\ w.facts = FactMap(Trees[of].catalog) /\ w.parameters = candidate.parameters
    BY DEF World
  <1>3. Interpreted(of, facts, about) =
          IF ~GivenFits(facts, FactMap(Trees[of].catalog))
          THEN [BlockedDecision EXCEPT !.outcome = "refused", !.reason = "GIVEN_INVALID"]
          ELSE Decide(candidate, results)
    BY <1>1, <1>2 DEF Interpreted, Evaluate, Blocked
  <1>4. \A n \in 1 .. 5 : results[n] = Saying(candidate.stages[n], w)
    BY <1>1, <1>2 DEF ResultsOf, Saying, Says
  <1> HIDE DEF candidate, w, results
  <1>5. Decide(candidate, results) = Decided5(candidate, w)
    BY <1>1, <1>4, FiveStages DEF Decided5
  <1>6. [BlockedDecision EXCEPT !.outcome = "refused", !.reason = "GIVEN_INVALID"].outcome = "refused"
    BY DEF BlockedDecision
  <1> QED
    BY <1>3, <1>5, <1>6 DEF candidate, w

\* A stage over a later world.
StageFollows(stage, w, v) ==
    /\ DOMAIN stage.rules \subseteq Nat
    /\ \A i \in Active(stage) : Follows(stage.rules[i].when, stage.rules[i].when, w, v)
    /\ OneOutcome(stage) \/ \A i \in Active(stage) : Follows(stage.rules[i].when, stage.rules[i].when, v, w)

LEMMA DecisionFollows ==
    ASSUME NEW candidate, NEW w, NEW v, \A n \in 1 .. 5 : StageFollows(candidate.stages[n], w, v)
    PROVE  LaterDecision(Decided5(candidate, w), Decided5(candidate, v))
  <1>1. ASSUME NEW n \in 1 .. 5, NEW d, NEW e, LaterDecision(d, e)
        PROVE  LaterDecision(StageStep(candidate.stages[n], Saying(candidate.stages[n], w), d),
                             StageStep(candidate.stages[n], Saying(candidate.stages[n], v), e))
    <2> DEFINE stage == candidate.stages[n]
               r == Saying(stage, w)
               s == Saying(stage, v)
    <2>1. \A i \in Active(stage) : r[i] = Says(stage.rules[i].when, w) /\ s[i] = Says(stage.rules[i].when, v)
      BY DEF Saying
    <2>2. StageFollows(stage, w, v)
      OBVIOUS
    <2> HIDE DEF stage, r, s
    <2>5. DOMAIN stage.rules \subseteq Nat /\ \A i \in Active(stage) : r[i] \in {"indeterminate", s[i]}
      BY <2>1, <2>2 DEF StageFollows, Follows
    <2>6. ASSUME ~OneOutcome(stage), NEW i \in Active(stage) PROVE r[i] = s[i]
      <3>1. /\ Follows(stage.rules[i].when, stage.rules[i].when, w, v)
            /\ Follows(stage.rules[i].when, stage.rules[i].when, v, w)
        BY <2>2, <2>6 DEF StageFollows
      <3> QED
        BY <2>1, <3>1 DEF Follows
    <2>3. /\ DOMAIN stage.rules \subseteq Nat
          /\ \A i \in Active(stage) : r[i] \in {"indeterminate", s[i]}
          /\ OneOutcome(stage) \/ \A i \in Active(stage) : r[i] = s[i]
      BY <2>5, <2>6
    <2>4. LaterDecision(StageStep(stage, r, d), StageStep(stage, s, e))
      BY <1>1, <2>3, StepGrows
    <2> QED
      BY <2>4 DEF stage, r, s
  <1>2. LaterDecision(Undecided(candidate), Undecided(candidate))
    BY DEF LaterDecision, Decision, Undecided
  <1> DEFINE st(n, d, u) == StageStep(candidate.stages[n], Saying(candidate.stages[n], u), d)
  <1>3. \A n \in 1 .. 5 : \A d, e : LaterDecision(d, e) => LaterDecision(st(n, d, w), st(n, e, v))
    BY <1>1
  <1>4. \A u : Decided5(candidate, u) =
          st(5, st(4, st(3, st(2, st(1, Undecided(candidate), u), u), u), u), u)
    BY DEF Decided5
  <1> HIDE DEF st
  <1> QED
    BY <1>2, <1>3, <1>4

\* A world in which nothing but amounts and members is new.
OnlyMore(w, v) == Later(w, v) /\ \A code \in Guards : Agree(code, w, v)

LEMMA ReportStagesFollow ==
    ASSUME Interpretation, NEW w, NEW v, OnlyMore(w, v)
    PROVE  \A n \in 1 .. 5 : StageFollows(ReportStages[n], w, v)
  <1>1. \A code : code \notin Amounts => Agree(code, w, v) /\ Agree(code, v, w)
    BY LaterAgrees DEF OnlyMore, Agree
  <1>2. StageFollows(ReportStages[1], w, v)
    <2> DEFINE when == StatusTerminal(<<"status-terminal">>, "report.release_status")
    <2>1. Follows(when, when, w, v)
      BY <1>1, QuestionsAgree DEF StatusTerminal, Amounts
    <2>2. /\ DOMAIN ReportStages[1].rules = {1} /\ ReportStages[1].rules[1].when = when
      BY DEF ReportStages, Match, Rule
    <2> HIDE DEF when
    <2> QED
      BY <2>1, <2>2 DEF StageFollows, OneOutcome, Active
  <1>3. StageFollows(ReportStages[2], w, v)
    <2>1. /\ ReportStages[2].rules = ReportPrerequisites
      BY DEF ReportStages
    <2>2. \A code \in ReportAsked : Agree(code, w, v) /\ Agree(code, v, w)
      BY <1>1 DEF ReportAsked, Amounts
    <2>3. /\ DOMAIN ReportPrerequisites = 1 .. 6
          /\ \A i \in 1 .. 6 : Follows(ReportPrerequisites[i].when, ReportPrerequisites[i].when, w, v)
      BY <2>2, ReportPrerequisitesAgree
    <2>4. \A i \in 1 .. 6 : Follows(ReportPrerequisites[i].when, ReportPrerequisites[i].when, v, w)
      BY <2>2, ReportPrerequisitesAgree
    <2> QED
      BY <2>1, <2>3, <2>4 DEF StageFollows, Active
  <1>4. StageFollows(ReportStages[3], w, v)
    <2> DEFINE codes == <<"R0", "R1", "R9", "R4", "R2", "R3", "R8", "R5", "R6", "R7">>
    <2>1. ReportStages[3].rules = [i \in DOMAIN codes |-> Ready(codes[i], 10 * i, AllEligibility(<<>>)[i])]
      BY DEF ReportStages
    <2>2. DOMAIN codes = 1 .. 10
      OBVIOUS
    <2> HIDE DEF codes
    <2>3. DOMAIN ReportStages[3].rules = 1 .. 10
      BY <2>1, <2>2
    <2>4. \A i \in 1 .. 10 : /\ ReportStages[3].rules[i].when = AllEligibility(<<>>)[i]
                             /\ ReportStages[3].rules[i].outcome = "READY"
      BY <2>1, <2>2 DEF Ready, Rule
    <2>5. \A i \in 1 .. 10 : Follows(AllEligibility(<<>>)[i], AllEligibility(<<>>)[i], w, v)
      BY EligibilityFollows DEF OnlyMore
    <2> DEFINE stage == ReportStages[3]
    <2>6. \A i \in 1 .. 10 : Follows(stage.rules[i].when, stage.rules[i].when, w, v)
      BY <2>4, <2>5
    <2>7. DOMAIN stage.rules = 1 .. 10 /\ \A i \in 1 .. 10 : stage.rules[i].outcome = "READY"
      BY <2>3, <2>4
    <2> HIDE DEF stage
    <2>8. OneOutcome(stage)
      BY <2>7 DEF OneOutcome
    <2>9. StageFollows(stage, w, v)
      BY <2>6, <2>7, <2>8 DEF StageFollows, Active
    <2> QED
      BY <2>9 DEF stage
  <1>5. StageFollows(ReportStages[4], w, v)
    <2>1. Follows(MergeUnsatisfied, MergeUnsatisfied, w, v)
      BY MergeFollows, <1>1 DEF OnlyMore, Amounts
    <2>2. /\ DOMAIN ReportStages[4].rules = {1} /\ ReportStages[4].rules[1].when = MergeUnsatisfied
      BY DEF ReportStages, Match, Rule
    <2> QED
      BY <2>1, <2>2 DEF StageFollows, OneOutcome, Active
  <1>6. StageFollows(ReportStages[5], w, v)
    <2> DEFINE when == IsTrue(<<"oa-in-process">>, "task.in_project_report_release_oa")
    <2>1. Follows(when, when, w, v)
      BY <1>1, QuestionsAgree DEF Amounts
    <2>2. /\ DOMAIN ReportStages[5].rules = {1} /\ ReportStages[5].rules[1].when = when
      BY DEF ReportStages, Match, Rule
    <2> HIDE DEF when
    <2> QED
      BY <2>1, <2>2 DEF StageFollows, OneOutcome, Active
  <1>7. \A n \in 1 .. 5 : n \in {1, 2, 3, 4, 5}
    OBVIOUS
  <1> QED
    BY <1>2, <1>3, <1>4, <1>5, <1>6, <1>7

LEMMA DataStagesFollow ==
    ASSUME Interpretation, NEW w, NEW v, OnlyMore(w, v)
    PROVE  \A n \in 1 .. 5 : StageFollows(DataStages[n], w, v)
  <1>1. \A code : code \notin Amounts => Agree(code, w, v) /\ Agree(code, v, w)
    BY LaterAgrees DEF OnlyMore, Agree
  <1>2. StageFollows(DataStages[1], w, v)
    <2> DEFINE when == StatusTerminal(<<"data-status-terminal">>, "data.release_status")
    <2>1. Follows(when, when, w, v)
      BY <1>1, QuestionsAgree DEF StatusTerminal, Amounts
    <2>2. /\ DOMAIN DataStages[1].rules = {1} /\ DataStages[1].rules[1].when = when
      BY DEF DataStages, DataGuards, Match, Rule
    <2> HIDE DEF when
    <2> QED
      BY <2>1, <2>2 DEF StageFollows, OneOutcome, Active
  <1>3. StageFollows(DataStages[2], w, v)
    <2>1. /\ DataStages[2].rules = DataPrerequisites
      BY DEF DataStages
    <2>2. \A code \in DataAsked : Agree(code, w, v) /\ Agree(code, v, w)
      BY <1>1 DEF DataAsked, Amounts
    <2>3. /\ DOMAIN DataPrerequisites = 1 .. 5
          /\ \A i \in 1 .. 5 : Follows(DataPrerequisites[i].when, DataPrerequisites[i].when, w, v)
      BY <2>2, DataPrerequisitesAgree
    <2>4. \A i \in 1 .. 5 : Follows(DataPrerequisites[i].when, DataPrerequisites[i].when, v, w)
      BY <2>2, DataPrerequisitesAgree
    <2> QED
      BY <2>1, <2>3, <2>4 DEF StageFollows, Active
  <1>4. StageFollows(DataStages[3], w, v)
    <2> DEFINE r == DataStages[3].rules
    <2>1. r = <<Ready("D0", 10, D0), Ready("D1", 20, D1), Ready("D2", 30, D2),
                Ready("D3", 40, D3), Ready("D4", 50, D4)>>
      BY DEF DataStages
    <2>2. DOMAIN r = 1 .. 5
      BY <2>1
    <2>3. \A c, p, n : Ready(c, p, n).when = n /\ Ready(c, p, n).outcome = "READY"
      BY DEF Ready, Rule
    <2>4. /\ r[1].when = D0 /\ r[2].when = D1 /\ r[3].when = D2 /\ r[4].when = D3 /\ r[5].when = D4
          /\ r[1].outcome = "READY" /\ r[2].outcome = "READY" /\ r[3].outcome = "READY"
          /\ r[4].outcome = "READY" /\ r[5].outcome = "READY"
      BY <2>1, <2>3
    <2>5. \A i \in 1 .. 5 : i \in {1, 2, 3, 4, 5}
      OBVIOUS
    <2>6. /\ Follows(D0, D0, w, v) /\ Follows(D1, D1, w, v) /\ Follows(D2, D2, w, v)
          /\ Follows(D3, D3, w, v) /\ Follows(D4, D4, w, v)
      BY DataRulesFollow DEF OnlyMore
    <2> HIDE DEF r
    <2>7. \A i \in 1 .. 5 : Follows(r[i].when, r[i].when, w, v) /\ r[i].outcome = "READY"
      BY <2>4, <2>5, <2>6
    <2>8. Active(DataStages[3]) \subseteq 1 .. 5
      BY <2>2 DEF Active, r
    <2>9. OneOutcome(DataStages[3])
      <3>1. DataStages[3].rules = r
        BY DEF r
      <3> QED
        BY <2>2, <2>7, <3>1 DEF OneOutcome
    <2> QED
      BY <2>2, <2>7, <2>8, <2>9 DEF StageFollows, r
  <1>5. StageFollows(DataStages[4], w, v)
    <2>1. DataStages[4].rules = << >>
      BY DEF DataStages
    <2>2. DOMAIN DataStages[4].rules = {}
      BY <2>1
    <2> QED
      BY <2>2 DEF StageFollows, OneOutcome, Active
  <1>6. StageFollows(DataStages[5], w, v)
    <2> DEFINE when == IsTrue(<<"data-oa-in-process">>, "task.in_raw_data_release_oa")
    <2>1. Follows(when, when, w, v)
      BY <1>1, QuestionsAgree DEF Amounts
    <2>2. /\ DOMAIN DataStages[5].rules = {1} /\ DataStages[5].rules[1].when = when
      BY DEF DataStages, Match, Rule
    <2> HIDE DEF when
    <2> QED
      BY <2>1, <2>2 DEF StageFollows, OneOutcome, Active
  <1>7. \A n \in 1 .. 5 : n \in {1, 2, 3, 4, 5}
    OBVIOUS
  <1> QED
    BY <1>2, <1>3, <1>4, <1>5, <1>6, <1>7

-----------------------------------------------------------------------------
(* Amounts never change a decision                                         *)

LEMMA MoreIsLater ==
    ASSUME NEW of, NEW facts, NEW more, NEW about, NEW further,
           \A key \in DOMAIN about : key \in DOMAIN further /\ further[key] = about[key],
           \A code \in DOMAIN facts : code \in DOMAIN more /\ more[code] = facts[code],
           \A code \in DOMAIN more : code \in DOMAIN facts \/ code \in Amounts
    PROVE  OnlyMore(World(of, facts, about), World(of, more, further))
  <1> DEFINE w == World(of, facts, about)
             v == World(of, more, further)
  <1>1. /\ w.facts = v.facts /\ w.parameters = v.parameters
        /\ DOMAIN w.context = {"facts", "runtime", "members"} /\ DOMAIN v.context = {"facts", "runtime", "members"}
        /\ w.context.runtime = v.context.runtime
        /\ w.context.facts = facts /\ v.context.facts = more
        /\ w.context.members = about /\ v.context.members = further
    BY DEF World
  <1> HIDE DEF w, v
  <1>2. \A code : Raw(code, w) = Raw(code, v) \/ (code \in Amounts /\ Raw(code, w) = Missing)
    BY <1>1 DEF Raw
  <1>3. Later(w, v)
    BY <1>1, <1>2 DEF Later
  <1>4. Guards \cap Amounts = {}
    BY DEF Guards, Amounts
  <1>5. OnlyMore(w, v)
    BY <1>1, <1>2, <1>3, <1>4 DEF OnlyMore, Agree
  <1> QED
    BY <1>5 DEF w, v

LEMMA MoreFollows ==
    ASSUME Interpretation, NEW of \in {"report", "data"}, NEW facts, NEW more, NEW about, NEW further,
           \A key \in DOMAIN about : key \in DOMAIN further /\ further[key] = about[key],
           \A code \in DOMAIN facts : code \in DOMAIN more /\ more[code] = facts[code],
           \A code \in DOMAIN more : code \in DOMAIN facts \/ code \in Amounts,
           GivenFits(facts, FactMap(Trees[of].catalog)) = GivenFits(more, FactMap(Trees[of].catalog)),
           Interpreted(of, facts, about).outcome # "INDETERMINATE"
    PROVE  Interpreted(of, more, further).outcome = Interpreted(of, facts, about).outcome
  <1> DEFINE w == World(of, facts, about)
             v == World(of, more, further)
             candidate == Trees[of].candidate
  <1>1. CASE ~GivenFits(facts, FactMap(Trees[of].catalog))
    BY <1>1, InterpretedIsDecided
  <1>2. CASE GivenFits(facts, FactMap(Trees[of].catalog))
    <2>1. Interpreted(of, facts, about) = Decided5(candidate, w) /\ Interpreted(of, more, further) = Decided5(candidate, v)
      BY <1>2, InterpretedIsDecided
    <2>2. OnlyMore(w, v)
      BY MoreIsLater
    <2> HIDE DEF w, v
    <2>3. \A n \in 1 .. 5 : StageFollows(candidate.stages[n], w, v)
      <3>1. CASE of = "report"
        BY <2>2, <3>1, ReportStagesFollow, ShapeOfTheTrees
      <3>2. CASE of = "data"
        BY <2>2, <3>2, DataStagesFollow, ShapeOfTheTrees
      <3> QED
        BY <3>1, <3>2
    <2>4. LaterDecision(Decided5(candidate, w), Decided5(candidate, v))
      BY <2>3, DecisionFollows
    <2> QED
      BY <2>1, <2>4 DEF LaterDecision
  <1> QED
    BY <1>1, <1>2

\* What is known was given or asked for, and the verdict is of what is known.
DecisionInv ==
    /\ treeKind \in {"report", "data"}
    /\ verdict = Interpreted(treeKind, factsKnown, membersKnown)
    /\ \E scenario \in Scenarios : scenario.tree = treeKind /\ factsOpen \subseteq scenario.open
    /\ factsOpen \cap DOMAIN factsKnown = {}

LEMMA InitDecision == DecisionInit => DecisionInv
  <1> SUFFICES ASSUME DecisionInit PROVE DecisionInv
    OBVIOUS
  <1>1. PICK scenario \in Scenarios :
          /\ treeKind = scenario.tree /\ factsOpen = scenario.open /\ membersKnown = <<>>
          /\ factsKnown = Without(scenario.given, factsOpen)
          /\ verdict = Interpreted(treeKind, factsKnown, membersKnown)
    BY DEF DecisionInit
  <1>2. treeKind \in {"report", "data"}
    BY <1>1, OpenFactsFit, ShapeOfTheTrees
  <1>3. factsOpen \cap DOMAIN factsKnown = {}
    BY <1>1 DEF Without
  <1> QED
    BY <1>1, <1>2, <1>3 DEF DecisionInv

LEMMA LearnedFacts ==
    ASSUME DecisionInv, NEW code \in factsOpen, NEW value \in Possible[code] \cup {Null}, Learn(code, value)
    PROVE  /\ DOMAIN factsKnown' = DOMAIN factsKnown \cup {code} /\ code \notin DOMAIN factsKnown
           /\ \A c \in DOMAIN factsKnown : factsKnown'[c] = factsKnown[c]
           /\ factsKnown'[code] = value
           /\ GivenFits(factsKnown, FactMap(Trees[treeKind].catalog))
                = GivenFits(factsKnown', FactMap(Trees[treeKind].catalog))
  <1> DEFINE facts == FactMap(Trees[treeKind].catalog)
             one == [c \in {code} |-> value]
  <1>1. factsKnown' = Overlay(one, factsKnown)
    BY DEF Learn
  <1>2. /\ DOMAIN factsKnown' = DOMAIN factsKnown \cup {code} /\ code \notin DOMAIN factsKnown
        /\ \A c \in DOMAIN factsKnown : factsKnown'[c] = factsKnown[c]
        /\ factsKnown'[code] = value
    BY <1>1 DEF Overlay, DecisionInv
  <1>3. GivenFits(one, facts)
    BY OpenFactsFit DEF DecisionInv
  <1>4. DOMAIN one = {code} /\ one[code] = value
    OBVIOUS
  <1> HIDE DEF facts, one
  <1>5. code \in DOMAIN facts /\ FitsFact(value, facts[code])
    BY <1>3, <1>4 DEF GivenFits
  <1>6. GivenFits(factsKnown, facts) => GivenFits(factsKnown', facts)
    BY <1>2, <1>5 DEF GivenFits
  <1>7. GivenFits(factsKnown', facts) => GivenFits(factsKnown, facts)
    BY <1>2 DEF GivenFits
  <1>8. GivenFits(factsKnown, facts) = GivenFits(factsKnown', facts)
    <2>1. GivenFits(factsKnown, facts) \in BOOLEAN /\ GivenFits(factsKnown', facts) \in BOOLEAN
      BY DEF GivenFits
    <2> QED
      BY <1>6, <1>7, <2>1
  <1> QED
    BY <1>2, <1>8 DEF facts

LEMMA LookedUpMembers ==
    ASSUME LearnMember
    PROVE  /\ \A key \in DOMAIN membersKnown : key \in DOMAIN membersKnown' /\ membersKnown'[key] = membersKnown[key]
           /\ verdict' = Interpreted(treeKind, factsKnown, membersKnown')
           /\ treeKind' = treeKind /\ factsKnown' = factsKnown /\ factsOpen' = factsOpen
  <1>1. PICK code \in Collections : \E key \in KeysOf(code) \ DOMAIN membersKnown :
          \E dossier \in Dossiers[code] :
            /\ membersKnown' = Overlay([k \in {key} |-> dossier], membersKnown)
            /\ verdict' = Interpreted(treeKind, factsKnown, membersKnown')
            /\ UNCHANGED <<treeKind, factsKnown, factsOpen>>
    BY DEF LearnMember
  <1>2. PICK key \in KeysOf(code) \ DOMAIN membersKnown : \E dossier \in Dossiers[code] :
            /\ membersKnown' = Overlay([k \in {key} |-> dossier], membersKnown)
            /\ verdict' = Interpreted(treeKind, factsKnown, membersKnown')
            /\ UNCHANGED <<treeKind, factsKnown, factsOpen>>
    BY <1>1
  <1>3. PICK dossier \in Dossiers[code] :
            /\ membersKnown' = Overlay([k \in {key} |-> dossier], membersKnown)
            /\ verdict' = Interpreted(treeKind, factsKnown, membersKnown')
            /\ UNCHANGED <<treeKind, factsKnown, factsOpen>>
    BY <1>2
  <1>4. \A k \in DOMAIN membersKnown : k \in DOMAIN membersKnown' /\ membersKnown'[k] = membersKnown[k]
    BY <1>2, <1>3 DEF Overlay
  <1> QED
    BY <1>3, <1>4

LEMMA NextDecision == DecisionInv /\ [DecisionNext]_decisionVars => DecisionInv'
  <1> SUFFICES ASSUME DecisionInv, [DecisionNext]_decisionVars PROVE DecisionInv'
    OBVIOUS
  <1>1. CASE LearnFact
    <2>1. PICK code \in factsOpen : \E value \in Possible[code] \cup {Null} : Learn(code, value)
      BY <1>1 DEF LearnFact
    <2>2. PICK value \in Possible[code] \cup {Null} : Learn(code, value)
      BY <2>1
    <2>3. /\ treeKind' = treeKind /\ membersKnown' = membersKnown /\ factsOpen' = factsOpen \ {code}
          /\ verdict' = Interpreted(treeKind, factsKnown', membersKnown)
      BY <2>2 DEF Learn
    <2>4. DOMAIN factsKnown' = DOMAIN factsKnown \cup {code}
      BY <2>2, LearnedFacts
    <2> QED
      BY <2>3, <2>4 DEF DecisionInv
  <1>2. CASE LearnMember
    BY <1>2, LookedUpMembers DEF DecisionInv
  <1>3. CASE UNCHANGED decisionVars
    BY <1>3 DEF DecisionInv, decisionVars
  <1> QED
    BY <1>1, <1>2, <1>3 DEF DecisionNext

LEMMA NextKeepsOutcome ==
    ASSUME Interpretation, DecisionInv, [DecisionNext]_decisionVars,
           factsOpen \ factsOpen' \subseteq Amounts, verdict.outcome # "INDETERMINATE"
    PROVE  verdict'.outcome = verdict.outcome
  <1>1. CASE LearnFact
    <2>1. PICK code \in factsOpen : \E value \in Possible[code] \cup {Null} : Learn(code, value)
      BY <1>1 DEF LearnFact
    <2>2. PICK value \in Possible[code] \cup {Null} : Learn(code, value)
      BY <2>1
    <2>3. /\ verdict' = Interpreted(treeKind, factsKnown', membersKnown) /\ factsOpen' = factsOpen \ {code}
      BY <2>2 DEF Learn
    <2>4. code \in Amounts
      BY <2>1, <2>3
    <2>5. /\ DOMAIN factsKnown' = DOMAIN factsKnown \cup {code}
          /\ \A c \in DOMAIN factsKnown : factsKnown'[c] = factsKnown[c]
          /\ GivenFits(factsKnown, FactMap(Trees[treeKind].catalog))
                = GivenFits(factsKnown', FactMap(Trees[treeKind].catalog))
      BY <2>2, LearnedFacts
    <2>6. /\ treeKind \in {"report", "data"} /\ verdict = Interpreted(treeKind, factsKnown, membersKnown)
      BY DEF DecisionInv
    <2> QED
      BY <2>3, <2>4, <2>5, <2>6, MoreFollows
  <1>2. CASE LearnMember
    <2>1. /\ \A key \in DOMAIN membersKnown : key \in DOMAIN membersKnown' /\ membersKnown'[key] = membersKnown[key]
          /\ verdict' = Interpreted(treeKind, factsKnown, membersKnown')
      BY <1>2, LookedUpMembers
    <2>2. /\ treeKind \in {"report", "data"} /\ verdict = Interpreted(treeKind, factsKnown, membersKnown)
      BY DEF DecisionInv
    <2> QED
      BY <2>1, <2>2, MoreFollows
  <1>3. CASE UNCHANGED decisionVars
    BY <1>3 DEF decisionVars
  <1> QED
    BY <1>1, <1>2, <1>3 DEF DecisionNext

\* What is still open was open at first and is not known yet; the verdict is always that of
\* what is known.
THEOREM TheVerdictIsOfWhatIsKnown == DecisionSpec => []DecisionInv
  <1>1. DecisionInit => DecisionInv
    BY InitDecision
  <1>2. DecisionInv /\ [DecisionNext]_decisionVars => DecisionInv'
    BY NextDecision
  <1> QED
    BY <1>1, <1>2, PTL DEF DecisionSpec

\* Whatever amounts, counts and members become known of a task, and in whatever order: what
\* has been decided without them stays decided.
THEOREM NoAmountChangesADecision ==
    ASSUME Interpretation
    PROVE  DecisionSpec => AmountsNeverChangeADecision
  <1>1. ASSUME DecisionInv, [DecisionNext]_decisionVars
        PROVE  [factsOpen \ factsOpen' \subseteq Amounts /\ verdict.outcome # "INDETERMINATE"
                  => verdict'.outcome = verdict.outcome]_decisionVars
    BY <1>1, NextKeepsOutcome
  <1>2. DecisionSpec => []DecisionInv
    BY TheVerdictIsOfWhatIsKnown
  <1> QED
    BY <1>1, <1>2, PTL DEF DecisionSpec, AmountsNeverChangeADecision

-----------------------------------------------------------------------------
(* What a condition says of the facts when it holds, and when it refuses   *)

Holds(node, w)   == Says(node, w) \notin {"fail", "indeterminate"}
Refuses(node, w) == Says(node, w) \notin {"pass", "indeterminate"}

LEMMA AllOfHolds ==
    ASSUME Interpretation, NEW id, NEW children, children # <<>>, NEW w, Holds(AllOf(id, children), w)
    PROVE  \A i \in DOMAIN children : Holds(children[i], w)
  <1> DEFINE r == [i \in DOMAIN children |-> Says(children[i], w)]
  <1>1. Says(AllOf(id, children), w) = Conjunction(r)
    BY AllOfSays
  <1>2. DOMAIN r = DOMAIN children /\ \A i \in DOMAIN children : r[i] = Says(children[i], w)
    OBVIOUS
  <1> HIDE DEF r
  <1>3. \A i \in DOMAIN r : r[i] \notin {"fail", "indeterminate"}
    BY <1>1 DEF Conjunction, Holds
  <1> QED
    BY <1>2, <1>3 DEF Holds

LEMMA AnyOfHolds ==
    ASSUME Interpretation, NEW id, NEW children, children # <<>>, NEW w, Holds(AnyOf(id, children), w)
    PROVE  \E i \in DOMAIN children : Holds(children[i], w)
  <1> DEFINE r == [i \in DOMAIN children |-> Says(children[i], w)]
  <1>1. Says(AnyOf(id, children), w) = Disjunction(r)
    BY AnyOfSays
  <1>2. DOMAIN r = DOMAIN children /\ \A i \in DOMAIN children : r[i] = Says(children[i], w)
    OBVIOUS
  <1> HIDE DEF r
  <1>3. \E i \in DOMAIN r : r[i] = "pass"
    BY <1>1 DEF Disjunction, Holds
  <1> QED
    BY <1>2, <1>3 DEF Holds

LEMMA NotOfHolds ==
    ASSUME Interpretation, NEW id, NEW child, NEW w, Holds(NotOf(id, child), w)
    PROVE  Refuses(child, w)
  BY NotOfSays DEF Negate, Holds, Refuses

LEMMA TwoHold ==
    ASSUME Interpretation, NEW id, NEW a, NEW b, NEW w
    PROVE  /\ Holds(AllOf(id, <<a, b>>), w) => Holds(a, w) /\ Holds(b, w)
           /\ Holds(AnyOf(id, <<a, b>>), w) => Holds(a, w) \/ Holds(b, w)
  <1> DEFINE c == <<a, b>>
  <1>1. c # <<>> /\ DOMAIN c = {1, 2} /\ c[1] = a /\ c[2] = b
    OBVIOUS
  <1> HIDE DEF c
  <1>2. Holds(AllOf(id, c), w) => Holds(a, w) /\ Holds(b, w)
    BY <1>1, AllOfHolds
  <1>3. Holds(AnyOf(id, c), w) => Holds(a, w) \/ Holds(b, w)
    BY <1>1, AnyOfHolds
  <1> QED
    BY <1>2, <1>3 DEF c

LEMMA ThreeHold ==
    ASSUME Interpretation, NEW id, NEW a, NEW b, NEW d, NEW w, Holds(AllOf(id, <<a, b, d>>), w)
    PROVE  Holds(a, w) /\ Holds(b, w) /\ Holds(d, w)
  <1> DEFINE c == <<a, b, d>>
  <1>1. c # <<>> /\ DOMAIN c = {1, 2, 3} /\ c[1] = a /\ c[2] = b /\ c[3] = d
    OBVIOUS
  <1>2. Holds(AllOf(id, c), w)
    OBVIOUS
  <1> HIDE DEF c
  <1> QED
    BY <1>1, <1>2, AllOfHolds

LEMMA FourHold ==
    ASSUME Interpretation, NEW id, NEW a, NEW b, NEW d, NEW e, NEW w, Holds(AllOf(id, <<a, b, d, e>>), w)
    PROVE  Holds(a, w) /\ Holds(b, w) /\ Holds(d, w) /\ Holds(e, w)
  <1> DEFINE c == <<a, b, d, e>>
  <1>1. c # <<>> /\ DOMAIN c = {1, 2, 3, 4} /\ c[1] = a /\ c[2] = b /\ c[3] = d /\ c[4] = e
    OBVIOUS
  <1>2. Holds(AllOf(id, c), w)
    OBVIOUS
  <1> HIDE DEF c
  <1> QED
    BY <1>1, <1>2, AllOfHolds

\* A fact that is not a date reads as it is.
Plain(code, w) == ~(code \in DOMAIN w.facts /\ w.facts[code].type \in TemporalTypes)

LEMMA PlainReads ==
    ASSUME Interpretation, NEW code, NEW w, Plain(code, w)
    PROVE  Reads(Fact(code), w) = Raw(code, w)
  BY FactReads DEF AsDeclared, Plain

LEMMA ListOfNumbers ==
    ASSUME NEW x, NEW ns, PyIn(x, List(Ints(ns)))
    PROVE  Known(x) /\ \E i \in DOMAIN ns : PyEqual(x, Whole(ns[i]))
  <1>1. PICK i \in DOMAIN List(Ints(ns))[2] : PyEqual(x, List(Ints(ns))[2][i])
    BY DEF PyIn
  <1>2. i \in DOMAIN ns /\ PyEqual(x, Whole(ns[i]))
    BY <1>1 DEF List, Ints
  <1>3. Kind(x) # "missing" /\ Kind(x) # "null"
    BY <1>2 DEF PyEqual, Numeric, Kind, Whole, Number
  <1> QED
    BY <1>2, <1>3 DEF Known

LEMMA NumberInList ==
    ASSUME NEW x, NEW n, PyEqual(x, Whole(n))
    PROVE  PyIn(x, List(Ints(<<n>>)))
  <1>1. /\ List(Ints(<<n>>))[2] = [i \in {1} |-> Whole(n)]
    BY DEF List, Ints
  <1> QED
    BY <1>1 DEF PyIn

\* A code that is one of some numbers.
LEMMA EqHolds ==
    ASSUME Interpretation, NEW id, NEW code, NEW n, NEW w, Plain(code, w), Holds(Eq(id, code, n), w)
    PROVE  PyIn(Raw(code, w), List(Ints(<<n>>)))
  <1>1. "eq" \notin Unary
    BY DEF Unary
  <1>2. Says(Eq(id, code, n), w) = CompareSides("eq", "fail", Raw(code, w), Whole(n))
    BY <1>1, AsksSays, PlainReads, LitReads, KnownLiterals DEF Eq
  <1>3. CompareSides("eq", "fail", Raw(code, w), Whole(n)) \in {"fail", V31!Result("eq", Raw(code, w), Whole(n))}
    BY DEF CompareSides, NullResult
  <1>4. V31!Result("eq", Raw(code, w), Whole(n)) = IF PyEqual(Raw(code, w), Whole(n)) THEN "pass" ELSE "fail"
    BY SameComparisons DEF V31!Result
  <1>5. PyEqual(Raw(code, w), Whole(n))
    BY <1>2, <1>3, <1>4 DEF Holds
  <1> QED
    BY <1>5, NumberInList

LEMMA InListSays ==
    ASSUME Interpretation, NEW id, NEW code, NEW ns, NEW w, Plain(code, w)
    PROVE  Says(InList(id, code, Ints(ns)), w) =
             IF PyIn(Raw(code, w), List(Ints(ns))) THEN "pass" ELSE "fail"
  <1>1. "in" \notin Unary
    BY DEF Unary
  <1>2. Says(InList(id, code, Ints(ns)), w) = CompareSides("in", "fail", Raw(code, w), List(Ints(ns)))
    BY <1>1, AsksSays, PlainReads, LitReads, KnownLiterals DEF InList
  <1>3. V31!Result("in", Raw(code, w), List(Ints(ns))) = IF PyIn(Raw(code, w), List(Ints(ns))) THEN "pass" ELSE "fail"
    <2>1. V31!Kind(List(Ints(ns))) = "list"
      BY DEF V31!Kind, List
    <2> QED
      BY <2>1, SameComparisons DEF V31!Result
  <1>4. Known(List(Ints(ns)))
    BY KnownLiterals
  <1>5. PyIn(Raw(code, w), List(Ints(ns))) => Known(Raw(code, w))
    BY ListOfNumbers
  <1>6. NullResult("fail") = "fail"
    BY DEF NullResult
  <1> QED
    BY <1>2, <1>3, <1>4, <1>5, <1>6 DEF CompareSides

\* Not a special product: none is known, or it is another one.
LEMMA NotSpecialHolds ==
    ASSUME Interpretation, NEW id, NEW w, Plain("task.product_id", w), Holds(NotSpecial(id), w)
    PROVE  ~PyIn(Raw("task.product_id", w), List(Ints(<<Special>>)))
  <1> DEFINE x == Raw("task.product_id", w)
  <1>1. SUFFICES ASSUME PyIn(x, List(Ints(<<Special>>))) PROVE FALSE
    OBVIOUS
  <1>2. Known(x) /\ PyEqual(x, Whole(Special))
    <2>1. PICK i \in DOMAIN <<Special>> : PyEqual(x, Whole(<<Special>>[i]))
      BY <1>1, ListOfNumbers
    <2>2. DOMAIN <<Special>> = {1}
      OBVIOUS
    <2>3. <<Special>>[i] = Special
      BY <2>1, <2>2
    <2> QED
      BY <1>1, <2>1, <2>3, ListOfNumbers
  <1>3. Reads(Fact("task.product_id"), w) = x
    BY PlainReads
  <1> HIDE DEF x
  <1>4. Says(IsNull(id \o <<"product-null">>, "task.product_id"), w) = "fail"
    <2>1. x # Null
      BY <1>2 DEF Known, Kind, Null
    <2> QED
      BY <1>3, <2>1, IsNullSays
  <1>5. Says(Ne(id \o <<"product-ne">>, "task.product_id", Special), w) = "fail"
    <2>1. "ne" \notin Unary
      BY DEF Unary
    <2>2. Says(Ne(id \o <<"product-ne">>, "task.product_id", Special), w) = CompareSides("ne", "fail", x, Whole(Special))
      BY <1>3, <2>1, AsksSays, LitReads, KnownLiterals DEF Ne
    <2>3. V31!Result("ne", x, Whole(Special)) = "fail"
      BY <1>2, SameComparisons DEF V31!Result
    <2> QED
      BY <1>2, <2>2, <2>3, KnownLiterals DEF CompareSides
  <1> QED
    BY <1>4, <1>5, TwoHold DEF NotSpecial, Holds

-----------------------------------------------------------------------------
(* Sums, shares and what is compared with them                             *)

IsNumber(x) == \E p, q : x = Number(p, q)

LEMMA NumbersAreDecimals ==
    ASSUME NEW x, IsNumber(x)
    PROVE  Known(x) /\ AsDecimal(x) = x /\ x # Missing /\ Numeric(x)
  BY DEF IsNumber, Number, Known, Kind, AsDecimal, Missing, Numeric

LEMMA TotalsAreNumbers ==
    ASSUME NEW n, NEW len \in {2, 3}, Len(n) = len
    PROVE  IsNumber(V31!Total(n))
  <1> DEFINE a0 == V31!Whole(0)
             a1 == V31!Plus(a0, n[1])
             a2 == V31!Plus(a1, n[2])
             a3 == V31!Plus(a2, n[3])
             eq(f) == f = [i \in 0 .. len |-> IF i = 0 THEN a0 ELSE V31!Plus(f[i - 1], n[i])]
             g == [i \in 0 .. len |-> IF i = 0 THEN a0 ELSE IF i = 1 THEN a1 ELSE IF i = 2 THEN a2 ELSE a3]
             f == CHOOSE x : eq(x)
  <1>1. V31!Total(n) = f[len]
    BY DEF V31!Total
  <1>2. \A i \in 0 .. len : i \in {0, 1, 2, 3}
    OBVIOUS
  <1>3. eq(g)
    <2>1. ASSUME NEW i \in 0 .. len PROVE g[i] = IF i = 0 THEN a0 ELSE V31!Plus(g[i - 1], n[i])
      <3>1. CASE i = 0
        BY <3>1
      <3>2. CASE i = 1
        <4>1. 0 \in 0 .. len /\ i - 1 = 0
          BY <3>2
        <4>2. g[0] = a0 /\ g[1] = a1
          BY <3>2, <4>1
        <4> HIDE DEF g
        <4> QED
          BY <3>2, <4>1, <4>2
      <3>3. CASE i = 2
        <4>1. 1 \in 0 .. len /\ i - 1 = 1
          BY <3>3
        <4>2. g[1] = a1 /\ g[2] = a2
          BY <3>3, <4>1
        <4> HIDE DEF g
        <4> QED
          BY <3>3, <4>1, <4>2
      <3>4. CASE i = 3
        <4>1. 2 \in 0 .. len /\ i - 1 = 2
          BY <3>4
        <4>2. g[2] = a2 /\ g[3] = a3
          BY <3>4, <4>1
        <4> HIDE DEF g
        <4> QED
          BY <3>4, <4>1, <4>2
      <3> QED
        BY <1>2, <3>1, <3>2, <3>3, <3>4
    <2>2. g = [i \in 0 .. len |-> g[i]]
      OBVIOUS
    <2> HIDE DEF g
    <2> QED
      BY <2>1, <2>2
  <1>4. eq(f)
    <2> HIDE DEF eq, g
    <2> QED
      BY <1>3
  <1> HIDE DEF f
  <1>7. len \in 0 .. len /\ len # 0
    OBVIOUS
  <1>5. f[len] = V31!Plus(f[len - 1], n[len])
    BY <1>4, <1>7
  <1>6. \A x, y : IsNumber(V31!Plus(x, y))
    BY SameValues DEF V31!Plus, IsNumber
  <1> QED
    BY <1>1, <1>5, <1>6

LEMMA ProductsAreNumbers ==
    ASSUME NEW n, Len(n) = 2
    PROVE  IsNumber(V31!Product(n))
  <1> DEFINE a0 == V31!Whole(1)
             a1 == V31!Times(a0, n[1])
             a2 == V31!Times(a1, n[2])
             eq(f) == f = [i \in 0 .. 2 |-> IF i = 0 THEN a0 ELSE V31!Times(f[i - 1], n[i])]
             g == [i \in 0 .. 2 |-> CASE i = 0 -> a0 [] i = 1 -> a1 [] i = 2 -> a2]
             f == CHOOSE x : eq(x)
  <1>1. V31!Product(n) = f[2]
    BY DEF V31!Product
  <1>2. g[0] = a0 /\ g[1] = a1 /\ g[2] = a2
    OBVIOUS
  <1>3. eq(g)
    <2>1. ASSUME NEW i \in 0 .. 2 PROVE g[i] = IF i = 0 THEN a0 ELSE V31!Times(g[i - 1], n[i])
      <3> HIDE DEF g
      <3> QED
        BY <1>2
    <2>2. g = [i \in 0 .. 2 |-> g[i]]
      OBVIOUS
    <2> HIDE DEF g
    <2> QED
      BY <2>1, <2>2
  <1>4. eq(f)
    <2> HIDE DEF eq, g
    <2> QED
      BY <1>3
  <1> HIDE DEF f
  <1>5. f[2] = V31!Times(f[1], n[2])
    BY <1>4
  <1>6. \A x, y : IsNumber(V31!Times(x, y))
    BY SameValues DEF V31!Times, IsNumber
  <1> QED
    BY <1>1, <1>5, <1>6

Decimals(es, w) == [i \in DOMAIN es |-> AsDecimal(Reads(es[i], w))]

Sized(kind, es) ==
    /\ Len(es) = 2 \/ (Len(es) = 3 /\ kind # "subtract")
    /\ DOMAIN es = 1 .. Len(es)

\* A calculation that has a value has one of every operand.
LEMMA CalculationReads ==
    ASSUME Interpretation, NEW kind \in {"add", "multiply", "subtract"}, NEW es, Sized(kind, es), NEW w,
           Known(Reads(Op(kind, es), w))
    PROVE  /\ \A i \in DOMAIN es : AsDecimal(Reads(es[i], w)) # Missing
           /\ kind = "add" => Reads(Op(kind, es), w) = V31!Total(Decimals(es, w))
           /\ kind = "multiply" =>
                 Reads(Op(kind, es), w) = V31!Product(Decimals(es, w))
           /\ kind = "subtract" =>
                 Reads(Op(kind, es), w) = Minus(AsDecimal(Reads(es[1], w)), AsDecimal(Reads(es[2], w)))
  <1> DEFINE r == Values(es, w)
             n == [i \in DOMAIN r |-> V31!AsDecimal(r[i])]
  <1>1. Reads(Op(kind, es), w) = V31!Combined(Op(kind, es), r)
    <2>1. kind \in {"add", "multiply", "coalesce", "subtract"}
      OBVIOUS
    <2>2. ASSUME NEW gs, NEW u, Len(gs) = 2 \/ (Len(gs) = 3 /\ kind # "subtract")
          PROVE  Reads(Op(kind, gs), u) = V31!Combined(Op(kind, gs), Values(gs, u))
      BY <2>1, <2>2, OpReads
    <2> QED
      BY <2>2 DEF Sized
  <1>2. V31!Combined(Op(kind, es), r) = V31!Calculate(kind, r)
    BY DEF V31!Combined, Op
  <1>3. DOMAIN r = DOMAIN es /\ \A i \in DOMAIN es : r[i] = Reads(es[i], w)
    BY DEF Values
  <1> HIDE DEF r
  <1>4. n = Decimals(es, w)
    BY <1>3, SameValues DEF Decimals
  <1> HIDE DEF n
  <1>5. V31!Calculate(kind, r) =
          IF \E i \in DOMAIN n : n[i] = V31!Missing THEN V31!Missing
          ELSE CASE kind = "add"      -> V31!Total(n)
                 [] kind = "multiply" -> V31!Product(n)
                 [] kind = "subtract" -> V31!Minus(n[1], n[2])
                 [] kind = "divide"   -> IF n[2][2] = 0 THEN V31!Missing ELSE V31!Over(n[1], n[2])
    BY DEF V31!Calculate, n
  <1>6. ~Known(V31!Missing)
    BY SameValues DEF Known, Kind, Missing
  <1>7. ~\E i \in DOMAIN n : n[i] = V31!Missing
    BY <1>1, <1>2, <1>5, <1>6
  <1>8. Reads(Op(kind, es), w) = CASE kind = "add"      -> V31!Total(n)
                                   [] kind = "multiply" -> V31!Product(n)
                                   [] kind = "subtract" -> V31!Minus(n[1], n[2])
                                   [] kind = "divide"   -> IF n[2][2] = 0 THEN V31!Missing ELSE V31!Over(n[1], n[2])
    BY <1>1, <1>2, <1>5, <1>7
  <1>9. \A x, y : V31!Minus(x, y) = Minus(x, y)
    BY SameValues DEF V31!Minus, Minus
  <1>10. DOMAIN n = DOMAIN es /\ \A i \in DOMAIN es : n[i] = AsDecimal(Reads(es[i], w))
    BY <1>4 DEF Decimals
  <1>11. \A i \in DOMAIN es : AsDecimal(Reads(es[i], w)) # Missing
    BY <1>7, <1>10, SameValues
  <1>12. kind = "subtract" =>
           Reads(Op(kind, es), w) = Minus(AsDecimal(Reads(es[1], w)), AsDecimal(Reads(es[2], w)))
    <2>1. 1 \in DOMAIN es /\ 2 \in DOMAIN es
      BY DEF Sized
    <2> QED
      BY <1>8, <1>9, <1>10, <2>1
  <1>13. /\ kind = "add" => Reads(Op(kind, es), w) = V31!Total(n)
         /\ kind = "multiply" => Reads(Op(kind, es), w) = V31!Product(n)
    BY <1>8
  <1> QED
    BY <1>4, <1>11, <1>12, <1>13

\* Two known sides in the order that is asked for, as numbers if both read as such.
LEMMA OpenHolds ==
    ASSUME Interpretation, NEW id, NEW left, NEW right, NEW operator \in {"gte", "lte", "gt"}, NEW w,
           Holds(Open(id, left, operator, right), w)
    PROVE  /\ Known(Reads(left, w)) /\ Known(Reads(right, w))
           /\ AsDecimal(Reads(left, w)) # Missing /\ AsDecimal(Reads(right, w)) # Missing =>
                /\ operator = "gte" => PyLessEqual(AsDecimal(Reads(right, w)), AsDecimal(Reads(left, w)))
                /\ operator = "lte" => PyLessEqual(AsDecimal(Reads(left, w)), AsDecimal(Reads(right, w)))
                /\ operator = "gt" => PyLess(AsDecimal(Reads(right, w)), AsDecimal(Reads(left, w)))
  <1> DEFINE L == Reads(left, w)
             R == Reads(right, w)
             l == AsDecimal(L)
             r == AsDecimal(R)
  <1>1. operator \notin Unary
    BY DEF Unary
  <1>2. Says(Open(id, left, operator, right), w) = CompareSides(operator, "indeterminate", L, R)
    BY <1>1, AsksSays DEF Open
  <1>3. V31!AsDecimal(L) = l /\ V31!AsDecimal(R) = r
    BY SameValues
  <1> HIDE DEF L, R, l, r
  <1>4. NullResult("indeterminate") = "indeterminate"
    BY DEF NullResult
  <1>5. Known(L) /\ Known(R) /\ V31!Result(operator, L, R) \notin {"fail", "indeterminate"}
    BY <1>2, <1>4 DEF Holds, CompareSides
  <1>6. V31!Result(operator, L, R) = V31!OrderResult(operator, L, R)
    BY DEF V31!Result
  <1>7. ASSUME l # Missing, r # Missing
        PROVE  /\ operator = "gte" => PyLessEqual(r, l)
               /\ operator = "lte" => PyLessEqual(l, r)
               /\ operator = "gt" => PyLess(r, l)
    <2>1. V31!OrderResult(operator, L, R) = V31!Ordered(operator, l, r)
      BY <1>3, <1>7, SameValues DEF V31!OrderResult
    <2>2. CASE operator = "gte"
      BY <1>5, <1>6, <2>1, <2>2, SameComparisons DEF V31!Ordered
    <2>3. CASE operator = "lte"
      BY <1>5, <1>6, <2>1, <2>3, SameComparisons DEF V31!Ordered
    <2>4. CASE operator = "gt"
      BY <1>5, <1>6, <2>1, <2>4, SameComparisons DEF V31!Ordered
    <2> QED
      BY <2>2, <2>3, <2>4
  <1> QED
    BY <1>5, <1>7 DEF L, R, l, r

-----------------------------------------------------------------------------
(* What must have been paid, of any world                                  *)

AmountIn(code, w) == AsDecimal(Raw(code, w))
ArrivedIn(w) == AmountIn("order.arrival_amount_including_deposit", w)
BaseIn(w) == V31!Total(<<AmountIn("order.extraction_qc_amount", w), AmountIn("task.task_amount", w)>>)
WholeIn(w) == V31!Total(<<AmountIn("order.extraction_qc_amount", w), AmountIn("task.task_amount", w),
                          AmountIn("order.report_release_amount", w)>>)
CoversIn(sum, w) == PyLessEqual(sum, V31!Total(<<ArrivedIn(w), Number(1, 10)>>))
ShareIn(p, w) == CoversIn(V31!Product(<<WholeIn(w), Number(p, 100)>>), w)
DepositIn(w) ==
    /\ AmountIn("order.deposit_amount", w) # Missing
    /\ PyLessEqual(V31!Product(<<Minus(WholeIn(w), ArrivedIn(w)), Number(20, 100)>>),
                   AmountIn("order.deposit_amount", w))
AllRequired(w) == \A code \in Required : AmountIn(code, w) # Missing

\* The facts that payment is asked of are no dates.
PaymentCodes == Required \cup {"order.deposit_amount", "task.product_id", "order.framework_type",
                               "order.customer_org_type"}
PlainWorld(w) == \A code \in PaymentCodes : Plain(code, w)

LEMMA UnknownIsNoDecimal ==
    ASSUME NEW x, AsDecimal(x) # Missing
    PROVE  Known(x)
  BY DEF AsDecimal, Known, Kind, Missing

LEMMA LiteralDecimals ==
    ASSUME Interpretation, NEW w, NEW p, NEW q
    PROVE  AsDecimal(Reads(Lit(Number(p, q)), w)) = Number(p, q)
  BY LitReads, KnownLiterals, NumbersAreDecimals DEF IsNumber

LEMMA PairReads ==
    ASSUME Interpretation, NEW kind \in {"add", "multiply", "subtract"}, NEW e, NEW f, NEW w,
           Known(Reads(Op(kind, <<e, f>>), w))
    PROVE  /\ AsDecimal(Reads(e, w)) # Missing /\ AsDecimal(Reads(f, w)) # Missing
           /\ kind = "add" =>
                Reads(Op(kind, <<e, f>>), w) = V31!Total(<<AsDecimal(Reads(e, w)), AsDecimal(Reads(f, w))>>)
           /\ kind = "multiply" =>
                Reads(Op(kind, <<e, f>>), w) = V31!Product(<<AsDecimal(Reads(e, w)), AsDecimal(Reads(f, w))>>)
           /\ kind = "subtract" =>
                Reads(Op(kind, <<e, f>>), w) = Minus(AsDecimal(Reads(e, w)), AsDecimal(Reads(f, w)))
           /\ IsNumber(Reads(Op(kind, <<e, f>>), w))
  <1> DEFINE es == <<e, f>>
             n == Decimals(es, w)
             pair == <<AsDecimal(Reads(e, w)), AsDecimal(Reads(f, w))>>
  <1>1. DOMAIN es = {1, 2} /\ es[1] = e /\ es[2] = f /\ n = pair /\ Len(pair) = 2
    BY DEF Decimals
  <1>2. Sized(kind, es) /\ Known(Reads(Op(kind, es), w))
    BY DEF Sized
  <1> HIDE DEF es, pair, n
  <1>3. /\ \A i \in DOMAIN es : AsDecimal(Reads(es[i], w)) # Missing
        /\ kind = "add" => Reads(Op(kind, es), w) = V31!Total(n)
        /\ kind = "multiply" => Reads(Op(kind, es), w) = V31!Product(n)
        /\ kind = "subtract" => Reads(Op(kind, es), w) = Minus(AsDecimal(Reads(es[1], w)), AsDecimal(Reads(es[2], w)))
    BY <1>2, CalculationReads DEF n
  <1>4. IsNumber(V31!Total(pair)) /\ IsNumber(V31!Product(pair))
    BY <1>1, TotalsAreNumbers, ProductsAreNumbers
  <1>5. \A x, y : IsNumber(Minus(x, y))
    BY DEF Minus, IsNumber
  <1>6. IsNumber(Reads(Op(kind, es), w))
    BY <1>1, <1>3, <1>4, <1>5
  <1> QED
    BY <1>1, <1>3, <1>6 DEF es, pair

LEMMA PricesRead ==
    ASSUME Interpretation, NEW w, PlainWorld(w)
    PROVE  /\ Known(Reads(BaseAmount, w)) =>
                 Reads(BaseAmount, w) = BaseIn(w) /\ IsNumber(BaseIn(w))
           /\ Known(Reads(ReportTotal, w)) =>
                 /\ Reads(ReportTotal, w) = WholeIn(w) /\ IsNumber(WholeIn(w))
                 /\ \A code \in Required \ {"order.arrival_amount_including_deposit"} : AmountIn(code, w) # Missing
           /\ Known(Reads(ArrivalWithEpsilon, w)) =>
                 /\ Reads(ArrivalWithEpsilon, w) = V31!Total(<<ArrivedIn(w), Number(1, 10)>>)
                 /\ IsNumber(Reads(ArrivalWithEpsilon, w)) /\ ArrivedIn(w) # Missing
  <1>1. \A code \in PaymentCodes : AsDecimal(Reads(Fact(code), w)) = AmountIn(code, w)
    BY PlainReads DEF PlainWorld, AmountIn
  <1>2. Required = {"order.extraction_qc_amount", "task.task_amount", "order.report_release_amount",
                    "order.arrival_amount_including_deposit"}
    BY DEF Required
  <1>3. Required \subseteq PaymentCodes
    BY DEF PaymentCodes
  <1>4. ASSUME Known(Reads(BaseAmount, w))
        PROVE  Reads(BaseAmount, w) = BaseIn(w) /\ IsNumber(BaseIn(w))
    <2>1. BaseAmount = Op("add", <<Fact("order.extraction_qc_amount"), Fact("task.task_amount")>>)
      BY DEF BaseAmount
    <2>2. /\ Reads(BaseAmount, w) = V31!Total(<<AsDecimal(Reads(Fact("order.extraction_qc_amount"), w)),
                                               AsDecimal(Reads(Fact("task.task_amount"), w))>>)
          /\ IsNumber(Reads(BaseAmount, w))
      BY <1>4, <2>1, PairReads
    <2> QED
      BY <1>1, <1>2, <1>3, <2>2 DEF BaseIn
  <1>5. ASSUME Known(Reads(ReportTotal, w))
        PROVE  /\ Reads(ReportTotal, w) = WholeIn(w) /\ IsNumber(WholeIn(w))
               /\ \A code \in Required \ {"order.arrival_amount_including_deposit"} : AmountIn(code, w) # Missing
    <2> DEFINE es == <<Fact("order.extraction_qc_amount"), Fact("task.task_amount"),
                       Fact("order.report_release_amount")>>
               n == Decimals(es, w)
               three == <<AmountIn("order.extraction_qc_amount", w), AmountIn("task.task_amount", w),
                          AmountIn("order.report_release_amount", w)>>
    <2>1. ReportTotal = Op("add", es)
      BY DEF ReportTotal, CompletedAmount
    <2>2. /\ DOMAIN es = {1, 2, 3} /\ es[1] = Fact("order.extraction_qc_amount") /\ es[2] = Fact("task.task_amount")
          /\ es[3] = Fact("order.report_release_amount") /\ Len(three) = 3
      OBVIOUS
    <2>3. n = three
      BY <1>1, <1>2, <1>3 DEF Decimals
    <2>4. Sized("add", es)
      BY DEF Sized
    <2> HIDE DEF es, three
    <2>5. /\ \A i \in DOMAIN es : AsDecimal(Reads(es[i], w)) # Missing
          /\ Reads(ReportTotal, w) = V31!Total(n)
      BY <1>5, <2>1, <2>4, CalculationReads
    <2> HIDE DEF n
    <2>6. IsNumber(V31!Total(three))
      BY <2>2, TotalsAreNumbers
    <2>7. \A code \in Required \ {"order.arrival_amount_including_deposit"} : AmountIn(code, w) # Missing
      BY <1>1, <1>2, <1>3, <2>2, <2>5
    <2> QED
      BY <2>3, <2>5, <2>6, <2>7 DEF WholeIn, three
  <1>6. ASSUME Known(Reads(ArrivalWithEpsilon, w))
        PROVE  /\ Reads(ArrivalWithEpsilon, w) = V31!Total(<<ArrivedIn(w), Number(1, 10)>>)
               /\ IsNumber(Reads(ArrivalWithEpsilon, w)) /\ ArrivedIn(w) # Missing
    <2>1. ArrivalWithEpsilon = Op("add", <<Arrival, Epsilon>>)
      BY DEF ArrivalWithEpsilon
    <2>2. /\ Reads(ArrivalWithEpsilon, w) = V31!Total(<<AsDecimal(Reads(Arrival, w)), AsDecimal(Reads(Epsilon, w))>>)
          /\ IsNumber(Reads(ArrivalWithEpsilon, w)) /\ AsDecimal(Reads(Arrival, w)) # Missing
      BY <1>6, <2>1, PairReads
    <2>3. AsDecimal(Reads(Epsilon, w)) = Number(1, 10)
      BY LiteralDecimals DEF Epsilon
    <2>4. AsDecimal(Reads(Arrival, w)) = ArrivedIn(w)
      BY <1>1, <1>2, <1>3 DEF Arrival, ArrivedIn
    <2> QED
      BY <2>2, <2>3, <2>4
  <1> QED
    BY <1>4, <1>5, <1>6

\* A deposit that is known is an amount.
DepositIsMoney(w) ==
    Known(Raw("order.deposit_amount", w)) => Kind(Raw("order.deposit_amount", w)) = "number"

\* What has arrived covers the whole, or a share of it.
LEMMA PaysHolds ==
    ASSUME Interpretation, NEW id, NEW p, NEW w, PlainWorld(w), Holds(Pays(id, p), w)
    PROVE  /\ AllRequired(w) /\ IsNumber(WholeIn(w))
           /\ p = 100 => CoversIn(WholeIn(w), w)
           /\ p # 100 => ShareIn(p, w)
  <1> DEFINE owed == IF p = 100 THEN ReportTotal ELSE Share(ReportTotal, p)
  <1>1. Pays(id, p) = Open(id, ArrivalWithEpsilon, "gte", owed)
    BY DEF Pays
  <1>2. Share(ReportTotal, p) = Op("multiply", <<ReportTotal, Percent(p)>>)
    BY DEF Share
  <1>3. p = 100 => owed = ReportTotal
    OBVIOUS
  <1>4. p # 100 => owed = Op("multiply", <<ReportTotal, Percent(p)>>)
    BY <1>2
  <1> HIDE DEF owed
  <1>5. /\ Known(Reads(ArrivalWithEpsilon, w)) /\ Known(Reads(owed, w))
        /\ AsDecimal(Reads(ArrivalWithEpsilon, w)) # Missing /\ AsDecimal(Reads(owed, w)) # Missing =>
              PyLessEqual(AsDecimal(Reads(owed, w)), AsDecimal(Reads(ArrivalWithEpsilon, w)))
    BY <1>1, OpenHolds
  <1>6. /\ Reads(ArrivalWithEpsilon, w) = V31!Total(<<ArrivedIn(w), Number(1, 10)>>)
        /\ AsDecimal(Reads(ArrivalWithEpsilon, w)) = Reads(ArrivalWithEpsilon, w)
        /\ Reads(ArrivalWithEpsilon, w) # Missing /\ ArrivedIn(w) # Missing
    BY <1>5, PricesRead, NumbersAreDecimals
  <1>7. Known(Reads(ReportTotal, w)) => AllRequired(w) /\ Reads(ReportTotal, w) = WholeIn(w) /\ IsNumber(WholeIn(w))
    <2>1. ASSUME Known(Reads(ReportTotal, w)) PROVE AllRequired(w)
      <3>1. \A code \in Required \ {"order.arrival_amount_including_deposit"} : AmountIn(code, w) # Missing
        BY <2>1, PricesRead
      <3>2. AmountIn("order.arrival_amount_including_deposit", w) # Missing
        BY <1>6 DEF ArrivedIn
      <3> QED
        BY <3>1, <3>2 DEF AllRequired
    <2> QED
      BY <2>1, PricesRead
  <1>8. IsNumber(Reads(owed, w)) => PyLessEqual(Reads(owed, w), V31!Total(<<ArrivedIn(w), Number(1, 10)>>))
    BY <1>5, <1>6, NumbersAreDecimals
  <1>9. CASE p = 100
    <2>1. AllRequired(w) /\ Reads(owed, w) = WholeIn(w) /\ IsNumber(WholeIn(w))
      BY <1>3, <1>5, <1>7, <1>9
    <2> QED
      BY <1>8, <1>9, <2>1 DEF CoversIn
  <1>10. CASE p # 100
    <2>1. /\ AsDecimal(Reads(ReportTotal, w)) # Missing
          /\ Reads(owed, w) = V31!Product(<<AsDecimal(Reads(ReportTotal, w)), AsDecimal(Reads(Percent(p), w))>>)
          /\ IsNumber(Reads(owed, w))
      BY <1>4, <1>5, <1>10, PairReads
    <2>2. AllRequired(w) /\ Reads(ReportTotal, w) = WholeIn(w) /\ IsNumber(WholeIn(w))
      BY <1>7, <2>1, UnknownIsNoDecimal
    <2>3. AsDecimal(Reads(ReportTotal, w)) = WholeIn(w)
      BY <2>2, NumbersAreDecimals
    <2>4. AsDecimal(Reads(Percent(p), w)) = Number(p, 100)
      BY LiteralDecimals DEF Percent
    <2>5. Reads(owed, w) = V31!Product(<<WholeIn(w), Number(p, 100)>>)
      BY <2>1, <2>3, <2>4
    <2> QED
      BY <1>8, <1>10, <2>1, <2>2, <2>5 DEF ShareIn, CoversIn
  <1> QED
    BY <1>9, <1>10

\* The deposit covers a fifth of what has not arrived.
LEMMA DepositHolds ==
    ASSUME Interpretation, NEW id, NEW w, PlainWorld(w), DepositIsMoney(w), Holds(DepositPays(id), w)
    PROVE  AllRequired(w) /\ DepositIn(w)
  <1> DEFINE rest == Op("subtract", <<ReportTotal, Arrival>>)
             owed == Op("multiply", <<rest, Percent(20)>>)
             deposit == Fact("order.deposit_amount")
  <1>1. DepositPays(id) = Open(id, deposit, "gte", owed)
    BY DEF DepositPays, Share
  <1>2. "order.deposit_amount" \in PaymentCodes /\ "order.arrival_amount_including_deposit" \in PaymentCodes
    BY DEF PaymentCodes, Required
  <1>3. Reads(deposit, w) = Raw("order.deposit_amount", w)
    BY <1>2, PlainReads DEF PlainWorld
  <1>4. Reads(Arrival, w) = Raw("order.arrival_amount_including_deposit", w)
    BY <1>2, PlainReads DEF PlainWorld, Arrival
  <1>5. AsDecimal(Reads(Arrival, w)) = ArrivedIn(w)
    BY <1>4 DEF ArrivedIn, AmountIn
  <1> HIDE DEF deposit, owed
  <1>6. /\ Known(Reads(deposit, w)) /\ Known(Reads(owed, w))
        /\ AsDecimal(Reads(deposit, w)) # Missing /\ AsDecimal(Reads(owed, w)) # Missing =>
              PyLessEqual(AsDecimal(Reads(owed, w)), AsDecimal(Reads(deposit, w)))
    BY <1>1, OpenHolds
  <1>7. AsDecimal(Reads(deposit, w)) = AmountIn("order.deposit_amount", w) /\ AsDecimal(Reads(deposit, w)) # Missing
    <2>1. Kind(Reads(deposit, w)) = "number"
      BY <1>3, <1>6 DEF DepositIsMoney
    <2>2. AsDecimal(Reads(deposit, w)) # Missing
      BY <2>1 DEF AsDecimal, Missing, Number
    <2> QED
      BY <1>3, <2>2 DEF AmountIn
  <1> HIDE DEF rest
  <1>8. /\ AsDecimal(Reads(rest, w)) # Missing
        /\ Reads(owed, w) = V31!Product(<<AsDecimal(Reads(rest, w)), AsDecimal(Reads(Percent(20), w))>>)
        /\ IsNumber(Reads(owed, w))
    BY <1>6, PairReads DEF owed
  <1>9. /\ AsDecimal(Reads(ReportTotal, w)) # Missing /\ ArrivedIn(w) # Missing
        /\ Reads(rest, w) = Minus(AsDecimal(Reads(ReportTotal, w)), ArrivedIn(w))
        /\ IsNumber(Reads(rest, w))
    <2>1. Known(Reads(rest, w))
      BY <1>8, UnknownIsNoDecimal
    <2> QED
      BY <1>5, <2>1, PairReads DEF rest
  <1>10. /\ Reads(ReportTotal, w) = WholeIn(w) /\ IsNumber(WholeIn(w))
         /\ \A code \in Required \ {"order.arrival_amount_including_deposit"} : AmountIn(code, w) # Missing
    BY <1>9, UnknownIsNoDecimal, PricesRead
  <1>11. AllRequired(w)
    BY <1>9, <1>10 DEF AllRequired, ArrivedIn
  <1>12. AsDecimal(Reads(rest, w)) = Minus(WholeIn(w), ArrivedIn(w))
    BY <1>9, <1>10, NumbersAreDecimals
  <1>13. AsDecimal(Reads(Percent(20), w)) = Number(20, 100)
    BY LiteralDecimals DEF Percent
  <1>14. Reads(owed, w) = V31!Product(<<Minus(WholeIn(w), ArrivedIn(w)), Number(20, 100)>>)
    BY <1>8, <1>12, <1>13
  <1>15. PyLessEqual(Reads(owed, w), AmountIn("order.deposit_amount", w))
    BY <1>6, <1>7, <1>8, NumbersAreDecimals
  <1> QED
    BY <1>7, <1>11, <1>14, <1>15 DEF DepositIn

\* The share that a special product asks for depends on what was paid before the report.
LEMMA TierHolds ==
    ASSUME Interpretation, NEW id, NEW operator \in {"lte", "gt"}, NEW p \in {50, 70}, NEW w, PlainWorld(w),
           Holds(Tier(id, operator, p), w)
    PROVE  /\ AllRequired(w) /\ ShareIn(p, w)
           /\ operator = "lte" => PyLessEqual(BaseIn(w), Whole(100000))
           /\ operator = "gt" => PyLess(Whole(100000), BaseIn(w))
  <1> DEFINE base == Open(id \o <<"base">>, BaseAmount, operator, Lit(Whole(100000)))
             pay == Pays(id \o <<"pay">>, p)
  <1>1. Tier(id, operator, p) = AllOf(id, <<base, pay>>)
    BY DEF Tier
  <1>2. Holds(base, w) /\ Holds(pay, w)
    <2> HIDE DEF base, pay
    <2> QED
      BY <1>1, TwoHold
  <1>3. AllRequired(w) /\ ShareIn(p, w)
    BY <1>2, PaysHolds
  <1>4. AsDecimal(Reads(Lit(Whole(100000)), w)) = Whole(100000) /\ Whole(100000) # Missing
    <2>1. Whole(100000) = Number(100000, 1)
      BY DEF Whole
    <2>2. IsNumber(Number(100000, 1))
      BY DEF IsNumber
    <2> QED
      BY <2>1, <2>2, LiteralDecimals, NumbersAreDecimals
  <1>5. /\ Known(Reads(BaseAmount, w))
        /\ AsDecimal(Reads(BaseAmount, w)) # Missing =>
              /\ operator = "lte" => PyLessEqual(AsDecimal(Reads(BaseAmount, w)), Whole(100000))
              /\ operator = "gt" => PyLess(Whole(100000), AsDecimal(Reads(BaseAmount, w)))
    BY <1>2, <1>4, OpenHolds
  <1>6. AsDecimal(Reads(BaseAmount, w)) = BaseIn(w) /\ BaseIn(w) # Missing
    <2>1. Known(Reads(BaseAmount, w))
      BY <1>5
    <2>2. Reads(BaseAmount, w) = BaseIn(w) /\ IsNumber(BaseIn(w))
      BY <2>1, PricesRead
    <2>3. AsDecimal(BaseIn(w)) = BaseIn(w) /\ BaseIn(w) # Missing
      BY <2>2, NumbersAreDecimals
    <2> QED
      BY <2>2, <2>3
  <1> QED
    BY <1>3, <1>5, <1>6

-----------------------------------------------------------------------------
(* What the rules of payment ask for                                       *)

IsOneIn(code, ns, w) == PyIn(Raw(code, w), List(Ints(ns)))
FrameworkPays(w) == IsOneIn("order.framework_type", <<0, 2>>, w) /\ (ShareIn(80, w) \/ DepositIn(w))
SpecialPays(w) == \/ PyLessEqual(BaseIn(w), Whole(100000)) /\ ShareIn(70, w)
                  \/ PyLess(Whole(100000), BaseIn(w)) /\ ShareIn(50, w)
IsSpecialIn(w) == IsOneIn("task.product_id", <<759>>, w)

LEMMA PlainCodes ==
    ASSUME NEW w, PlainWorld(w)
    PROVE  /\ Plain("task.product_id", w) /\ Plain("order.framework_type", w)
           /\ Plain("order.customer_org_type", w)
  BY DEF PlainWorld, PaymentCodes

LEMMA SpecialProductHolds ==
    ASSUME Interpretation, NEW p, NEW w, PlainWorld(w), Holds(R3(p), w)
    PROVE  AllRequired(w) /\ IsSpecialIn(w) /\ SpecialPays(w)
  <1> DEFINE product == Eq(p \o <<"r3-product">>, "task.product_id", Special)
             low == Tier(p \o <<"r3-low">>, "lte", 70)
             high == Tier(p \o <<"r3-high">>, "gt", 50)
             tiers == AnyOf(p \o <<"r3-tiers">>, <<low, high>>)
  <1>1. R3(p) = AllOf(p \o <<"r3-special-and-tier">>, <<product, tiers>>)
    BY DEF R3
  <1>2. Holds(product, w) /\ Holds(tiers, w)
    <2> HIDE DEF product, tiers
    <2> QED
      BY <1>1, TwoHold
  <1>3. IsSpecialIn(w)
    BY <1>2, PlainCodes, EqHolds DEF IsSpecialIn, IsOneIn, Special
  <1>4. Holds(low, w) \/ Holds(high, w)
    <2> HIDE DEF low, high
    <2> QED
      BY <1>2, TwoHold
  <1>5. CASE Holds(low, w)
    BY <1>3, <1>5, TierHolds DEF SpecialPays
  <1>6. CASE Holds(high, w)
    BY <1>3, <1>6, TierHolds DEF SpecialPays
  <1> QED
    BY <1>4, <1>5, <1>6

\* The two rules of customers without a framework.
LEMMA CustomerHolds ==
    ASSUME Interpretation, NEW id, NEW w, PlainWorld(w)
    PROVE  /\ Holds(NotSpecial(id), w) => ~IsSpecialIn(w)
           /\ Holds(NonFramework(id), w) => ~IsOneIn("order.framework_type", <<0, 2>>, w)
           /\ Holds(IsFramework(id), w) => IsOneIn("order.framework_type", <<0, 2>>, w)
           /\ Holds(IsEnterprise(id), w) => IsOneIn("order.customer_org_type", <<14, 16>>, w)
  <1>1. Holds(NotSpecial(id), w) => ~IsSpecialIn(w)
    BY PlainCodes, NotSpecialHolds DEF IsSpecialIn, IsOneIn, Special
  <1>2. \A i : Says(IsFramework(i), w) =
                  IF IsOneIn("order.framework_type", <<0, 2>>, w) THEN "pass" ELSE "fail"
    BY PlainCodes, InListSays DEF IsFramework, Framework, IsOneIn
  <1>3. \A i : Says(IsEnterprise(i), w) =
                  IF IsOneIn("order.customer_org_type", <<14, 16>>, w) THEN "pass" ELSE "fail"
    BY PlainCodes, InListSays DEF IsEnterprise, Enterprise, IsOneIn
  <1>4. Holds(NonFramework(id), w) => ~IsOneIn("order.framework_type", <<0, 2>>, w)
    <2>1. Holds(NonFramework(id), w) => Refuses(IsFramework(id \o <<"framework">>), w)
      BY NotOfHolds DEF NonFramework
    <2> QED
      BY <1>2, <2>1 DEF Refuses
  <1> QED
    BY <1>1, <1>2, <1>3, <1>4 DEF Holds

LEMMA EnterpriseHolds ==
    ASSUME Interpretation, NEW p, NEW w, PlainWorld(w), Holds(R5(p), w)
    PROVE  /\ AllRequired(w) /\ ~IsSpecialIn(w) /\ ~IsOneIn("order.framework_type", <<0, 2>>, w)
           /\ IsOneIn("order.customer_org_type", <<14, 16>>, w) /\ CoversIn(WholeIn(w), w)
  <1> DEFINE a == NotSpecial(p \o <<"r5">>)
             b == NonFramework(p \o <<"r5">>)
             c == IsEnterprise(p \o <<"r5">>)
             d == Pays(p \o <<"r5-pay">>, 100)
  <1>1. R5(p) = AllOf(p \o <<"r5-all">>, <<a, b, c, d>>)
    BY DEF R5
  <1>2. Holds(a, w) /\ Holds(b, w) /\ Holds(c, w) /\ Holds(d, w)
    <2> HIDE DEF a, b, c, d
    <2> QED
      BY <1>1, FourHold
  <1>3. AllRequired(w) /\ CoversIn(WholeIn(w), w)
    BY <1>2, PaysHolds
  <1> QED
    BY <1>2, <1>3, CustomerHolds

LEMMA SealedHolds ==
    ASSUME Interpretation, NEW p, NEW w, PlainWorld(w), DepositIsMoney(w), Holds(R6(p), w)
    PROVE  /\ AllRequired(w) /\ ~IsSpecialIn(w) /\ ~IsOneIn("order.framework_type", <<0, 2>>, w)
           /\ ~IsOneIn("order.customer_org_type", <<14, 16>>, w)
           /\ CoversIn(WholeIn(w), w) \/ (ShareIn(80, w) /\ DepositIn(w))
  <1> DEFINE a == NotSpecial(p \o <<"r6">>)
             b == NonFramework(p \o <<"r6">>)
             c == NotOf(p \o <<"r6-non-enterprise">>, IsEnterprise(p \o <<"r6">>))
             whole == Pays(p \o <<"r6-a">>, 100)
             share == Pays(p \o <<"r6-b1">>, 80)
             deposit == DepositPays(p \o <<"r6-b2">>)
             both == AllOf(p \o <<"r6-b">>, <<share, deposit, AllSealed(p)>>)
             d == AnyOf(p \o <<"r6-ab">>, <<whole, both>>)
  <1>1. R6(p) = AllOf(p \o <<"r6-all">>, <<a, b, c, d>>)
    BY DEF R6
  <1>2. Holds(a, w) /\ Holds(b, w) /\ Holds(c, w) /\ Holds(d, w)
    <2> HIDE DEF a, b, c, d
    <2> QED
      BY <1>1, FourHold
  <1>3. ~IsOneIn("order.customer_org_type", <<14, 16>>, w)
    <2>1. Refuses(IsEnterprise(p \o <<"r6">>), w)
      BY <1>2, NotOfHolds
    <2>2. Says(IsEnterprise(p \o <<"r6">>), w) =
            IF IsOneIn("order.customer_org_type", <<14, 16>>, w) THEN "pass" ELSE "fail"
      BY PlainCodes, InListSays DEF IsEnterprise, Enterprise, IsOneIn
    <2> QED
      BY <2>1, <2>2 DEF Refuses
  <1>4. Holds(whole, w) \/ Holds(both, w)
    <2> HIDE DEF whole, both
    <2> QED
      BY <1>2, TwoHold
  <1>5. Holds(both, w) => Holds(share, w) /\ Holds(deposit, w)
    <2> HIDE DEF share, deposit
    <2> QED
      BY ThreeHold
  <1>6. Holds(whole, w) => AllRequired(w) /\ CoversIn(WholeIn(w), w)
    BY PaysHolds
  <1>7. Holds(share, w) => ShareIn(80, w)
    BY PaysHolds
  <1>8. Holds(deposit, w) => AllRequired(w) /\ DepositIn(w)
    BY DepositHolds
  <1>9. ~IsSpecialIn(w) /\ ~IsOneIn("order.framework_type", <<0, 2>>, w)
    BY <1>2, CustomerHolds
  <1> HIDE DEF a, b, c, d, whole, both, share, deposit
  <1> QED
    BY <1>3, <1>4, <1>5, <1>6, <1>7, <1>8, <1>9

LEMMA FrameworkHolds ==
    ASSUME Interpretation, NEW p, NEW w, PlainWorld(w), DepositIsMoney(w), Holds(R7(p), w)
    PROVE  AllRequired(w) /\ FrameworkPays(w)
  <1> DEFINE a == IsFramework(p \o <<"r7-framework">>)
             share == Pays(p \o <<"r7-pay">>, 80)
             deposit == DepositPays(p \o <<"r7-deposit">>)
             d == AnyOf(p \o <<"r7-or">>, <<share, deposit>>)
  <1>1. R7(p) = AllOf(p \o <<"r7-all">>, <<a, d>>)
    BY DEF R7
  <1>2. Holds(a, w) /\ Holds(d, w)
    <2> HIDE DEF a, d
    <2> QED
      BY <1>1, TwoHold
  <1>3. Holds(share, w) \/ Holds(deposit, w)
    <2> HIDE DEF share, deposit
    <2> QED
      BY <1>2, TwoHold
  <1>4. Holds(share, w) => AllRequired(w) /\ ShareIn(80, w)
    BY PaysHolds
  <1>5. Holds(deposit, w) => AllRequired(w) /\ DepositIn(w)
    BY DepositHolds
  <1>6. IsOneIn("order.framework_type", <<0, 2>>, w)
    BY <1>2, CustomerHolds
  <1> HIDE DEF a, d, share, deposit
  <1> QED
    BY <1>3, <1>4, <1>5, <1>6 DEF FrameworkPays

\* What was paid when one of the four rules of payment holds.
PaidWorld(w) ==
    /\ AllRequired(w)
    /\ CASE IsSpecialIn(w) -> FrameworkPays(w) \/ SpecialPays(w)
         [] ~IsSpecialIn(w) /\ IsOneIn("order.framework_type", <<0, 2>>, w) -> FrameworkPays(w)
         [] ~IsSpecialIn(w) /\ ~IsOneIn("order.framework_type", <<0, 2>>, w)
            /\ IsOneIn("order.customer_org_type", <<14, 16>>, w)  -> CoversIn(WholeIn(w), w)
         [] OTHER -> CoversIn(WholeIn(w), w) \/ (ShareIn(80, w) /\ DepositIn(w))

LEMMA PaymentRulesHold ==
    ASSUME Interpretation, NEW p, NEW w, PlainWorld(w), DepositIsMoney(w),
           Holds(R3(p), w) \/ Holds(R5(p), w) \/ Holds(R6(p), w) \/ Holds(R7(p), w)
    PROVE  PaidWorld(w)
  <1>1. CASE Holds(R3(p), w)
    BY <1>1, SpecialProductHolds DEF PaidWorld
  <1>2. CASE Holds(R5(p), w)
    BY <1>2, EnterpriseHolds DEF PaidWorld
  <1>3. CASE Holds(R6(p), w)
    <2> DEFINE special == IsSpecialIn(w)
               framework == IsOneIn("order.framework_type", <<0, 2>>, w)
               enterprise == IsOneIn("order.customer_org_type", <<14, 16>>, w)
               whole == CoversIn(WholeIn(w), w)
               part == ShareIn(80, w) /\ DepositIn(w)
               paid == CASE special -> FrameworkPays(w) \/ SpecialPays(w)
                         [] ~special /\ framework -> FrameworkPays(w)
                         [] ~special /\ ~framework /\ enterprise -> whole
                         [] OTHER -> whole \/ part
    <2>1. AllRequired(w) /\ ~special /\ ~framework /\ ~enterprise /\ (whole \/ part)
      BY <1>3, SealedHolds
    <2>2. AllRequired(w) /\ paid => PaidWorld(w)
      BY DEF PaidWorld
    <2> HIDE DEF special, framework, enterprise, whole, part
    <2>3. whole \/ part => paid
      BY <2>1
    <2> HIDE DEF paid
    <2>4. paid /\ AllRequired(w)
      BY <2>1, <2>3
    <2> QED
      BY <2>2, <2>4
  <1>4. CASE Holds(R7(p), w)
    <2>1. AllRequired(w) /\ FrameworkPays(w) /\ IsOneIn("order.framework_type", <<0, 2>>, w)
      BY <1>4, FrameworkHolds DEF FrameworkPays
    <2>2. CASE IsSpecialIn(w)
      BY <2>1, <2>2 DEF PaidWorld
    <2>3. CASE ~IsSpecialIn(w)
      BY <2>1, <2>3 DEF PaidWorld
    <2> QED
      BY <2>2, <2>3
  <1> QED
    BY <1>1, <1>2, <1>3, <1>4

-----------------------------------------------------------------------------
(* When a report is ready                                                  *)

\* No rule of a stage passes or is open.
Calm(stage, w) == \A i \in DOMAIN stage.rules : Says(stage.rules[i].when, w) \notin {"pass", "indeterminate"}
ReportCodes == <<"R0", "R1", "R9", "R4", "R2", "R3", "R8", "R5", "R6", "R7">>
Waiting(d) == Decision(d) /\ ~d.done /\ d.outcome # "READY"
Held(d)    == Decision(d) /\ d.done /\ d.outcome # "READY"

\* A stage that guards leaves a decision as it is, or ends it with another outcome.
LEMMA GuardingStage ==
    ASSUME NEW stage, NEW w, NEW d, Decision(d), stage.stage # "eligibility", DOMAIN stage.rules \subseteq Nat,
           \A i \in DOMAIN stage.rules : IsActive(stage.rules[i]) /\ stage.rules[i].outcome # "READY"
    PROVE  /\ Held(d) => Held(StageStep(stage, Saying(stage, w), d))
           /\ ~d.done /\ Calm(stage, w) => StageStep(stage, Saying(stage, w), d) = d
           /\ ~d.done /\ ~Calm(stage, w) => Held(StageStep(stage, Saying(stage, w), d))
  <1> DEFINE r == Saying(stage, w)
  <1>1. Active(stage) = DOMAIN stage.rules
    BY DEF Active
  <1>2. \A i \in Active(stage) : r[i] = Says(stage.rules[i].when, w)
    BY DEF Saying
  <1> HIDE DEF r
  <1>3. Decision(StageStep(stage, r, d))
    BY StepKeepsDecision
  <1>4. Held(d) => Held(StageStep(stage, r, d))
    BY StepOfADecision DEF Held
  <1>5. ASSUME ~d.done, Calm(stage, w) PROVE StageStep(stage, r, d) = d
    <2>1. \A i \in Active(stage) : r[i] \notin {"pass", "indeterminate"}
      BY <1>1, <1>2, <1>5 DEF Calm
    <2> QED
      BY <1>5, <2>1, StepWithoutHit
  <1>6. ASSUME ~d.done, ~Calm(stage, w) PROVE Held(StageStep(stage, r, d))
    <2>1. PICK i \in Active(stage) : r[i] \in {"pass", "indeterminate"}
      BY <1>1, <1>2, <1>6 DEF Calm
    <2>2. CASE \E k \in Active(stage) : r[k] = "pass"
      <3>1. PICK k \in Active(stage) : /\ StageStep(stage, r, d).outcome = stage.rules[k].outcome
                                       /\ StageStep(stage, r, d).done = (stage.stage # "eligibility")
        BY <1>6, <2>2, StepThatHits
      <3> QED
        BY <1>1, <1>3, <3>1 DEF Held
    <2>3. CASE ~\E k \in Active(stage) : r[k] = "pass"
      <3>1. StageStep(stage, r, d).done /\ StageStep(stage, r, d).outcome = "INDETERMINATE"
        BY <1>6, <2>1, <2>3, StepWithoutHit
      <3> QED
        BY <1>3, <3>1 DEF Held
    <2> QED
      BY <2>2, <2>3
  <1> QED
    BY <1>4, <1>5, <1>6 DEF r

LEMMA ShapeOfTheReport ==
    /\ \A n \in {1, 2, 4, 5} :
          /\ ReportStages[n].stage # "eligibility" /\ DOMAIN ReportStages[n].rules \subseteq Nat
          /\ \A i \in DOMAIN ReportStages[n].rules :
                IsActive(ReportStages[n].rules[i]) /\ ReportStages[n].rules[i].outcome # "READY"
    /\ ReportStages[3].stage = "eligibility" /\ DOMAIN ReportStages[3].rules = 1 .. 10
    /\ \A i \in 1 .. 10 : /\ IsActive(ReportStages[3].rules[i]) /\ ReportStages[3].rules[i].outcome = "READY"
                          /\ ReportStages[3].rules[i].when = AllEligibility(<<>>)[i]
                          /\ ReportStages[3].rules[i].code = ReportCodes[i]
    /\ DOMAIN ReportStages[1].rules = {1} /\ DOMAIN ReportStages[2].rules = 1 .. 6
    /\ DOMAIN ReportStages[4].rules = {1} /\ DOMAIN ReportStages[5].rules = {1}
    /\ ReportStages[1].rules[1].when = StatusTerminal(<<"status-terminal">>, "report.release_status")
    /\ ReportStages[2].rules = ReportPrerequisites
    /\ ReportStages[4].rules[1].when = MergeUnsatisfied
    /\ ReportStages[5].rules[1].when = IsTrue(<<"oa-in-process">>, "task.in_project_report_release_oa")
  <1>1. /\ ReportStages[1].stage # "eligibility" /\ ReportStages[2].stage # "eligibility"
        /\ ReportStages[4].stage # "eligibility" /\ ReportStages[5].stage # "eligibility"
        /\ ReportStages[3].stage = "eligibility"
    BY DEF ReportStages
  <1>2. \A code, p, when, outcome :
          /\ IsActive(Match(code, p, when, outcome)) /\ Match(code, p, when, outcome).outcome = outcome
          /\ Match(code, p, when, outcome).when = when
    BY DEF Match, Rule, IsActive
  <1>3. /\ ReportStages[1].rules =
             <<Match("REPORT_STATUS_TERMINAL", 10, StatusTerminal(<<"status-terminal">>, "report.release_status"), "SKIPPED")>>
        /\ ReportStages[2].rules = ReportPrerequisites
        /\ ReportStages[4].rules = <<Match("MERGE_GROUP_UNSATISFIED", 10, MergeUnsatisfied, "WAITING_CONDITIONS")>>
        /\ ReportStages[5].rules =
             <<Match("OA_PROCESS_SCOPE", 10, IsTrue(<<"oa-in-process">>, "task.in_project_report_release_oa"),
                     "WAITING_CONDITIONS")>>
        /\ ReportStages[3].rules = [i \in DOMAIN ReportCodes |-> Ready(ReportCodes[i], 10 * i, AllEligibility(<<>>)[i])]
    BY DEF ReportStages, ReportCodes
  <1>4. \A n \in {1, 4, 5} :
          /\ DOMAIN ReportStages[n].rules = {1}
          /\ IsActive(ReportStages[n].rules[1]) /\ ReportStages[n].rules[1].outcome # "READY"
    BY <1>2, <1>3
  <1>5. /\ ReportStages[1].rules[1].when = StatusTerminal(<<"status-terminal">>, "report.release_status")
        /\ ReportStages[4].rules[1].when = MergeUnsatisfied
        /\ ReportStages[5].rules[1].when = IsTrue(<<"oa-in-process">>, "task.in_project_report_release_oa")
    BY <1>2, <1>3
  <1>6. /\ DOMAIN ReportPrerequisites = 1 .. 6
        /\ \A i \in 1 .. 6 : IsActive(ReportPrerequisites[i]) /\ ReportPrerequisites[i].outcome # "READY"
    <2> DEFINE r == ReportPrerequisites
    <2>1. DOMAIN r = 1 .. 6
      BY DEF ReportPrerequisites
    <2>2. /\ IsActive(r[1]) /\ IsActive(r[2]) /\ IsActive(r[3]) /\ IsActive(r[4]) /\ IsActive(r[5]) /\ IsActive(r[6])
      BY <1>2 DEF ReportPrerequisites
    <2>3. /\ r[1].outcome # "READY" /\ r[2].outcome # "READY" /\ r[3].outcome # "READY"
          /\ r[4].outcome # "READY" /\ r[5].outcome # "READY" /\ r[6].outcome # "READY"
      BY <1>2 DEF ReportPrerequisites
    <2>4. \A i \in 1 .. 6 : i \in {1, 2, 3, 4, 5, 6}
      OBVIOUS
    <2> HIDE DEF r
    <2>5. \A i \in 1 .. 6 : IsActive(r[i]) /\ r[i].outcome # "READY"
      BY <2>2, <2>3, <2>4
    <2> QED
      BY <2>1, <2>5 DEF r
  <1>7. /\ DOMAIN ReportStages[3].rules = 1 .. 10
        /\ \A i \in 1 .. 10 : /\ IsActive(ReportStages[3].rules[i]) /\ ReportStages[3].rules[i].outcome = "READY"
                              /\ ReportStages[3].rules[i].when = AllEligibility(<<>>)[i]
                              /\ ReportStages[3].rules[i].code = ReportCodes[i]
    <2>1. DOMAIN ReportCodes = 1 .. 10
      BY DEF ReportCodes
    <2>2. DOMAIN ReportStages[3].rules = 1 .. 10
      BY <1>3, <2>1
    <2>3. ASSUME NEW i \in 1 .. 10
          PROVE  ReportStages[3].rules[i] = Ready(ReportCodes[i], 10 * i, AllEligibility(<<>>)[i])
      BY <1>3, <2>1
    <2>4. ASSUME NEW i \in 1 .. 10
          PROVE  /\ IsActive(ReportStages[3].rules[i]) /\ ReportStages[3].rules[i].outcome = "READY"
                 /\ ReportStages[3].rules[i].when = AllEligibility(<<>>)[i]
                 /\ ReportStages[3].rules[i].code = ReportCodes[i]
      <3>1. \A code, p, when : /\ IsActive(Ready(code, p, when)) /\ Ready(code, p, when).outcome = "READY"
                                /\ Ready(code, p, when).when = when /\ Ready(code, p, when).code = code
        BY DEF Ready, Rule, IsActive
      <3> DEFINE rule == ReportStages[3].rules[i]
                 when == AllEligibility(<<>>)[i]
                 priority == 10 * i
      <3>2. rule = Ready(ReportCodes[i], priority, when)
        BY <2>3
      <3> HIDE DEF rule, when, priority
      <3>3. IsActive(rule) /\ rule.outcome = "READY" /\ rule.when = when /\ rule.code = ReportCodes[i]
        BY <3>1, <3>2
      <3> QED
        BY <3>3 DEF rule, when
    <2> QED
      BY <2>2, <2>4
  <1>8. \A n \in {1, 2, 4, 5} :
          /\ ReportStages[n].stage # "eligibility" /\ DOMAIN ReportStages[n].rules \subseteq Nat
          /\ \A i \in DOMAIN ReportStages[n].rules :
                IsActive(ReportStages[n].rules[i]) /\ ReportStages[n].rules[i].outcome # "READY"
    <2>1. \A n \in {1, 4, 5} :
          /\ ReportStages[n].stage # "eligibility" /\ DOMAIN ReportStages[n].rules \subseteq Nat
          /\ \A i \in DOMAIN ReportStages[n].rules :
                IsActive(ReportStages[n].rules[i]) /\ ReportStages[n].rules[i].outcome # "READY"
      BY <1>1, <1>4
    <2>2. /\ ReportStages[2].stage # "eligibility" /\ DOMAIN ReportStages[2].rules \subseteq Nat
          /\ \A i \in DOMAIN ReportStages[2].rules :
                IsActive(ReportStages[2].rules[i]) /\ ReportStages[2].rules[i].outcome # "READY"
      BY <1>1, <1>3, <1>6
    <2> QED
      BY <2>1, <2>2
  <1> QED
    BY <1>1, <1>3, <1>4, <1>5, <1>6, <1>7, <1>8

\* A report is ready when nothing holds it and one of the ten rules passes, and only then.
LEMMA ReadyReport ==
    ASSUME NEW w
    PROVE  LET d == Decided5(Trees["report"].candidate, w)
           IN  /\ d.outcome = "READY" =>
                    /\ \A n \in {1, 2, 4, 5} : Calm(ReportStages[n], w)
                    /\ \E k \in 1 .. 10 : /\ Says(AllEligibility(<<>>)[k], w) = "pass"
                                          /\ d.matched = <<ReportCodes[k]>>
               /\ (/\ \A n \in {1, 2, 4, 5} : Calm(ReportStages[n], w)
                   /\ \E k \in 1 .. 10 : Says(AllEligibility(<<>>)[k], w) = "pass") => d.outcome = "READY"
  <1> DEFINE stage(n) == ReportStages[n]
             step(n, d) == StageStep(stage(n), Saying(stage(n), w), d)
             d0 == Undecided(Trees["report"].candidate)
             d1 == step(1, d0)
             d2 == step(2, d1)
             d3 == step(3, d2)
             d4 == step(4, d3)
             d5 == step(5, d4)
  <1>1. Decided5(Trees["report"].candidate, w) = d5
    BY ShapeOfTheTrees DEF Decided5
  <1>2. Waiting(d0) /\ d0.matched = <<>>
    BY ShapeOfTheTrees DEF Waiting, Decision, Undecided
  <1>3. ASSUME NEW n \in {1, 2, 4, 5}, NEW d, Decision(d)
        PROVE  /\ Held(d) => Held(step(n, d))
               /\ ~d.done /\ Calm(stage(n), w) => step(n, d) = d
               /\ ~d.done /\ ~Calm(stage(n), w) => Held(step(n, d))
    BY <1>3, ShapeOfTheReport, GuardingStage
  <1>4. ASSUME NEW d, Held(d) PROVE Held(step(3, d))
    BY <1>4, StepOfADecision DEF Held
  <1>5. ASSUME NEW d, Waiting(d), d.matched = <<>>
        PROVE  /\ (\E k \in 1 .. 10 : Says(AllEligibility(<<>>)[k], w) = "pass") =>
                     /\ Decision(step(3, d)) /\ ~step(3, d).done /\ step(3, d).outcome = "READY"
                     /\ \E k \in 1 .. 10 : /\ Says(AllEligibility(<<>>)[k], w) = "pass"
                                           /\ step(3, d).matched = <<ReportCodes[k]>>
               /\ ~(\E k \in 1 .. 10 : Says(AllEligibility(<<>>)[k], w) = "pass") =>
                     Waiting(step(3, d)) \/ Held(step(3, d))
    <2> DEFINE s == ReportStages[3]
               r == Saying(s, w)
    <2>0. DOMAIN s.rules = 1 .. 10 /\ s.stage = "eligibility"
      BY ShapeOfTheReport
    <2>1. Active(s) = 1 .. 10 /\ DOMAIN s.rules \subseteq Nat /\ s.stage = "eligibility"
      <3>1. \A i \in 1 .. 10 : IsActive(s.rules[i])
        BY ShapeOfTheReport
      <3> HIDE DEF s
      <3> QED
        BY <2>0, <3>1 DEF Active
    <2>2. \A i \in 1 .. 10 : r[i] = Says(AllEligibility(<<>>)[i], w) /\ s.rules[i].outcome = "READY"
                             /\ s.rules[i].code = ReportCodes[i]
      BY <2>1, ShapeOfTheReport DEF Saying
    <2> HIDE DEF s, r
    <2>3. Decision(StageStep(s, r, d)) /\ Decision(d) /\ ~d.done /\ d.outcome # "READY"
      BY <1>5, StepKeepsDecision DEF Waiting
    <2>4. ASSUME \E k \in 1 .. 10 : Says(AllEligibility(<<>>)[k], w) = "pass"
          PROVE  /\ ~StageStep(s, r, d).done /\ StageStep(s, r, d).outcome = "READY"
                 /\ \E k \in 1 .. 10 : /\ Says(AllEligibility(<<>>)[k], w) = "pass"
                                       /\ StageStep(s, r, d).matched = <<ReportCodes[k]>>
      <3>1. \E i \in Active(s) : r[i] = "pass"
        BY <2>1, <2>2, <2>4
      <3>2. PICK k \in Active(s) : /\ r[k] = "pass"
                                   /\ StageStep(s, r, d).outcome = s.rules[k].outcome
                                   /\ StageStep(s, r, d).matched = Append(d.matched, s.rules[k].code)
                                   /\ StageStep(s, r, d).done = (s.stage # "eligibility")
        <4>1. DOMAIN s.rules \subseteq Nat /\ Decision(d) /\ ~d.done
          BY <2>1, <2>3
        <4> QED
          BY <3>1, <4>1, StepThatHits
      <3>3. Append(d.matched, s.rules[k].code) = <<s.rules[k].code>>
        BY <1>5
      <3> QED
        BY <2>1, <2>2, <3>2, <3>3
    <2>5. ASSUME ~\E k \in 1 .. 10 : Says(AllEligibility(<<>>)[k], w) = "pass"
          PROVE  Waiting(StageStep(s, r, d)) \/ Held(StageStep(s, r, d))
      <3>1. ~\E i \in Active(s) : r[i] = "pass"
        BY <2>1, <2>2, <2>5
      <3>2. CASE \E i \in Active(s) : r[i] = "indeterminate"
        BY <2>3, <3>1, <3>2, StepWithoutHit DEF Held
      <3>3. CASE \A i \in Active(s) : r[i] # "indeterminate"
        BY <1>5, <2>3, <3>1, <3>3, StepWithoutHit
      <3> QED
        BY <3>2, <3>3
    <2> QED
      BY <2>3, <2>4, <2>5 DEF s, r
  <1> HIDE DEF step
  <1>6. \A d : Held(d) => Decision(d) /\ d.outcome # "READY"
    BY DEF Held
  <1>7. \A d : Waiting(d) => Decision(d) /\ ~d.done /\ d.outcome # "READY"
    BY DEF Waiting
  <1> DEFINE calm(n) == Calm(stage(n), w)
             some == \E k \in 1 .. 10 : Says(AllEligibility(<<>>)[k], w) = "pass"
             matching(d) == \E k \in 1 .. 10 : /\ Says(AllEligibility(<<>>)[k], w) = "pass"
                                               /\ d.matched = <<ReportCodes[k]>>
  <1>8. /\ \A d : Held(d) => Held(step(1, d)) /\ Held(step(2, d)) /\ Held(step(3, d)) /\ Held(step(4, d)) /\ Held(step(5, d))
    BY <1>3, <1>4, <1>6
  <1>9. \A d : Decision(d) /\ ~d.done =>
          /\ calm(1) => step(1, d) = d
          /\ calm(2) => step(2, d) = d
          /\ calm(4) => step(4, d) = d
          /\ calm(5) => step(5, d) = d
          /\ ~calm(1) => Held(step(1, d))
          /\ ~calm(2) => Held(step(2, d))
          /\ ~calm(4) => Held(step(4, d))
          /\ ~calm(5) => Held(step(5, d))
    BY <1>3
  <1>10. \A d : Waiting(d) /\ d.matched = <<>> =>
          /\ some => Decision(step(3, d)) /\ ~step(3, d).done /\ step(3, d).outcome = "READY" /\ matching(step(3, d))
          /\ ~some => Waiting(step(3, d)) \/ Held(step(3, d))
    BY <1>5
  <1> HIDE DEF calm, some, matching
  <1>11. CASE calm(1) /\ calm(2)
    <2>1. d1 = d0 /\ d2 = d0
      BY <1>2, <1>7, <1>9, <1>11
    <2>2. CASE some
      <3>1. Decision(d3) /\ ~d3.done /\ d3.outcome = "READY" /\ matching(d3)
        BY <1>2, <1>10, <2>1, <2>2
      <3>2. CASE calm(4) /\ calm(5)
        <4>1. d4 = d3 /\ d5 = d3
          BY <1>9, <3>1, <3>2
        <4> HIDE DEF d5, d3, d0
        <4>2. d5.outcome = "READY" /\ matching(d5)
          BY <3>1, <4>1
        <4> QED
          BY <1>1, <1>11, <3>2, <4>2 DEF calm, matching
      <3>3. CASE ~(calm(4) /\ calm(5))
        <4>1. Held(d5)
          BY <1>8, <1>9, <3>1, <3>3
        <4> QED
          BY <1>1, <1>6, <3>3, <4>1 DEF calm
      <3> QED
        BY <3>2, <3>3
    <2>3. CASE ~some
      <3>1. Waiting(d3) \/ Held(d3)
        BY <1>2, <1>10, <2>1, <2>3
      <3>2. d5.outcome # "READY"
        <4>1. CASE Held(d3)
          BY <1>6, <1>8, <4>1
        <4>2. CASE Waiting(d3)
          <5>1. Held(d4) \/ d4 = d3
            BY <1>7, <1>9, <4>2
          <5>2. Held(d5) \/ d5 = d3
            <6>1. CASE Held(d4)
              BY <1>8, <6>1
            <6>2. CASE d4 = d3
              BY <1>7, <1>9, <4>2, <6>2
            <6> QED
              BY <5>1, <6>1, <6>2
          <5> HIDE DEF d5, d3
          <5> QED
            BY <1>6, <1>7, <4>2, <5>2
        <4> QED
          BY <3>1, <4>1, <4>2
      <3> QED
        BY <1>1, <2>3, <3>2 DEF some
    <2> QED
      BY <2>2, <2>3
  <1>12. CASE ~(calm(1) /\ calm(2))
    <2>1. Held(d2)
      <3>1. CASE ~calm(1)
        BY <1>2, <1>7, <1>8, <1>9, <3>1
      <3>2. CASE calm(1) /\ ~calm(2)
        BY <1>2, <1>7, <1>9, <3>2
      <3> QED
        BY <1>12, <3>1, <3>2
    <2>2. d5.outcome # "READY"
      BY <1>6, <1>8, <2>1
    <2> QED
      BY <1>1, <1>12, <2>2 DEF calm
  <1> QED
    BY <1>11, <1>12

-----------------------------------------------------------------------------
(* The facts of the report's catalogue                                     *)

\* A set of numbers up to n that is not empty has a greatest element.
LEMMA MaxIsGreatest ==
    ASSUME NEW n \in Nat, NEW T, T \subseteq 1 .. n, T # {}
    PROVE  Max(T) \in T
  <1> DEFINE Smaller == {ss \in Nat \X Nat : ss[1] < ss[2]}
             above   == {k \in Nat : n - k \in T}
  <1>1. OpToRel(<, Nat) = Smaller
    BY DEF OpToRel
  <1>2. above \subseteq Nat /\ above # {}
    <2>1. PICK i \in T : TRUE
      OBVIOUS
    <2>2. n - i \in above
      BY <2>1
    <2> QED
      BY <2>2
  <1>3. PICK m \in above : \A k \in above : ~(<<k, m>> \in Smaller)
    <2> HIDE DEF above, Smaller
    <2> QED
      BY <1>1, <1>2, NatLessThanWellFounded, WFMin
  <1>4. PICK i \in T : m = n - i
    OBVIOUS
  <1>5. \A j \in T : i >= j
    <2> TAKE j \in T
    <2>1. j \in 1 .. n /\ i \in 1 .. n
      OBVIOUS
    <2>2. n - j \in Nat /\ n - (n - j) = j
      BY <2>1
    <2>3. n - j \in above
      BY <2>2
    <2>4. ~(n - j < n - i)
      BY <1>2, <1>3, <1>4, <2>3
    <2> QED
      BY <2>1, <2>4
  <1> QED
    BY <1>5 DEF Max

ReportMap == FactMap(Trees["report"].catalog)

\* A fact of the map is that of a row of the plan.
LEMMA FactOfARow ==
    ASSUME NEW code \in DOMAIN ReportMap
    PROVE  \E i \in 1 .. 33 :
             /\ ReportFacts[i][1] = code
             /\ ReportMap[code].type = ReportFacts[i][2] /\ ReportMap[code].nullable = TRUE
             /\ ReportMap[code].allowed = IF ReportFacts[i][2] = "enum" THEN Statuses ELSE <<>>
  <1> DEFINE catalog == ReportCatalog("frozen")
             facts == catalog.facts
             places == {i \in 1 .. Len(facts) : facts[i].code = code}
             last == LastPlace(facts, code)
  <1>1. Trees["report"].catalog = catalog
    BY DEF Trees
  <1>2. \A id, rows, file : BuildCatalog(id, rows, file).facts = [i \in DOMAIN rows |-> Confirmed(rows[i])]
    BY DEF BuildCatalog, Overlay
  <1>3. facts = [i \in DOMAIN ReportFacts |-> Confirmed(ReportFacts[i])]
    BY <1>2 DEF ReportCatalog
  <1>4. DOMAIN ReportFacts = 1 .. 33 /\ Len(ReportFacts) = 33
    BY DEF ReportFacts
  <1>5. DOMAIN facts = 1 .. 33 /\ Len(facts) = 33 /\ \A i \in 1 .. 33 : facts[i] = Confirmed(ReportFacts[i])
    BY <1>3, <1>4
  <1>6. ReportMap = [c \in ToSet(Codes(facts)) |-> Overlay([kind |-> "source"], facts[LastPlace(facts, c)])]
    BY <1>1 DEF FactMap, ReportMap
  <1> HIDE DEF facts
  <1>7. code \in ToSet(Codes(facts)) /\ ReportMap[code] = Overlay([kind |-> "source"], facts[last])
    BY <1>6
  <1>8. PICK i \in 1 .. 33 : facts[i].code = code
    BY <1>5, <1>7 DEF ToSet, Codes
  <1>9. places # {}
    BY <1>5, <1>8
  <1>10. last = Max(places)
    BY <1>9 DEF LastPlace, SelectLastInSeq
  <1>11. last \in places
    BY <1>5, <1>9, <1>10, MaxIsGreatest
  <1>12. last \in 1 .. 33 /\ Confirmed(ReportFacts[last]).code = code /\ facts[last] = Confirmed(ReportFacts[last])
    BY <1>5, <1>11
  <1> HIDE DEF last, places
  <1>13. /\ Confirmed(ReportFacts[last]).code = ReportFacts[last][1]
         /\ Overlay([kind |-> "source"], Confirmed(ReportFacts[last])).type = ReportFacts[last][2]
         /\ Overlay([kind |-> "source"], Confirmed(ReportFacts[last])).nullable = TRUE
         /\ Overlay([kind |-> "source"], Confirmed(ReportFacts[last])).allowed
              = IF ReportFacts[last][2] = "enum" THEN Statuses ELSE <<>>
    BY DEF Overlay, Confirmed
  <1> QED
    BY <1>7, <1>12, <1>13

\* Only two facts are dates; the deposit is money; the guards are a status, two flags and two yes or no.
LEMMA TypesOfRows ==
    /\ \A i \in 1 .. 33 : ReportFacts[i][2] \in TemporalTypes =>
          ReportFacts[i][1] \in {"task.completion_date", "contract.countersign_date"}
    /\ \A i \in 1 .. 33 : ReportFacts[i][1] = "order.deposit_amount" => ReportFacts[i][2] = "money"
  <1>1. \A i \in 1 .. 33 : i \in {1, 2, 3, 4, 5, 6, 7, 8, 9, 10, 11, 12, 13, 14, 15, 16, 17, 18, 19, 20, 21, 22,
                                  23, 24, 25, 26, 27, 28, 29, 30, 31, 32, 33}
    OBVIOUS
  <1>2. \A i \in 1 .. 33 : ReportFacts[i][2] \in TemporalTypes => i \in {11, 30}
    BY <1>1 DEF ReportFacts, TemporalTypes
  <1>3. /\ ReportFacts[11][1] = "task.completion_date" /\ ReportFacts[30][1] = "contract.countersign_date"
        /\ ReportFacts[20][2] = "money"
    BY DEF ReportFacts
  <1>4. \A i \in 1 .. 33 : ReportFacts[i][1] = "order.deposit_amount" => i = 20
    BY <1>1 DEF ReportFacts
  <1> QED
    BY <1>2, <1>3, <1>4

LEMMA FactsOfAWorld ==
    ASSUME NEW facts, NEW about, NEW w, w = World("report", facts, about)
    PROVE  /\ w.facts = ReportMap /\ w.context.facts = facts /\ w.context.members = about
           /\ \A code : Raw(code, w) = IF code \in DOMAIN facts THEN facts[code] ELSE Missing
  <1>1. w.facts = ReportMap /\ w.context.facts = facts /\ w.context.members = about
    BY DEF World, ReportMap
  <1> QED
    BY <1>1 DEF Raw

LEMMA ReportsArePlain ==
    ASSUME NEW facts, NEW about, NEW w, w = World("report", facts, about)
    PROVE  /\ PlainWorld(w)
           /\ GivenFits(facts, ReportMap) => DepositIsMoney(w)
  <1>1. w.facts = ReportMap
    BY FactsOfAWorld
  <1>2. ASSUME NEW code \in PaymentCodes PROVE Plain(code, w)
    <2>1. CASE code \notin DOMAIN ReportMap
      BY <1>1, <2>1 DEF Plain
    <2>2. CASE code \in DOMAIN ReportMap
      <3>1. PICK i \in 1 .. 33 : ReportFacts[i][1] = code /\ ReportMap[code].type = ReportFacts[i][2]
        BY <2>2, FactOfARow
      <3>2. code \notin {"task.completion_date", "contract.countersign_date"}
        BY DEF PaymentCodes, Required
      <3>3. ReportMap[code].type \notin TemporalTypes
        BY <3>1, <3>2, TypesOfRows
      <3> QED
        BY <1>1, <3>3 DEF Plain
    <2> QED
      BY <2>1, <2>2
  <1>3. ASSUME GivenFits(facts, ReportMap) PROVE DepositIsMoney(w)
    <2> DEFINE code == "order.deposit_amount"
    <2>1. SUFFICES ASSUME Known(Raw(code, w)) PROVE Kind(Raw(code, w)) = "number"
      BY DEF DepositIsMoney
    <2>2. code \in DOMAIN facts /\ Raw(code, w) = facts[code]
      <3>1. ~Known(Missing)
        BY DEF Known, Kind, Missing
      <3> QED
        BY <2>1, <3>1, FactsOfAWorld
    <2>3. code \in DOMAIN ReportMap /\ FitsFact(facts[code], ReportMap[code])
      BY <1>3, <2>2 DEF GivenFits
    <2>4. PICK i \in 1 .. 33 : ReportFacts[i][1] = code /\ ReportMap[code].type = ReportFacts[i][2]
      BY <2>3, FactOfARow
    <2>5. ReportMap[code].type = "money"
      BY <2>4, TypesOfRows
    <2>6. facts[code] # Null
      BY <2>1, <2>2 DEF Known, Kind, Null
    <2>7. V31!MatchesType(facts[code], "money")
      BY <2>3, <2>5, <2>6 DEF FitsFact
    <2> HIDE DEF code
    <2>8. V31!Kind(facts[code]) = "number"
      BY <2>7 DEF V31!MatchesType
    <2> QED
      BY <2>2, <2>8, SameValues
  <1> QED
    BY <1>2, <1>3 DEF PlainWorld

\* What is paid in the world of the facts is paid in the facts.
LEMMA WorldOfTheFacts ==
    ASSUME NEW w, w = World("report", factsKnown, membersKnown), PaidWorld(w)
    PROVE  Paid
  <1>1. \A code : Raw(code, w) = IF code \in DOMAIN factsKnown THEN factsKnown[code] ELSE Missing
    BY FactsOfAWorld
  <1>2. AsDecimal(Missing) = Missing
    BY DEF AsDecimal, Missing, Kind
  <1>3. \A code : IsAmount(code) <=> AmountIn(code, w) # Missing
    BY <1>1, <1>2 DEF IsAmount, AmountIn
  <1>4. \A code : IsAmount(code) => Amount(code) = AmountIn(code, w)
    BY <1>1 DEF IsAmount, Amount, AmountIn
  <1>5. \A code, ns : IsOneOf(code, ns) <=> IsOneIn(code, ns, w)
    <2>1. ASSUME NEW code, NEW ns PROVE IsOneOf(code, ns) <=> IsOneIn(code, ns, w)
      <3>1. ~Known(Missing)
        BY DEF Known, Kind, Missing
      <3>2. ~PyIn(Missing, List(Ints(ns)))
        BY <3>1, ListOfNumbers
      <3> QED
        BY <1>1, <3>2 DEF IsOneOf, IsOneIn
    <2> QED
      BY <2>1
  <1>6. Required = {"order.extraction_qc_amount", "task.task_amount", "order.report_release_amount",
                    "order.arrival_amount_including_deposit"}
    BY DEF Required
  <1>7. \A code \in Required : IsAmount(code) /\ Amount(code) = AmountIn(code, w)
    BY <1>3, <1>4 DEF PaidWorld, AllRequired
  <1>8. BasePrice = BaseIn(w) /\ WholePrice = WholeIn(w) /\ PaidIn = ArrivedIn(w)
    BY <1>6, <1>7 DEF BasePrice, BaseIn, WholePrice, WholeIn, PaidIn, ArrivedIn
  <1>9. \A sum : Covers(sum) <=> CoversIn(sum, w)
    BY <1>8 DEF Covers, CoversIn
  <1>10. \A p : CoversShare(p) <=> ShareIn(p, w)
    BY <1>8, <1>9 DEF CoversShare, ShareIn
  <1>11. DepositCovers <=> DepositIn(w)
    BY <1>3, <1>4, <1>8 DEF DepositCovers, DepositIn
  <1> DEFINE framework == IsOneIn("order.framework_type", <<0, 2>>, w)
             special == IsSpecialIn(w)
             enterprise == IsOneIn("order.customer_org_type", <<14, 16>>, w)
  <1>12. /\ (IsOneOf("order.framework_type", <<0, 2>>) /\ (CoversShare(80) \/ DepositCovers)) <=> FrameworkPays(w)
    BY <1>5, <1>10, <1>11 DEF FrameworkPays
  <1>13. (\/ PyLessEqual(BasePrice, Whole(100000)) /\ CoversShare(70)
          \/ PyLess(Whole(100000), BasePrice) /\ CoversShare(50)) <=> SpecialPays(w)
    BY <1>8, <1>10 DEF SpecialPays
  <1>14. /\ IsOneOf("task.product_id", <<759>>) <=> special
         /\ IsOneOf("order.framework_type", <<0, 2>>) <=> framework
         /\ IsOneOf("order.customer_org_type", <<14, 16>>) <=> enterprise
    BY <1>5 DEF IsSpecialIn
  <1>15. CASE special
    <2>1. FrameworkPays(w) \/ SpecialPays(w)
      BY <1>15 DEF PaidWorld
    <2> QED
      BY <1>7, <1>12, <1>13, <1>14, <1>15, <2>1 DEF Paid
  <1>16. CASE ~special /\ framework
    <2>1. FrameworkPays(w)
      BY <1>16 DEF PaidWorld
    <2> QED
      BY <1>7, <1>12, <1>14, <1>16, <2>1 DEF Paid
  <1>17. CASE ~special /\ ~framework /\ enterprise
    <2>1. CoversIn(WholeIn(w), w)
      BY <1>17 DEF PaidWorld
    <2> QED
      BY <1>7, <1>8, <1>9, <1>14, <1>17, <2>1 DEF Paid
  <1>18. CASE ~special /\ ~framework /\ ~enterprise
    <2>1. CoversIn(WholeIn(w), w) \/ (ShareIn(80, w) /\ DepositIn(w))
      BY <1>18 DEF PaidWorld
    <2> QED
      BY <1>7, <1>8, <1>9, <1>10, <1>11, <1>14, <1>18, <2>1 DEF Paid
  <1> QED
    BY <1>15, <1>16, <1>17, <1>18

LEMMA ReadyIsPaid ==
    ASSUME Interpretation, DecisionInv
    PROVE  NoReportWithoutPayment
  <1> SUFFICES ASSUME treeKind = "report", verdict.outcome = "READY", ToSet(verdict.matched) \cap ExemptRules = {}
               PROVE  Paid
    BY DEF NoReportWithoutPayment
  <1> DEFINE w == World("report", factsKnown, membersKnown)
  <1>1. verdict = Interpreted("report", factsKnown, membersKnown)
    BY DEF DecisionInv
  <1>2. GivenFits(factsKnown, ReportMap) /\ verdict = Decided5(Trees["report"].candidate, w)
    BY <1>1, InterpretedIsDecided DEF ReportMap
  <1>3. PlainWorld(w) /\ DepositIsMoney(w)
    BY <1>2, ReportsArePlain
  <1> HIDE DEF w
  <1>4. PICK k \in 1 .. 10 : Says(AllEligibility(<<>>)[k], w) = "pass" /\ verdict.matched = <<ReportCodes[k]>>
    BY <1>2, ReadyReport
  <1>5. ReportCodes[k] \notin ExemptRules
    <2> DEFINE m == <<ReportCodes[k]>>
    <2>1. ToSet(m) = {ReportCodes[k]}
      BY DEF ToSet
    <2> QED
      BY <1>4, <2>1
  <1>6. k \in {6, 8, 9, 10}
    <2>1. k \in {1, 2, 3, 4, 5, 6, 7, 8, 9, 10}
      OBVIOUS
    <2> QED
      BY <1>5, <2>1 DEF ReportCodes, ExemptRules
  <1>7. AllEligibility(<<>>)[k] \in {R3(<<>>), R5(<<>>), R6(<<>>), R7(<<>>)}
    BY <1>6 DEF AllEligibility
  <1>8. \/ Holds(R3(<<>>), w) \/ Holds(R5(<<>>), w) \/ Holds(R6(<<>>), w) \/ Holds(R7(<<>>), w)
    BY <1>4, <1>7 DEF Holds
  <1>9. PaidWorld(w)
    BY <1>3, <1>8, PaymentRulesHold
  <1> QED
    BY <1>9, WorldOfTheFacts DEF w

\* No report is released that is not paid for as the kind of its customer asks, unless one
\* of the exemptions is matched; whatever amounts become known, in whatever order.
THEOREM ReleasedReportsArePaid ==
    ASSUME Interpretation
    PROVE  DecisionSpec => []NoReportWithoutPayment
  <1>1. DecisionInv => NoReportWithoutPayment
    BY ReadyIsPaid
  <1> QED
    BY <1>1, TheVerdictIsOfWhatIsKnown, PTL

-----------------------------------------------------------------------------
(* What single questions come to                                           *)

LEMMA EqSays ==
    ASSUME Interpretation, NEW id, NEW code, NEW n, NEW w, Plain(code, w)
    PROVE  Says(Eq(id, code, n), w) = IF PyEqual(Raw(code, w), Whole(n)) THEN "pass" ELSE "fail"
  <1>1. "eq" \notin Unary
    BY DEF Unary
  <1>2. Says(Eq(id, code, n), w) = CompareSides("eq", "fail", Raw(code, w), Whole(n))
    BY <1>1, AsksSays, PlainReads, LitReads, KnownLiterals DEF Eq
  <1>3. V31!Result("eq", Raw(code, w), Whole(n)) = IF PyEqual(Raw(code, w), Whole(n)) THEN "pass" ELSE "fail"
    BY SameComparisons DEF V31!Result
  <1>4. PyEqual(Raw(code, w), Whole(n)) => Known(Raw(code, w))
    BY DEF PyEqual, Known, Kind, Numeric, Whole, Number
  <1>5. Known(Whole(n)) /\ NullResult("fail") = "fail"
    BY KnownLiterals DEF NullResult
  <1> QED
    BY <1>2, <1>3, <1>4, <1>5 DEF CompareSides

LEMMA IsTrueSays ==
    ASSUME Interpretation, NEW id, NEW code, NEW b \in BOOLEAN, NEW w, Plain(code, w), Raw(code, w) = Bool(b)
    PROVE  Says(IsTrue(id, code), w) = IF b THEN "pass" ELSE "fail"
  <1>1. "eq" \notin Unary
    BY DEF Unary
  <1>2. Known(Bool(b)) /\ Known(Bool(TRUE))
    BY DEF Known, Kind, Bool
  <1>3. Reads(Lit(Bool(TRUE)), w) = Bool(TRUE)
    BY <1>2, LitReads
  <1>4. Says(IsTrue(id, code), w) = CompareSides("eq", "fail", Bool(b), Bool(TRUE))
    <2> DEFINE truth == Lit(Bool(TRUE))
    <2>1. Reads(Fact(code), w) = Bool(b)
      BY PlainReads
    <2>2. IsTrue(id, code) = Asks(id, Fact(code), "eq", truth, "fail")
      BY DEF IsTrue
    <2>3. Reads(truth, w) = Bool(TRUE)
      BY <1>3
    <2> HIDE DEF truth
    <2>4. Says(IsTrue(id, code), w) = CompareSides("eq", "fail", Reads(Fact(code), w), Reads(truth, w))
      BY <1>1, <2>2, AsksSays
    <2> QED
      BY <2>1, <2>3, <2>4
  <1>5. @ = IF PyEqual(Bool(b), Bool(TRUE)) THEN "pass" ELSE "fail"
    BY <1>2, SameComparisons DEF CompareSides, V31!Result
  <1>6. PyEqual(Bool(b), Bool(TRUE)) <=> b
    BY DEF PyEqual, Numeric, Kind, Bool
  <1> QED
    BY <1>4, <1>5, <1>6

LEMMA NotCompletedSays ==
    ASSUME Interpretation, NEW prefix, NEW w, Plain("task.status_code", w),
           PyEqual(Raw("task.status_code", w), Whole(19))
    PROVE  Says(NotCompleted(prefix), w) = "fail"
  <1> DEFINE x == Raw("task.status_code", w)
             a == IsNull(<<prefix, "status-null">>, "task.status_code")
             b == Ne(<<prefix, "status-ne-19">>, "task.status_code", 19)
             c == <<a, b>>
             r == [i \in DOMAIN c |-> Says(c[i], w)]
  <1>1. Known(x) /\ x # Null
    BY DEF PyEqual, Known, Kind, Numeric, Whole, Number, Null
  <1>2. Says(a, w) = "fail"
    BY <1>1, IsNullSays, PlainReads
  <1>3. Says(b, w) = "fail"
    <2>1. "ne" \notin Unary
      BY DEF Unary
    <2>2. Says(b, w) = CompareSides("ne", "fail", x, Whole(19))
      BY <2>1, AsksSays, LitReads, KnownLiterals, PlainReads DEF Ne
    <2>3. V31!Result("ne", x, Whole(19)) = "fail"
      BY SameComparisons DEF V31!Result
    <2> QED
      BY <1>1, <2>2, <2>3, KnownLiterals DEF CompareSides
  <1>4. NotCompleted(prefix) = AnyOf(<<prefix, "not-completed">>, c)
    BY DEF NotCompleted
  <1>5. c # <<>> /\ DOMAIN c = {1, 2} /\ c[1] = a /\ c[2] = b
    OBVIOUS
  <1> HIDE DEF a, b, c
  <1>6. Says(NotCompleted(prefix), w) = Disjunction(r)
    BY <1>4, <1>5, AnyOfSays
  <1>7. DOMAIN r = {1, 2} /\ \A i \in DOMAIN r : r[i] = "fail"
    BY <1>2, <1>3, <1>5
  <1> HIDE DEF r
  <1> QED
    BY <1>6, <1>7 DEF Disjunction

\* One that fails fails the whole; what all hold, holds.
LEMMA PairFails ==
    ASSUME Interpretation, NEW id, NEW a, NEW b, NEW w
    PROVE  /\ Says(a, w) = "fail" \/ Says(b, w) = "fail" => Says(AllOf(id, <<a, b>>), w) = "fail"
           /\ Says(a, w) = "pass" \/ Says(b, w) = "pass" => Says(AnyOf(id, <<a, b>>), w) = "pass"
           /\ Says(AllOf(id, <<a, b>>), w) \notin {"pass", "indeterminate"} =>
                 Says(a, w) = "fail" \/ Says(b, w) = "fail"
  <1> DEFINE c == <<a, b>>
             r == [i \in DOMAIN c |-> Says(c[i], w)]
  <1>1. c # <<>> /\ DOMAIN c = {1, 2} /\ c[1] = a /\ c[2] = b
    OBVIOUS
  <1> HIDE DEF c
  <1>2. Says(AllOf(id, c), w) = Conjunction(r) /\ Says(AnyOf(id, c), w) = Disjunction(r)
    BY <1>1, AllOfSays, AnyOfSays
  <1>3. DOMAIN r = {1, 2} /\ r[1] = Says(a, w) /\ r[2] = Says(b, w)
    BY <1>1
  <1> HIDE DEF r
  <1>4. {r[i] : i \in DOMAIN r} = {Says(a, w), Says(b, w)}
    BY <1>3
  <1> QED
    BY <1>2, <1>4 DEF Conjunction, Disjunction, c

LEMMA AnyOfPasses ==
    ASSUME Interpretation, NEW id, NEW children, children # <<>>, NEW w, Holds(AnyOf(id, children), w)
    PROVE  \E i \in DOMAIN children : Says(children[i], w) = "pass"
  <1> DEFINE r == [i \in DOMAIN children |-> Says(children[i], w)]
  <1>1. Says(AnyOf(id, children), w) = Disjunction(r)
    BY AnyOfSays
  <1>2. DOMAIN r = DOMAIN children /\ \A i \in DOMAIN children : r[i] = Says(children[i], w)
    OBVIOUS
  <1> HIDE DEF r
  <1>3. \E i \in DOMAIN r : r[i] = "pass"
    BY <1>1 DEF Disjunction, Holds
  <1> QED
    BY <1>2, <1>3

\* A status that is known to be terminal, or not to be.
LEMMA TerminalSays ==
    ASSUME Interpretation, NEW id, NEW code, NEW w, Plain(code, w)
    PROVE  /\ Holds(StatusTerminal(id, code), w) => Raw(code, w) \in ToSet(Terminal)
           /\ Raw(code, w) = Text(5) => Says(StatusTerminal(id, code), w) = "fail"
  <1> DEFINE x == Raw(code, w)
  <1>1. "in" \notin Unary
    BY DEF Unary
  <1>2. Known(List(Terminal))
    BY DEF Known, Kind, List
  <1>3. Says(StatusTerminal(id, code), w) = CompareSides("in", "fail", x, List(Terminal))
    BY <1>1, <1>2, AsksSays, PlainReads, LitReads DEF StatusTerminal, InList
  <1>4. V31!Result("in", x, List(Terminal)) = IF PyIn(x, List(Terminal)) THEN "pass" ELSE "fail"
    <2>1. V31!Kind(List(Terminal)) = "list"
      BY DEF V31!Kind, List
    <2> QED
      BY <2>1, SameComparisons DEF V31!Result
  <1>5. List(Terminal)[2] = Terminal /\ DOMAIN Terminal = {1, 2, 3}
        /\ Terminal[1] = Text(1) /\ Terminal[2] = Text(2) /\ Terminal[3] = Text(3)
    BY DEF List, Terminal
  <1>6. \A i \in {1, 2, 3} : ~Numeric(Terminal[i])
    BY <1>5 DEF Numeric, Kind, Text
  <1>7. PyIn(x, List(Terminal)) <=> \E i \in {1, 2, 3} : x = Terminal[i]
    BY <1>5, <1>6 DEF PyIn, PyEqual
  <1>8. Holds(StatusTerminal(id, code), w) => PyIn(x, List(Terminal))
    BY <1>3, <1>4 DEF Holds, CompareSides, NullResult
  <1>9. x = Text(5) => ~PyIn(x, List(Terminal))
    BY <1>5, <1>7 DEF Text
  <1>10. x = Text(5) => Known(x)
    BY DEF Known, Kind, Text
  <1> HIDE DEF x
  <1>11. Holds(StatusTerminal(id, code), w) => x \in ToSet(Terminal)
    BY <1>5, <1>7, <1>8 DEF ToSet
  <1>12. x = Text(5) => Says(StatusTerminal(id, code), w) = "fail"
    BY <1>2, <1>3, <1>4, <1>9, <1>10 DEF CompareSides
  <1> QED
    BY <1>11, <1>12 DEF x

-----------------------------------------------------------------------------
(* A member of a group by itself                                           *)

\* Everything that is asked with eq, ne or in is no date.
LEMMA PlainOfReports ==
    ASSUME NEW w, w.facts = ReportMap, NEW code, code \notin {"task.completion_date", "contract.countersign_date"}
    PROVE  Plain(code, w)
  <1>1. CASE code \notin DOMAIN ReportMap
    BY <1>1 DEF Plain
  <1>2. CASE code \in DOMAIN ReportMap
    <2>1. PICK i \in 1 .. 33 : ReportFacts[i][1] = code /\ ReportMap[code].type = ReportFacts[i][2]
      BY <1>2, FactOfARow
    <2> QED
      BY <2>1, TypesOfRows DEF Plain
  <1> QED
    BY <1>1, <1>2

\* A flag that is 0 is not 1 as well.
LEMMA FlagsAreOne ==
    ASSUME NEW facts, GivenFits(facts, ReportMap), NEW about, NEW w, w = World("report", facts, about),
           NEW code \in {"task.project_report_flag", "task.qc_report_flag"},
           PyEqual(Raw(code, w), Whole(0))
    PROVE  ~PyEqual(Raw(code, w), Whole(1))
  <1> DEFINE x == Raw(code, w)
  <1>1. x # Missing /\ x # Null
    BY DEF PyEqual, Numeric, Kind, Whole, Number, Missing, Null
  <1>2. code \in DOMAIN facts /\ x = facts[code]
    BY <1>1, FactsOfAWorld
  <1>3. code \in DOMAIN ReportMap /\ FitsFact(x, ReportMap[code])
    BY <1>2 DEF GivenFits
  <1>4. PICK i \in 1 .. 33 : ReportFacts[i][1] = code /\ ReportMap[code].type = ReportFacts[i][2]
    BY <1>3, FactOfARow
  <1>5. ReportFacts[i][2] = "integer"
    <2>1. \A j \in 1 .. 33 : j \in {1, 2, 3, 4, 5, 6, 7, 8, 9, 10, 11, 12, 13, 14, 15, 16, 17, 18, 19, 20, 21, 22,
                                    23, 24, 25, 26, 27, 28, 29, 30, 31, 32, 33}
      OBVIOUS
    <2>2. i \in {6, 7}
      BY <1>4, <2>1 DEF ReportFacts
    <2> QED
      BY <2>2 DEF ReportFacts
  <1> HIDE DEF x
  <1>6. V31!MatchesType(x, "integer")
    BY <1>1, <1>3, <1>4, <1>5 DEF FitsFact
  <1>7. V31!Kind(x) = "number" /\ x[3] = 1
    BY <1>6 DEF V31!MatchesType
  <1>8. Kind(x) = "number"
    BY <1>7, SameValues
  <1>9. /\ PyEqual(x, Whole(0)) => x[2] * 1 = 0 * x[3]
        /\ PyEqual(x, Whole(1)) => x[2] * 1 = 1 * x[3]
    BY <1>8 DEF PyEqual, Numeric, Kind, Whole, Number
  <1>10. 0 * x[3] = 0 /\ 1 * x[3] = 1
    BY <1>7
  <1> QED
    BY <1>9, <1>10 DEF x

\* What a member that is ready by itself has come to.
MemberStands(w) ==
    /\ PyEqual(Raw("task.status_code", w), Whole(19))
    /\ \E code \in {"task.project_report_flag", "task.qc_report_flag"} : PyEqual(Raw(code, w), Whole(0))
    /\ \E i \in 1 .. 10 : Says(AllEligibility(<<"m">>)[i], w) = "pass"

LEMMA MemberReadyHolds ==
    ASSUME Interpretation, NEW w, w.facts = ReportMap, Holds(MemberReady, w)
    PROVE  MemberStands(w)
  <1> DEFINE rules == AllEligibility(<<"m">>)
             project == Eq(<<"member-project">>, "task.project_report_flag", 0)
             qc == Eq(<<"member-qc">>, "task.qc_report_flag", 0)
             completed == Eq(<<"member-completed">>, "task.status_code", 19)
             has == AnyOf(<<"member-has-report">>, <<project, qc>>)
             prereq == AllOf(<<"member-prereq">>, <<completed, has>>)
             any == AnyOf(<<"member-any-eligibility">>, rules)
  <1>1. MemberReady = AllOf(<<"member-ready">>, <<prereq, any>>)
    BY DEF MemberReady
  <1>2. Holds(prereq, w) /\ Holds(any, w)
    <2> HIDE DEF prereq, any
    <2> QED
      BY <1>1, TwoHold
  <1>3. Holds(completed, w) /\ Holds(has, w)
    <2> HIDE DEF completed, has
    <2> QED
      BY <1>2, TwoHold
  <1>4. Holds(project, w) \/ Holds(qc, w)
    <2> HIDE DEF project, qc
    <2> QED
      BY <1>3, TwoHold
  <1>5. \A code \in {"task.status_code", "task.project_report_flag", "task.qc_report_flag"} : Plain(code, w)
    BY PlainOfReports
  <1>6. PyEqual(Raw("task.status_code", w), Whole(19))
    BY <1>3, <1>5, EqSays DEF Holds
  <1>7. \E code \in {"task.project_report_flag", "task.qc_report_flag"} : PyEqual(Raw(code, w), Whole(0))
    BY <1>4, <1>5, EqSays DEF Holds
  <1>8. \E i \in 1 .. 10 : Says(rules[i], w) = "pass"
    <2>1. DOMAIN rules = 1 .. 10 /\ rules # <<>>
      BY DEF AllEligibility
    <2> HIDE DEF rules
    <2> QED
      BY <1>2, <2>1, AnyOfPasses
  <1> QED
    BY <1>6, <1>7, <1>8 DEF MemberStands

LEMMA IsTrueRefuses ==
    ASSUME Interpretation, NEW id, NEW code, NEW w, Plain(code, w), Raw(code, w) = Bool(FALSE)
    PROVE  Says(IsTrue(id, code), w) = "fail"
  <1>1. FALSE \in BOOLEAN
    OBVIOUS
  <1>2. Says(IsTrue(id, code), w) = IF FALSE THEN "pass" ELSE "fail"
    BY <1>1, IsTrueSays
  <1> QED
    BY <1>2

\* Nothing holds such a member back once its own guards and its group are set aside.
LEMMA UnguardedIsCalm ==
    ASSUME Interpretation, NEW dossier, GivenFits(dossier, ReportMap), NEW about, NEW v,
           v = World("report", Overlay(Unguarded, dossier), about),
           GivenFits(Overlay(Unguarded, dossier), ReportMap),
           PyEqual(Raw("task.status_code", v), Whole(19)),
           \E code \in {"task.project_report_flag", "task.qc_report_flag"} : PyEqual(Raw(code, v), Whole(0))
    PROVE  \A n \in {1, 2, 4, 5} : Calm(ReportStages[n], v)
  <1> DEFINE facts == Overlay(Unguarded, dossier)
  <1>1. \A code \in Guards : code \in DOMAIN facts /\ facts[code] = Unguarded[code]
    BY DEF Overlay, Unguarded
  <1> HIDE DEF facts
  <1>2. \A code \in Guards : Raw(code, v) = Unguarded[code]
    <2>1. v = World("report", facts, about)
      BY DEF facts
    <2>2. \A code : Raw(code, v) = IF code \in DOMAIN facts THEN facts[code] ELSE Missing
      BY <2>1, FactsOfAWorld
    <2> QED
      BY <1>1, <2>2
  <1>3. /\ Raw("report.release_status", v) = Text(5)
        /\ Raw("task.experiment_status_code", v) = Whole(0)
        /\ Raw("task.offline_report_release_flag", v) = Whole(1)
        /\ Raw("report.merge_group_present", v) = Bool(FALSE)
        /\ Raw("task.in_project_report_release_oa", v) = Bool(FALSE)
    BY <1>2 DEF Guards, Unguarded
  <1>4. v.facts = ReportMap
    BY FactsOfAWorld DEF facts
  <1>5. \A code \in Guards \cup {"task.status_code", "task.project_report_flag", "task.qc_report_flag"} : Plain(code, v)
    BY <1>4, PlainOfReports DEF Guards
  <1>6. Calm(ReportStages[1], v)
    <2>1. Plain("report.release_status", v)
      BY <1>5 DEF Guards
    <2>2. \A id : Says(StatusTerminal(id, "report.release_status"), v) = "fail"
      BY <1>3, <2>1, TerminalSays
    <2> QED
      BY <2>2, ShapeOfTheReport DEF Calm
  <1>7. Calm(ReportStages[5], v)
    <2>1. Plain("task.in_project_report_release_oa", v)
      BY <1>5 DEF Guards
    <2>2. \A id : Says(IsTrue(id, "task.in_project_report_release_oa"), v) = "fail"
      BY <1>3, <2>1, IsTrueRefuses
    <2> QED
      BY <2>2, ShapeOfTheReport DEF Calm
  <1>8. Calm(ReportStages[4], v)
    <2> DEFINE asked == IsTrue(<<"merge-present">>, "report.merge_group_present")
    <2>1. Says(asked, v) = "fail"
      BY <1>3, <1>5, IsTrueRefuses DEF Guards
    <2>2. \E b : MergeUnsatisfied = AllOf(<<"merge-unsatisfied">>, <<asked, b>>)
      BY DEF MergeUnsatisfied
    <2> HIDE DEF asked
    <2>3. Says(MergeUnsatisfied, v) = "fail"
      BY <2>1, <2>2, PairFails
    <2> QED
      BY <2>3, ShapeOfTheReport DEF Calm
  <1>9. Calm(ReportStages[2], v)
    <2> DEFINE r == ReportPrerequisites
               project(id, n) == Eq(<<id, "project">>, "task.project_report_flag", n)
               qc(id, n) == Eq(<<id, "qc">>, "task.qc_report_flag", n)
               absent(id) == AllOf(<<id, "both-absent">>, <<project(id, 1), qc(id, 1)>>)
               present(id) == AnyOf(<<id, "has-report">>, <<project(id, 0), qc(id, 0)>>)
    <2>1. /\ DOMAIN r = 1 .. 6
          /\ r[1].when = NotCompleted("report")
          /\ r[2].when = Eq(<<"exp-2">>, "task.experiment_status_code", 2)
          /\ r[3].when = Eq(<<"exp-7">>, "task.experiment_status_code", 7)
          /\ r[4].when = Eq(<<"offline-0">>, "task.offline_report_release_flag", 0)
          /\ r[5].when = absent("none")
          /\ r[6].when = AllOf(<<"report-pending">>, <<NotOf(<<"not-has-report">>, present("pending-has")),
                                                       NotOf(<<"not-both-absent">>, absent("pending-no"))>>)
      BY DEF ReportPrerequisites, Match, Rule
    <2>2. Says(r[1].when, v) = "fail"
      BY <1>5, <2>1, NotCompletedSays
    <2>3. ~PyEqual(Whole(0), Whole(2)) /\ ~PyEqual(Whole(0), Whole(7)) /\ ~PyEqual(Whole(1), Whole(0))
      BY DEF PyEqual, Numeric, Kind, Whole, Number
    <2>4. Says(r[2].when, v) = "fail" /\ Says(r[3].when, v) = "fail" /\ Says(r[4].when, v) = "fail"
      BY <1>3, <1>5, <2>1, <2>3, EqSays DEF Guards
    <2>5. PICK code \in {"task.project_report_flag", "task.qc_report_flag"} :
            PyEqual(Raw(code, v), Whole(0)) /\ ~PyEqual(Raw(code, v), Whole(1))
      BY FlagsAreOne
    <2>6. \A id : \/ Says(project(id, 0), v) = "pass" /\ Says(project(id, 1), v) = "fail"
                  \/ Says(qc(id, 0), v) = "pass" /\ Says(qc(id, 1), v) = "fail"
      BY <1>5, <2>5, EqSays
    <2> HIDE DEF project, qc
    <2>7. \A id : Says(absent(id), v) = "fail" /\ Says(present(id), v) = "pass"
      BY <2>6, PairFails
    <2> HIDE DEF absent, present
    <2>8. Says(r[5].when, v) = "fail"
      BY <2>1, <2>7
    <2>9. Says(NotOf(<<"not-has-report">>, present("pending-has")), v) = "fail"
      BY <2>7, NotOfSays DEF Negate
    <2>10. Says(r[6].when, v) = "fail"
      BY <2>1, <2>9, PairFails
    <2>11. \A i \in 1 .. 6 : i \in {1, 2, 3, 4, 5, 6}
      OBVIOUS
    <2> HIDE DEF r
    <2>12. \A i \in 1 .. 6 : Says(r[i].when, v) = "fail"
      BY <2>2, <2>4, <2>8, <2>10, <2>11
    <2> QED
      BY <2>1, <2>12, ShapeOfTheReport DEF Calm, r
  <1> QED
    BY <1>6, <1>7, <1>8, <1>9

-----------------------------------------------------------------------------
(* A merge group                                                           *)

LEMMA RowsAreFacts ==
    \A i \in 1 .. 33 : ReportFacts[i][1] \in DOMAIN ReportMap
  <1> DEFINE facts == ReportCatalog("frozen").facts
  <1>1. Trees["report"].catalog.facts = facts
    BY DEF Trees
  <1>2. \A id, rows, file : BuildCatalog(id, rows, file).facts = [i \in DOMAIN rows |-> Confirmed(rows[i])]
    BY DEF BuildCatalog, Overlay
  <1>3. facts = [i \in DOMAIN ReportFacts |-> Confirmed(ReportFacts[i])]
    BY <1>2 DEF ReportCatalog
  <1>4. DOMAIN ReportFacts = 1 .. 33 /\ Len(ReportFacts) = 33
    BY DEF ReportFacts
  <1>5. DOMAIN facts = 1 .. 33 /\ \A i \in 1 .. 33 : facts[i] = Confirmed(ReportFacts[i])
    BY <1>3, <1>4
  <1> HIDE DEF facts
  <1>6. DOMAIN ReportMap = ToSet(Codes(facts))
    BY <1>1 DEF FactMap, ReportMap
  <1>7. \A row : Confirmed(row).code = row[1]
    BY DEF Confirmed
  <1>8. \A i \in 1 .. 33 : i \in DOMAIN Codes(facts) /\ Codes(facts)[i] = ReportFacts[i][1]
    BY <1>5, <1>7 DEF Codes
  <1> QED
    BY <1>6, <1>8 DEF ToSet

\* The facts that guard a task by itself, as the catalogue declares them.
LEMMA GuardsAreDeclared ==
    \A code \in Guards :
        /\ code \in DOMAIN ReportMap
        /\ ReportMap[code].type = CASE code = "report.release_status" -> "enum"
                                    [] code \in {"task.experiment_status_code", "task.offline_report_release_flag"} -> "integer"
                                    [] OTHER -> "boolean"
        /\ ReportMap[code].allowed = IF code = "report.release_status" THEN Statuses ELSE <<>>
  <1>1. \A i \in 1 .. 33 : i \in {1, 2, 3, 4, 5, 6, 7, 8, 9, 10, 11, 12, 13, 14, 15, 16, 17, 18, 19, 20, 21, 22,
                                  23, 24, 25, 26, 27, 28, 29, 30, 31, 32, 33}
    OBVIOUS
  <1>2. /\ ReportFacts[1] = <<"report.release_status", "enum", "task">>
        /\ ReportFacts[3] = <<"task.experiment_status_code", "integer", "task">>
        /\ ReportFacts[4] = <<"task.offline_report_release_flag", "integer", "task">>
        /\ ReportFacts[24] = <<"report.merge_group_present", "boolean", "task">>
        /\ ReportFacts[33] = <<"task.in_project_report_release_oa", "boolean", "task">>
    BY DEF ReportFacts
  <1>3. \A i \in 1 .. 33 : ReportFacts[i][1] \in Guards => i \in {1, 3, 4, 24, 33}
    BY <1>1 DEF ReportFacts, Guards
  <1>4. ASSUME NEW code \in Guards PROVE code \in DOMAIN ReportMap
    <2>1. PICK i \in {1, 3, 4, 24, 33} : ReportFacts[i][1] = code
      BY <1>2 DEF Guards
    <2> QED
      BY <2>1, RowsAreFacts
  <1>5. ASSUME NEW code \in Guards
        PROVE  \E i \in {1, 3, 4, 24, 33} :
                 /\ ReportFacts[i][1] = code /\ ReportMap[code].type = ReportFacts[i][2]
                 /\ ReportMap[code].allowed = IF ReportFacts[i][2] = "enum" THEN Statuses ELSE <<>>
    <2>1. code \in DOMAIN ReportMap
      BY <1>4
    <2>2. PICK i \in 1 .. 33 :
            /\ ReportFacts[i][1] = code /\ ReportMap[code].type = ReportFacts[i][2]
            /\ ReportMap[code].allowed = IF ReportFacts[i][2] = "enum" THEN Statuses ELSE <<>>
      BY <2>1, FactOfARow
    <2>3. i \in {1, 3, 4, 24, 33}
      BY <1>3, <2>2
    <2> QED
      BY <2>2, <2>3
  <1> QED
    BY <1>2, <1>4, <1>5 DEF Guards

LEMMA UnguardedFits ==
    ASSUME NEW dossier, GivenFits(dossier, ReportMap)
    PROVE  GivenFits(Overlay(Unguarded, dossier), ReportMap)
  <1>1. /\ V31!MatchesType(Text(5), "enum")
        /\ V31!MatchesType(Whole(0), "integer") /\ V31!MatchesType(Whole(1), "integer")
        /\ V31!MatchesType(Bool(FALSE), "boolean")
    BY DEF V31!MatchesType, V31!IsString, V31!Kind, V31!Strings, Text, Whole, Number, Bool
  <1>2. Text(5) # Null /\ Whole(0) # Null /\ Whole(1) # Null /\ Bool(FALSE) # Null
    BY DEF Text, Whole, Number, Bool, Null
  <1>3. PyIn(Text(5), List(Statuses))
    <2>1. List(Statuses)[2] = Statuses /\ 5 \in DOMAIN Statuses /\ Statuses[5] = Text(5)
      BY DEF List, Statuses, Terminal
    <2>2. PyEqual(Text(5), Text(5))
      BY DEF PyEqual, Numeric, Kind, Text
    <2> QED
      BY <2>1, <2>2 DEF PyIn
  <1>4. ASSUME NEW code \in Guards
        PROVE  code \in DOMAIN ReportMap /\ FitsFact(Unguarded[code], ReportMap[code])
    <2>1. /\ code = "report.release_status" => Unguarded[code] = Text(5)
          /\ code = "task.experiment_status_code" => Unguarded[code] = Whole(0)
          /\ code = "task.offline_report_release_flag" => Unguarded[code] = Whole(1)
          /\ code \in {"report.merge_group_present", "task.in_project_report_release_oa"} => Unguarded[code] = Bool(FALSE)
      BY DEF Unguarded
    <2>2. CASE code = "report.release_status"
      BY <1>1, <1>2, <1>3, <2>1, <2>2, GuardsAreDeclared DEF FitsFact
    <2>3. CASE code \in {"task.experiment_status_code", "task.offline_report_release_flag"}
      BY <1>1, <1>2, <2>1, <2>3, GuardsAreDeclared DEF FitsFact
    <2>4. CASE code \in {"report.merge_group_present", "task.in_project_report_release_oa"}
      <3>1. ReportMap[code].type = "boolean" /\ ReportMap[code].allowed = <<>> /\ code \in DOMAIN ReportMap
        BY <2>4, GuardsAreDeclared
      <3> QED
        BY <1>1, <1>2, <2>1, <2>4, <3>1 DEF FitsFact
    <2> QED
      BY <2>2, <2>3, <2>4 DEF Guards
  <1>5. DOMAIN Unguarded = Guards
    BY DEF Unguarded
  <1> DEFINE facts == Overlay(Unguarded, dossier)
  <1>6. /\ DOMAIN facts = Guards \cup DOMAIN dossier
        /\ \A code \in DOMAIN facts : facts[code] = IF code \in Guards THEN Unguarded[code] ELSE dossier[code]
    BY <1>5 DEF Overlay
  <1> HIDE DEF facts
  <1>7. ASSUME NEW code \in DOMAIN facts
        PROVE  code \in DOMAIN ReportMap /\ FitsFact(facts[code], ReportMap[code])
    BY <1>4, <1>6 DEF GivenFits
  <1>8. GivenFits(facts, ReportMap)
    BY <1>7 DEF GivenFits
  <1> QED
    BY <1>8 DEF facts

\* What is known of a member is what the lookup of its collection has returned.
MembersInv == \A key \in DOMAIN membersKnown : \E code \in Collections : membersKnown[key] \in Dossiers[code]

LEMMA InitMembers == DecisionInit => MembersInv
  <1>1. DOMAIN <<>> = {}
    OBVIOUS
  <1> QED
    BY <1>1 DEF DecisionInit, MembersInv

LEMMA NextMembers == MembersInv /\ [DecisionNext]_decisionVars => MembersInv'
  <1> SUFFICES ASSUME MembersInv, [DecisionNext]_decisionVars PROVE MembersInv'
    OBVIOUS
  <1>1. CASE LearnFact
    <2>1. membersKnown' = membersKnown
      BY <1>1 DEF LearnFact, Learn
    <2> QED
      BY <2>1 DEF MembersInv
  <1>2. CASE LearnMember
    <2>1. PICK code \in Collections : \E key \in KeysOf(code) \ DOMAIN membersKnown :
            \E dossier \in Dossiers[code] : membersKnown' = Overlay([k \in {key} |-> dossier], membersKnown)
      BY <1>2 DEF LearnMember
    <2>2. PICK key \in KeysOf(code) \ DOMAIN membersKnown :
            \E dossier \in Dossiers[code] : membersKnown' = Overlay([k \in {key} |-> dossier], membersKnown)
      BY <2>1
    <2>3. PICK dossier \in Dossiers[code] : membersKnown' = Overlay([k \in {key} |-> dossier], membersKnown)
      BY <2>2
    <2>4. ASSUME NEW k \in DOMAIN membersKnown'
          PROVE  membersKnown'[k] = dossier \/ (k \in DOMAIN membersKnown /\ membersKnown'[k] = membersKnown[k])
      BY <2>3 DEF Overlay
    <2> QED
      BY <2>4 DEF MembersInv
  <1>3. CASE UNCHANGED decisionVars
    BY <1>3 DEF MembersInv, decisionVars
  <1> QED
    BY <1>1, <1>2, <1>3 DEF DecisionNext

LEMMA MembersFit ==
    ASSUME MembersInv, NEW key \in DOMAIN membersKnown
    PROVE  GivenFits(membersKnown[key], ReportMap)
  <1>1. PICK code \in Collections : membersKnown[key] \in Dossiers[code]
    BY DEF MembersInv
  <1> QED
    BY <1>1, DossiersFit DEF ReportMap

\* When the group does not hold a task back, each of its members has been looked up, and has
\* been released or is ready by itself.
LEMMA GroupHolds ==
    ASSUME Interpretation, NEW w, Calm(ReportStages[4], w), Plain("report.merge_group_present", w),
           Raw("report.merge_group_present", w) = Bool(TRUE),
           NEW key \in Members("report.merge_group_member_ids", w),
           \A k : Plain("report.release_status", Within(w, k))
    PROVE  /\ key \in DOMAIN w.context.members
           /\ \/ Raw("report.release_status", Within(w, key)) \in ToSet(Terminal)
              \/ Holds(MemberReady, Within(w, key))
  <1> DEFINE already == StatusTerminal(<<"member-already">>, "report.release_status")
             ids == "report.merge_group_member_ids"
             members == Overlay([alreadySatisfied |-> already],
                                AllMembersOf(<<"merge-all-members">>, ids, "pass", MemberReady))
             asked == IsTrue(<<"merge-present">>, "report.merge_group_present")
             notAll == NotOf(<<"merge-not-all">>, members)
             judged == [k \in Members(ids, w) |->
                           Judgement(w, k, Says(already, Within(w, k)), Says(MemberReady, Within(w, k)))]
  <1>1. MergeUnsatisfied = AllOf(<<"merge-unsatisfied">>, <<asked, notAll>>)
    BY DEF MergeUnsatisfied
  <1>2. Says(MergeUnsatisfied, w) \notin {"pass", "indeterminate"}
    BY ShapeOfTheReport DEF Calm
  <1>3. Says(asked, w) = "pass"
    <2>1. TRUE \in BOOLEAN
      OBVIOUS
    <2>2. Says(asked, w) = IF TRUE THEN "pass" ELSE "fail"
      BY <2>1, IsTrueSays
    <2> QED
      BY <2>2
  <1>4. Says(members, w) =
          IF Kind(Raw(ids, w)) # "list" THEN "indeterminate"
          ELSE IF Members(ids, w) = {} THEN "pass" ELSE Conjunction(judged)
    BY MembersOrSays
  <1> HIDE DEF asked, members
  <1>5. Says(notAll, w) = Negate(Says(members, w))
    BY NotOfSays
  <1> HIDE DEF notAll
  <1>6. Says(notAll, w) = "fail"
    BY <1>1, <1>2, <1>3, PairFails
  <1>7. Says(members, w) = "pass"
    BY <1>5, <1>6 DEF Negate
  <1>8. DOMAIN judged = Members(ids, w)
        /\ judged[key] = Judgement(w, key, Says(already, Within(w, key)), Says(MemberReady, Within(w, key)))
    OBVIOUS
  <1> HIDE DEF judged
  <1>9. Conjunction(judged) = "pass"
    BY <1>4, <1>7
  <1>10. judged[key] \notin {"fail", "indeterminate"}
    BY <1>8, <1>9 DEF Conjunction
  <1> HIDE DEF already
  <1>11. /\ key \in DOMAIN w.context.members
         /\ Holds(already, Within(w, key)) \/ Holds(MemberReady, Within(w, key))
    BY <1>8, <1>10 DEF Judgement, Holds
  <1>12. Holds(already, Within(w, key)) => Raw("report.release_status", Within(w, key)) \in ToSet(Terminal)
    BY TerminalSays DEF already
  <1> QED
    BY <1>11, <1>12

\* A member that is ready within its group is ready by itself, its own guards set aside.
LEMMA MemberIsReady ==
    ASSUME Interpretation, NEW w, w.facts = ReportMap, DOMAIN w.context = {"facts", "runtime", "members"},
           NEW facts, NEW about, w = World("report", facts, about),
           NEW key \in DOMAIN about, GivenFits(about[key], ReportMap),
           MemberStands(Within(w, key))
    PROVE  Interpreted("report", Overlay(Unguarded, about[key]), about).outcome = "READY"
  <1> DEFINE dossier == about[key]
             own == Overlay(Unguarded, dossier)
             v == World("report", own, about)
             x == Within(w, key)
  <1>1. GivenFits(own, ReportMap)
    BY UnguardedFits
  <1>2. /\ v.facts = w.facts /\ v.parameters = w.parameters /\ v.context.runtime = w.context.runtime
        /\ DOMAIN v.context = {"facts", "runtime", "members"} /\ v.context.members = about
        /\ w.context.members = about /\ v.context.facts = own
    BY DEF World
  <1>3. /\ x.facts = w.facts /\ x.parameters = w.parameters /\ DOMAIN x.context = {"facts", "runtime", "members"}
        /\ x.context.runtime = w.context.runtime /\ x.context.members = about /\ x.context.facts = dossier
    BY <1>2 DEF Within
  <1>4. /\ \A code : code \in DOMAIN own <=> code \in Guards \/ code \in DOMAIN dossier
        /\ \A code : code \notin Guards /\ code \in DOMAIN dossier => own[code] = dossier[code]
    BY DEF Overlay, Unguarded
  <1> HIDE DEF own, v, x, dossier
  <1>5. \A code : code \notin Guards => Raw(code, x) = Raw(code, v)
    BY <1>2, <1>3, <1>4 DEF Raw
  <1>6. Later(x, v)
    BY <1>2, <1>3, <1>5 DEF Later
  <1>7. PyEqual(Raw("task.status_code", v), Whole(19))
    BY <1>5 DEF MemberStands, Guards, x
  <1>8. \E code \in {"task.project_report_flag", "task.qc_report_flag"} : PyEqual(Raw(code, v), Whole(0))
    <2>1. PICK code \in {"task.project_report_flag", "task.qc_report_flag"} : PyEqual(Raw(code, x), Whole(0))
      BY DEF MemberStands, x
    <2>2. code \notin Guards
      BY DEF Guards
    <2> QED
      BY <1>5, <2>1, <2>2
  <1>9. \E i \in 1 .. 10 : Says(AllEligibility(<<>>)[i], v) = "pass"
    <2>1. PICK i \in 1 .. 10 : Says(AllEligibility(<<"m">>)[i], x) = "pass"
      BY DEF MemberStands, x
    <2>2. Follows(AllEligibility(<<"m">>)[i], AllEligibility(<<>>)[i], x, v)
      BY <1>6, EligibilityFollows
    <2>3. Says(AllEligibility(<<>>)[i], v) = "pass"
      BY <2>1, <2>2 DEF Follows
    <2> QED
      BY <2>3
  <1>10. \A n \in {1, 2, 4, 5} : Calm(ReportStages[n], v)
    BY <1>1, <1>7, <1>8, UnguardedIsCalm DEF v, own, dossier
  <1>11. Decided5(Trees["report"].candidate, v).outcome = "READY"
    BY <1>9, <1>10, ReadyReport
  <1>12. Interpreted("report", own, about) = Decided5(Trees["report"].candidate, v)
    BY <1>1, InterpretedIsDecided DEF ReportMap, v
  <1> QED
    BY <1>11, <1>12 DEF own, dossier

LEMMA ReadyIsTogether ==
    ASSUME Interpretation, DecisionInv, MembersInv
    PROVE  GroupIsReleasedTogether
  <1> SUFFICES ASSUME treeKind = "report", verdict.outcome = "READY", InAGroup,
                      NEW key \in KeysOf("report.merge_group_member_ids")
               PROVE  key \in DOMAIN membersKnown /\ StandsAlone(membersKnown[key])
    BY DEF GroupIsReleasedTogether
  <1> DEFINE w == World("report", factsKnown, membersKnown)
             x == Within(w, key)
  <1>1. verdict = Interpreted("report", factsKnown, membersKnown)
    BY DEF DecisionInv
  <1>2. GivenFits(factsKnown, ReportMap) /\ verdict = Decided5(Trees["report"].candidate, w)
    BY <1>1, InterpretedIsDecided DEF ReportMap
  <1>3. /\ w.facts = ReportMap /\ w.context.facts = factsKnown /\ w.context.members = membersKnown
        /\ \A code : Raw(code, w) = IF code \in DOMAIN factsKnown THEN factsKnown[code] ELSE Missing
    BY FactsOfAWorld
  <1>4. DOMAIN w.context = {"facts", "runtime", "members"}
    BY DEF World
  <1> HIDE DEF w
  <1>5. Calm(ReportStages[4], w)
    BY <1>2, ReadyReport
  <1>6. Raw("report.merge_group_present", w) = Bool(TRUE)
    BY <1>3 DEF InAGroup
  <1>7. key \in Members("report.merge_group_member_ids", w)
    <2>1. "report.merge_group_member_ids" \in DOMAIN factsKnown
          /\ key \in V31!KeysIn(factsKnown["report.merge_group_member_ids"][2])
      BY DEF KeysOf
    <2> QED
      BY <1>3, <2>1 DEF Members
  <1>8. Plain("report.merge_group_present", w) /\ \A k : Plain("report.release_status", Within(w, k))
    <2>1. \A k : Within(w, k).facts = ReportMap
      BY <1>3 DEF Within
    <2> QED
      BY <1>3, <2>1, PlainOfReports
  <1>9. /\ key \in DOMAIN membersKnown
        /\ Raw("report.release_status", x) \in ToSet(Terminal) \/ Holds(MemberReady, x)
    BY <1>3, <1>5, <1>6, <1>7, <1>8, GroupHolds
  <1>10. GivenFits(membersKnown[key], ReportMap)
    BY <1>9, MembersFit
  <1>11. x.facts = ReportMap /\ x.context.facts = membersKnown[key]
    BY <1>3, <1>4 DEF Within
  <1>12. CASE Raw("report.release_status", x) \in ToSet(Terminal)
    <2>1. Missing \notin ToSet(Terminal)
      <3>1. DOMAIN Terminal = {1, 2, 3}
            /\ Terminal[1] = Text(1) /\ Terminal[2] = Text(2) /\ Terminal[3] = Text(3)
        BY DEF Terminal
      <3> QED
        BY <3>1 DEF ToSet, Text, Missing
    <2>2. /\ "report.release_status" \in DOMAIN membersKnown[key]
          /\ Raw("report.release_status", x) = membersKnown[key]["report.release_status"]
      BY <1>11, <1>12, <2>1 DEF Raw
    <2> QED
      BY <1>9, <1>12, <2>2 DEF StandsAlone
  <1>13. CASE Holds(MemberReady, x)
    <2>1. MemberStands(x)
      BY <1>11, <1>13, MemberReadyHolds
    <2> HIDE DEF x
    <2>2. Interpreted("report", Overlay(Unguarded, membersKnown[key]), membersKnown).outcome = "READY"
      BY <1>3, <1>4, <1>9, <1>10, <2>1, MemberIsReady DEF w, x
    <2> QED
      BY <1>9, <2>2 DEF StandsAlone
  <1> QED
    BY <1>9, <1>12, <1>13

\* A task of a merge group is released only together with the group: when its report is
\* ready, each member that the group is known to have has been looked up, and is released
\* already or would be released by itself.
THEOREM TheGroupIsReleasedTogether ==
    ASSUME Interpretation
    PROVE  DecisionSpec => []GroupIsReleasedTogether
  <1>1. DecisionInv /\ MembersInv => GroupIsReleasedTogether
    BY ReadyIsTogether
  <1>2. DecisionSpec => []MembersInv
    BY InitMembers, NextMembers, PTL DEF DecisionSpec
  <1> QED
    BY <1>1, <1>2, TheVerdictIsOfWhatIsKnown, PTL
=============================================================================
