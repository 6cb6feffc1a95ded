----------------------------- MODULE RuleValues -----------------------------
(***************************************************************************)
(* The values that conditions compare and the three results they can have. *)
(* A value is <<kind, p, q>>: a number is p/q with q > 0, a text is known   *)
(* by its rank p (the blank text is 0), a date is a count of days, an      *)
(* instant a count of minutes UTC.  A text that reads as a number or as an *)
(* ISO date keeps that content under a kind of its own: Python's str stays *)
(* a str until the code converts it.                                       *)
(***************************************************************************)
EXTENDS Integers, Sequences

Missing == <<"missing", 0, 1>>     \* the MISSING sentinel
Null    == <<"null", 0, 1>>        \* None
Bool(b) == <<"bool", IF b THEN 1 ELSE 0, 1>>
Number(p, q)   == <<"number", p, q>>
Whole(n)       == Number(n, 1)
Text(n)        == <<"text", n, 1>>
Blank          == Text(0)
Numeral(n)     == <<"numeral", n, 1>>       \* str such as "5"
IsoDate(d)     == <<"isoDate", d, 1>>       \* str such as "2026-04-15"
IsoInstant(t)  == <<"isoInstant", t, 1>>    \* str such as "2026-04-15T08:00:00Z"
Date(d)        == <<"date", d, 1>>
Instant(t)     == <<"instant", t, 1>>
List(items)    == <<"list", items, 1>>

Strings   == {"text", "numeral", "isoDate", "isoInstant"}
DayLength == 1440
Kind(v)   == v[1]
Known(v)  == Kind(v) \notin {"missing", "null"}
IsString(v) == Kind(v) \in Strings

\* int(): towards zero.
Truncate(v) == IF v[2] >= 0 THEN v[2] \div v[3] ELSE -((-v[2]) \div v[3])

\* _as_decimal: what Decimal(str(value)) can read; a bool is refused first.
AsDecimal(v) == IF Kind(v) \in {"number", "numeral"} THEN Number(v[2], v[3]) ELSE Missing

\* Python's ==: a bool is an int, a str never equals a number or a date.  The numbers here
\* are ints, Decimals, and floats that are what their digits say: Decimal('0.1') == 0.1,
\* which is False, has no counterpart (no tree compares a fraction for equality).
Numeric(v)    == Kind(v) \in {"number", "bool"}
PyEqual(a, b) == IF Numeric(a) /\ Numeric(b) THEN a[2] * b[3] = b[2] * a[3] ELSE a = b
PyIn(a, list) == \E i \in DOMAIN list[2] : PyEqual(a, list[2][i])

\* Python's < between operands of one family; between others it raises TypeError.
Orderable(a, b) == \/ Numeric(a) /\ Numeric(b)
                   \/ Kind(a) = Kind(b) /\ Kind(a) \in Strings \cup {"date", "instant"}
PyLess(a, b)    == a[2] * b[3] < b[2] * a[3]
PyLessEqual(a, b) == PyLess(a, b) \/ PyEqual(a, b)

\* Decimal division and the other operations on numbers.
Plus(a, b)  == Number(a[2] * b[3] + b[2] * a[3], a[3] * b[3])
Minus(a, b) == Number(a[2] * b[3] - b[2] * a[3], a[3] * b[3])
Times(a, b) == Number(a[2] * b[2], a[3] * b[3])
Over(a, b)  == IF b[2] > 0 THEN Number(a[2] * b[3], a[3] * b[2])
               ELSE Number(-(a[2] * b[3]), -(a[3] * b[2]))

-----------------------------------------------------------------------------
\* EvaluationResult, and the three connectives over a sequence of results.
Negate(r) == CASE r = "pass" -> "fail" [] r = "fail" -> "pass" [] OTHER -> r

Conjunction(results) ==
    LET seen == {results[i] : i \in DOMAIN results}
    IN  IF "fail" \in seen THEN "fail"
        ELSE IF "indeterminate" \in seen THEN "indeterminate" ELSE "pass"

Disjunction(results) ==
    LET seen == {results[i] : i \in DOMAIN results}
    IN  IF "pass" \in seen THEN "pass"
        ELSE IF "indeterminate" \in seen THEN "indeterminate" ELSE "fail"

\* _null_result: what a comparison with an unknown operand counts as.
NullResult(policy) == IF policy \in {"pass", "fail"} THEN policy ELSE "indeterminate"

-----------------------------------------------------------------------------
\* FactDataType, as far as the checks tell the types apart.
NumericTypes  == {"integer", "number", "money"}
TemporalTypes == {"date", "datetime"}
OrderedTypes  == NumericTypes \cup TemporalTypes
Ordering   == {"gt", "gte", "lt", "lte"}
Membership == {"in", "not_in"}
Equality   == {"eq", "ne"}
Unary      == {"is_null", "is_not_null", "is_blank", "is_not_blank"}
=============================================================================
