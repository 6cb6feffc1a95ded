-------------------------- MODULE DeliveryRegister --------------------------
(***************************************************************************)
(* What the two V3 delivery stores promise together, without commands,     *)
(* retries or races: a rule version is registered in two steps, its rule   *)
(* and then the batch of requests that goes with that rule; neither is     *)
(* ever replaced; and only a delivery that is registered whole is reported *)
(* as persisted.                                                           *)
(***************************************************************************)

CONSTANTS Versions,    \* rule versions
          Deliveries,  \* [version, source, schema, rule, batch]
          Absent       \* nothing stored

VARIABLES register,    \* for each version what is registered of a delivery
          reported     \* the deliveries that a run has reported as persisted

Nothing == [rule |-> Absent, batch |-> Absent]

RuleOf(d)  == [schema |-> d.schema, source |-> d.source, content |-> d.rule]
BatchOf(d) == [schema |-> d.schema, content |-> d.batch]

Half(d)  == [rule |-> RuleOf(d), batch |-> Absent]
Whole(d) == [rule |-> RuleOf(d), batch |-> BatchOf(d)]

Init ==
    /\ register = [v \in Versions |-> Nothing]
    /\ reported = {}

PutRule(d) ==
    /\ register[d.version] = Nothing
    /\ register' = [register EXCEPT ![d.version] = Half(d)]
    /\ UNCHANGED reported

PutBatch(d) ==
    /\ register[d.version] = Half(d)
    /\ register' = [register EXCEPT ![d.version] = Whole(d)]
    /\ UNCHANGED reported

Report(d) ==
    /\ register[d.version] = Whole(d)
    /\ reported' = reported \cup {d}
    /\ UNCHANGED register

Next == \E d \in Deliveries : PutRule(d) \/ PutBatch(d) \/ Report(d)

Spec == Init /\ [][Next]_<<register, reported>>
=============================================================================
