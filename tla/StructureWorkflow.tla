------------------------- MODULE StructureWorkflow -------------------------
(***************************************************************************)
(* The generation of a 3.0.0 rule structure by DeepSeek                    *)
(* (application/rule_parsing/workflow_v3.py): a graph of two nodes, invoke *)
(* and validate, and the feedback that a retry carries.  Unlike            *)
(* ParseWorkflow, what an answer is worth is not assumed: its content is a *)
(* candidate, and is judged by the two validations of the code, which are  *)
(* parameters here; module ReleaseV3 gives them those of StructureV3.      *)
(*                                                                         *)
(* An answer is <<"failed", code>>, the adapter having raised, or          *)
(* <<"content", c>> with c a candidate as it is written, or NotJson.  The  *)
(* raw candidate and the feedback are kept as the number of the attempt    *)
(* they are of, 0 standing for none.                                       *)
(***************************************************************************)
EXTENDS Naturals, Sequences

CONSTANTS MaxAttempts,         \* max_attempts
          Answers,             \* the answers of the adapter to choose from
          MatchesSchema(_),    \* RuleStructureCandidateV3.model_validate accepts it
          PassesSemantics(_)   \* validate_rule_structure_candidate_v3 accepts it

NotJson == [json |-> FALSE]
Retryable == {"timeout", "unavailable", "rate_limited", "bad_envelope", "bad_id", "empty"}
Final     == {"auth_failed", "request_failed", "not_configured"}

\* __init__ refuses another number; the adapter raises these issues and no others.
ASSUME AttemptsAssumption == MaxAttempts \in 1..3
ASSUME AnswersAssumption ==
    \A answer \in Answers :
       \/ answer[1] = "content"
       \/ answer[1] = "failed" /\ answer[2] \in Retryable \cup Final

NoError == [code |-> "none", retryable |-> FALSE]

VARIABLES node,       \* the node to run next
          attempts, raw, feedback, audits, error, candidate,  \* V3State
          answers,    \* history: the answers
          sent        \* history: [feedback, previous] of each call

workflowVars == <<node, attempts, raw, feedback, audits, error, candidate, answers, sent>>

WorkflowInit ==
    /\ node = "invoke" /\ attempts = 0 /\ raw = 0 /\ feedback = 0 /\ audits = <<>>
    /\ error = NoError /\ candidate = <<>> /\ answers = <<>> /\ sent = <<>>

-----------------------------------------------------------------------------
CanRetry(err, n) == err.retryable /\ n < MaxAttempts

\* Mutant: the route after invoke by the candidate alone.
RouteByCandidate(rawAfter, err, n) ==
    IF rawAfter # 0 THEN "validate" ELSE IF CanRetry(err, n) THEN "invoke" ELSE "end"
\* _route_after_invoke: a raw candidate of an earlier attempt is still there after a failure.
RouteAfterInvoke(rawAfter, err, n) ==
    IF rawAfter # 0 /\ err = NoError THEN "validate"
    ELSE IF CanRetry(err, n) THEN "invoke" ELSE "end"

\* An adapter failure has no details, but for an empty answer.
Failed(code) ==
    /\ error' = [code |-> code, retryable |-> code \in Retryable]
    /\ audits' = Append(audits, [outcome |-> code, retryable |-> code \in Retryable])
    /\ feedback' = IF code = "empty" THEN attempts + 1 ELSE 0
    /\ UNCHANGED raw
Received ==
    /\ error' = NoError
    /\ audits' = Append(audits, [outcome |-> "received", retryable |-> FALSE])
    /\ feedback' = 0
    /\ raw' = attempts + 1

\* Mutant: the last candidate goes along in any case.
RawAlways == raw
\* _invoke: the last candidate goes along only when there is feedback.
Previous == IF feedback # 0 THEN raw ELSE 0
InvokeWith(previous) ==
    /\ node = "invoke"
    /\ attempts' = attempts + 1
    /\ sent' = Append(sent, [feedback |-> feedback, previous |-> previous])
    /\ \E answer \in Answers :
          /\ answers' = Append(answers, answer)
          /\ IF answer[1] = "failed" THEN Failed(answer[2]) ELSE Received
    /\ node' = RouteAfterInvoke(raw', error', attempts')
    /\ UNCHANGED candidate
Invoke == InvokeWith(Previous)

\* What _validate makes of a content, in the order of its checks.
Judgement(content) ==
    CASE content = NotJson -> "not_json"
      [] content # NotJson /\ ~MatchesSchema(content) -> "bad_schema"
      [] content # NotJson /\ MatchesSchema(content) /\ ~PassesSemantics(content) -> "bad_semantics"
      [] content # NotJson /\ MatchesSchema(content) /\ PassesSemantics(content) ->
             IF content.issues # <<>> \/ content.proposed # <<>> THEN "confirm" ELSE "success"
Rejected == {"not_json", "bad_schema", "bad_semantics"}

Validate ==
    LET content == answers[raw][2]
        verdict == Judgement(content)
    IN  /\ node = "validate"
        /\ audits' = [audits EXCEPT ![Len(audits)] = [outcome |-> verdict, retryable |-> verdict \in Rejected]]
        /\ error' = IF verdict = "success" THEN NoError
                    ELSE [code |-> verdict, retryable |-> verdict \in Rejected]
        /\ feedback' = IF verdict = "success" THEN feedback ELSE raw
        /\ candidate' = IF verdict = "success" THEN <<content>> ELSE <<>>
        /\ node' = IF CanRetry(error', attempts) THEN "invoke" ELSE "end"
        /\ UNCHANGED <<attempts, raw, answers, sent>>

WorkflowNext == Invoke \/ Validate
WorkflowSpec == WorkflowInit /\ [][WorkflowNext]_workflowVars

-----------------------------------------------------------------------------
Deserved(answer) ==
    IF answer[1] = "failed" THEN answer[2] ELSE Judgement(answer[2])

\* The audit tells of every attempt what its own answer deserves, whatever came before;
\* a run goes on after what may be retried and after nothing else; and it ends with a
\* candidate only if the last answer is one that is accepted and asks for no confirmation.
EachAttemptIsJudgedOnItsOwn ==
    node # "validate" =>
        /\ Len(audits) = Len(answers)
        /\ \A i \in DOMAIN audits : audits[i].outcome = Deserved(answers[i])
        /\ \A i \in DOMAIN audits : i < Len(audits) => audits[i].retryable
        /\ (candidate # <<>>) = (answers # <<>> /\ Deserved(answers[Len(answers)]) = "success")
        /\ candidate # <<>> => candidate[1] = answers[Len(answers)][2]

\* Feedback is about the answer just before it: about a content that was rejected or about
\* one that was empty.  The last content goes along with feedback and only with it, so after
\* an empty answer it is one that the feedback is not about.
HasFeedback(answer) == answer[1] = "content" \/ answer[2] = "empty"
LastContent(some) ==
    LET contents == {i \in DOMAIN some : some[i][1] = "content"}
    IN  CHOOSE i \in {0} \cup contents : \A j \in contents : j <= i
FeedbackIsOfTheLastAnswer ==
    \A i \in 2..Len(sent) :
        sent[i] = IF HasFeedback(answers[i - 1])
                  THEN [feedback |-> i - 1, previous |-> LastContent(SubSeq(answers, 1, i - 1))]
                  ELSE [feedback |-> 0, previous |-> 0]
=============================================================================
