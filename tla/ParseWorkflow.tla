--------------------------- MODULE ParseWorkflow ---------------------------
(***************************************************************************)
(* One parse: the LangGraph workflow behind RuleParsingService._parse_once *)
(* (workflow.py) together with the DeepSeek adapter it calls               *)
(* (deepseek.py).  A node of the graph is an action; invoke_model is two,  *)
(* one up to the await of the provider and one from its answer on.         *)
(*                                                                         *)
(* An answer of the provider is a record: what the request came to, and,   *)
(* when it was answered with a status below 400, what the body is worth    *)
(* and whether it states the token usage charged for it.  Texts are left   *)
(* out: a candidate, and the feedback about it, stand for themselves by    *)
(* the number of the attempt they belong to, 0 standing for none.          *)
(***************************************************************************)
EXTENDS Naturals, Sequences

CONSTANTS MaxRetries,  \* deepseek_max_retries
          BaseDelay,   \* retry_base_delay_seconds
          MaxDelay,    \* retry_max_delay_seconds
          Answers      \* the answers of the provider to choose from

ASSUME RetriesAssumption == MaxRetries \in Nat
ASSUME DelayAssumption   == BaseDelay \in Nat /\ MaxDelay \in Nat /\ BaseDelay <= MaxDelay

Outages    == {"timeout", "unavailable", "rate_limited", "auth_failed", "request_failed",
               "not_configured"}
Bodies     == {"bad_envelope", "empty", "bad_id", "not_json", "bad_schema", "bad_semantics",
               "good"}
AllAnswers == {[status |-> s, body |-> "none", usage |-> FALSE] : s \in Outages}
              \cup [status : {"ok"}, body : Bodies, usage : BOOLEAN]

ASSUME AnswersAssumption == Answers \subseteq AllAnswers

VARIABLES node,      \* the node to run next; "calling" is inside invoke_model
          attempts,  \* ParserState.attempts
          audits,    \* ParserState.attempt_audits
          raw,       \* ParserState.raw_candidate: the attempt it came from
          error,     \* ParserState.error
          result,    \* ParserState.result: the attempt it was built from
          sent,      \* history: what each provider call carried
          answers,   \* history: what each provider call was answered with
          slept      \* history: the seconds spent in the sleeper before each call

vars == <<node, attempts, audits, raw, error, result, sent, answers, slept>>

MaxAttempts == MaxRetries + 1
NoError     == [code |-> "none", retryable |-> FALSE, details |-> 0]
Ended       == {"done", "cancelled"}

Least(a, b) == IF a <= b THEN a ELSE b

\* _retry_delay: doubles from the base, up to the maximum.
RetryDelay(n) == IF n <= 1 THEN 0 ELSE Least(BaseDelay * 2 ^ (n - 2), MaxDelay)
Delays        == {RetryDelay(n) : n \in 1 .. MaxAttempts}

Codes == Outages \cup Bodies \cup {"none", "input_invalid", "received", "success"}
Audit == [attempt : 1 .. MaxAttempts, backoff : Delays, outcome : Codes, retryable : BOOLEAN,
          usage : BOOLEAN]

TypeOK ==
    /\ node \in {"prepare_input", "invoke_model", "calling", "validate_candidate",
                 "build_result", "error"} \cup Ended
    /\ attempts \in 0 .. MaxAttempts
    /\ audits \in Seq(Audit)
    /\ raw \in 0 .. MaxAttempts
    /\ error \in [code : Codes, retryable : BOOLEAN, details : 0 .. MaxAttempts]
    /\ result \in 0 .. MaxAttempts
    /\ sent \in Seq([feedback : 0 .. MaxAttempts, previous : 0 .. MaxAttempts])
    /\ answers \in Seq(Answers)
    /\ slept \in Seq(Delays)

Init ==
    /\ node = "prepare_input"
    /\ attempts = 0
    /\ audits = <<>>
    /\ raw = 0
    /\ error = NoError
    /\ result = 0
    /\ sent = <<>>
    /\ answers = <<>>
    /\ slept = <<>>

-----------------------------------------------------------------------------
(* Helpers                                                                 *)

\* The issue the adapter raises for an answer, if it raises one.  Only an empty
\* body comes with details, which become the feedback of the next attempt.
AdapterFails(a) == a.status # "ok" \/ a.body \in {"bad_envelope", "empty", "bad_id"}

AdapterIssue(a, n) ==
    IF a.status # "ok"
    THEN [code |-> a.status, details |-> 0,
          retryable |-> a.status \in {"timeout", "unavailable", "rate_limited"}]
    ELSE [code |-> a.body, retryable |-> TRUE,
          details |-> IF a.body = "empty" THEN n ELSE 0]

\* Both routes after an attempt: retry while the failure is retryable and the
\* budget lasts.
RouteOnceTooOften(e, n, onward) ==
    IF e = NoError THEN onward
    ELSE IF e.retryable /\ n <= MaxAttempts THEN "invoke_model" ELSE "error"

RouteAnyError(e, n, onward) ==
    IF e = NoError THEN onward
    ELSE IF n < MaxAttempts THEN "invoke_model" ELSE "error"

Route(e, n, onward) ==
    IF e = NoError THEN onward
    ELSE IF e.retryable /\ n < MaxAttempts THEN "invoke_model" ELSE "error"

-----------------------------------------------------------------------------
(* The nodes                                                               *)

\* prepare_input: normalization accepts the text or refuses it.
PrepareInput ==
    /\ node = "prepare_input"
    /\ \/ error' = NoError /\ node' = "invoke_model"
       \/ error' = [code |-> "input_invalid", retryable |-> FALSE, details |-> 0]
          /\ node' = "error"
    /\ UNCHANGED <<attempts, audits, raw, result, sent, answers, slept>>

\* invoke_model up to the provider: back off, then send.
Send(feedback, previous) ==
    /\ node = "invoke_model"
    /\ node' = "calling"
    /\ slept' = Append(slept, RetryDelay(attempts + 1))
    /\ sent' = Append(sent, [feedback |-> feedback, previous |-> previous])
    /\ UNCHANGED <<attempts, audits, raw, error, result, answers>>

CallWithLastCandidate == Send(IF raw > error.details THEN raw ELSE error.details, raw)
CallWithinRetries     == attempts < MaxRetries /\ Send(error.details, raw)

\* A candidate goes along only when there is feedback.
CallProvider == Send(error.details, IF error.details # 0 THEN raw ELSE 0)

\* invoke_model from the answer on: one more attempt, one more audit entry.  The
\* settings do not change: the first attempt finds out that they are missing.
Entry(outcome, retryable, usage) ==
    [attempt |-> attempts + 1, backoff |-> RetryDelay(attempts + 1),
     outcome |-> outcome, retryable |-> retryable, usage |-> usage]

Fail(a) ==
    LET issue == AdapterIssue(a, attempts + 1)
    IN  /\ audits' = Append(audits, Entry(issue.code, issue.retryable, FALSE))
        /\ error' = issue
        /\ node' = Route(issue, attempts + 1, "validate_candidate")
        /\ UNCHANGED raw

Accept(a) ==
    /\ audits' = Append(audits, Entry("received", FALSE, a.usage))
    /\ raw' = attempts + 1
    /\ error' = NoError
    /\ node' = "validate_candidate"

Receive ==
    /\ node = "calling"
    /\ \E a \in Answers :
          /\ a.status = "not_configured" => attempts = 0
          /\ answers' = Append(answers, a)
          /\ IF AdapterFails(a) THEN Fail(a) ELSE Accept(a)
    /\ attempts' = attempts + 1
    /\ UNCHANGED <<result, sent, slept>>

\* _finish_attempt rewrites the outcome of the latest audit entry.
FinishAttemptSilently(outcome, retryable) == UNCHANGED audits
FinishAttempt(outcome, retryable) ==
    audits' = [audits EXCEPT ![Len(audits)].outcome = outcome,
                             ![Len(audits)].retryable = retryable]

\* validate_candidate: JSON, then schema, then semantics.
IssueUnlessSemantic(body, n) ==
    IF body \in {"good", "bad_semantics"} THEN NoError
    ELSE [code |-> body, retryable |-> TRUE, details |-> n]

CandidateIssue(body, n) ==
    IF body = "good" THEN NoError
    ELSE [code |-> body, retryable |-> TRUE, details |-> n]

ValidateCandidate ==
    LET issue == CandidateIssue(answers[raw].body, attempts)
    IN  /\ node = "validate_candidate"
        /\ FinishAttempt(IF issue = NoError THEN "success" ELSE issue.code, issue.retryable)
        /\ error' = issue
        /\ node' = Route(issue, attempts, "build_result")
        /\ UNCHANGED <<attempts, raw, result, sent, answers, slept>>

BuildResult ==
    /\ node = "build_result"
    /\ node' = "done"
    /\ result' = raw
    /\ error' = NoError
    /\ UNCHANGED <<attempts, audits, raw, sent, answers, slept>>

\* The error node, and _parse_once raising the error with its audit.
ErrorTerminal ==
    /\ node = "error"
    /\ node' = "done"
    /\ UNCHANGED <<attempts, audits, raw, error, result, sent, answers, slept>>

\* The task that runs the parse is cancelled at an await.
Cancel ==
    /\ node \notin Ended
    /\ node' = "cancelled"
    /\ UNCHANGED <<attempts, audits, raw, error, result, sent, answers, slept>>

Step == PrepareInput \/ CallProvider \/ Receive \/ ValidateCandidate \/ BuildResult \/ ErrorTerminal

Next == Step \/ Cancel

\* The event loop runs the graph, and every request ends: httpx has a timeout.
Spec     == Init /\ [][Next]_vars
FairSpec == Spec /\ WF_vars(Step)

-----------------------------------------------------------------------------
(* Properties                                                              *)

\* What the outcome code of an answered attempt should be.
Verdict(a) == IF a.status # "ok" THEN a.status
              ELSE IF a.body = "good" THEN "success" ELSE a.body

\* The audit of a finished parse tells what happened: one entry per provider
\* call, in order, each with the verdict on what that call was answered with,
\* although the entry is written by one node and its outcome by another.  The
\* time slept before a call is the backoff its entry reports, at most MaxDelay,
\* with none before the first attempt or after the last.
AuditTellsWhatHappened ==
    node = "done" =>
        /\ Len(audits) = Len(answers) /\ Len(audits) = Len(sent)
        /\ Len(audits) = Len(slept) /\ attempts = Len(audits)
        /\ \A i \in 1 .. Len(audits) : /\ audits[i].attempt = i
                                       /\ audits[i].outcome = Verdict(answers[i])
                                       /\ audits[i].backoff = slept[i]
                                       /\ slept[i] <= IF i = 1 THEN 0 ELSE MaxDelay

\* The provider is called at most MaxRetries + 1 times, transport failures and
\* rejected candidates sharing the budget; it is called again only after a
\* retryable failure; and a parse gives up only on a failure that is final or
\* when the budget is spent.
RetryBudget ==
    /\ Len(sent) <= MaxAttempts
    /\ \A i \in 1 .. Len(sent) - 1 : audits[i].retryable
    /\ node = "done" /\ result = 0 /\ Len(audits) > 0 =>
           ~audits[Len(audits)].retryable \/ Len(audits) = MaxAttempts

\* A parse ends with exactly one of a result and an error, and the result is
\* built from the candidate of the last attempt, which passed validation.
ResultIsTheLastGoodCandidate ==
    node = "done" =>
        /\ (result = 0) <=> (error # NoError)
        /\ result # 0 => result = Len(answers) /\ answers[result].body = "good"

\* Feedback is fresh: an attempt gets feedback about the attempt just before it
\* or none; and after a rejected candidate it gets feedback and that candidate.
FeedbackIsFresh ==
    \A i \in 1 .. Len(sent) :
        /\ sent[i].feedback \in {0, i - 1}
        /\ i > 1 /\ answers[i - 1].body \in {"not_json", "bad_schema", "bad_semantics"} =>
               sent[i] = [feedback |-> i - 1, previous |-> i - 1]

\* A parse that nobody cancels ends, whatever the provider answers.
ParseEnds == <>(node \in Ended)

\* BIZ-20260827-01: the usage total covers every attempt that returned usage.
AllReturnedUsageIsCounted ==
    node = "done" => \A i \in 1 .. Len(answers) : answers[i].usage => audits[i].usage

\* Rule 13 of the system prompt: with feedback, the previous candidate is what
\* the feedback is about and has to be repaired item by item.
FeedbackIsAboutTheCandidateSent ==
    \A i \in 1 .. Len(sent) :
        sent[i].feedback # 0 /\ sent[i].previous # 0 => sent[i].feedback = sent[i].previous

-----------------------------------------------------------------------------
(* The parse as the idempotency coordinator sees it.                       *)

TaskState ==
    CASE node \in {"prepare_input", "invoke_model"}     -> "ready"
      [] node \in {"calling", "validate_candidate"}     -> "calling"
      [] node = "build_result"                          -> "parsed"
      [] node = "error"                                 -> "rejected"
      [] node = "done"      -> IF error = NoError THEN "parsed" ELSE "rejected"
      [] node = "cancelled"                             -> "cancelled"

Coordinator == INSTANCE IdempotentParsing WITH
    Calls <- {"parse"}, Keys <- {}, Fingerprints <- {"f"}, Capacity <- 1,
    NoKey <- "no key", NoTask <- "no task",
    completed <- <<>>, order <- <<>>, inflight <- <<>>, forgotten <- {}, since <- <<>>,
    client <- "open", service <- "started",
    call <- [c \in {"parse"} |-> [state |-> IF node = "cancelled" THEN "cancelled" ELSE "waiting",
                                  key |-> "no key", fp |-> "f", task |-> "parse"]],
    task <- [c \in {"parse"} |-> [state |-> TaskState, attempts |-> Len(sent)]]

\* Every step of the workflow is, for the coordinator, a step of the parse of a
\* task, the cancellation of its caller, or nothing.
RefinesTask ==
    [][Coordinator!Attempt("parse") \/ Coordinator!CancelCaller("parse")]_<<TaskState, Len(sent)>>

=============================================================================
